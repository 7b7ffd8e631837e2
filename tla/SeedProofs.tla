------------------------------ MODULE SeedProofs ------------------------------
(***************************************************************************)
(* Proofs about the reference data, for any number of registrations, calls *)
(* of the admin, posts and runs of the seed, and however many are open at  *)
(* a time: what the unique address, the unique scorekeeper and the seed's  *)
(* one transaction guarantee between them.                                 *)
(***************************************************************************)
EXTENDS Seed, FiniteSetTheorems, TLAPS

-----------------------------------------------------------------------------
(* The inductive invariant.                                                *)

Domains ==
    /\ DOMAIN inserted = Registrations \cup Seeds
    /\ DOMAIN call = Registrations \cup Creations
    /\ DOMAIN change = Changes \cup SeedChanges
    /\ DOMAIN write = Writes
    /\ DOMAIN seed = Seeds

\* The key that the k-th step looks up, when the steps before it gave `found`.
KeyAt(k, found) ==
    IF Steps[k][1] = "matches" THEN [i \in 1..3 |-> found[Steps[k][2][i]]] ELSE Steps[k][2]

\* The k-th row of `found` is one that the k-th step looks for.
DemoRow(k, found) ==
    IF Steps[k][1] = "match_scorekeepers" THEN found[k] = found[k - 1]
    ELSE found[k].table = Steps[k][1] /\ found[k].key = KeyAt(k, found)

Active == {"lookup", "insert"}

\* A run of the seed goes through its steps, and holds rows only after the first one.
SeedTypes(s) ==
    /\ DOMAIN seed[s] = {"stage", "found"}
    /\ seed[s].stage \in Active \cup {"idle", "done", "failed"}
    /\ seed[s].found \in Seq(rows \cup inserted[s])
    /\ Len(seed[s].found) <= 10
    /\ seed[s].stage \notin Active => seed[s].found = <<>>
    /\ seed[s].found = <<>> => inserted[s] = {}

\* What it found are the rows of its steps, and it inserts only what it has not inserted.
SeedFound(s) ==
    /\ \A k \in 1..Len(seed[s].found) : DemoRow(k, seed[s].found)
    /\ seed[s].stage = "insert" =>
         /\ Len(seed[s].found) < 10
         /\ Table(s) # "match_scorekeepers"
         /\ Find(Table(s), Key(s), inserted[s]) = {}

\* Its rows are in the tables only after its commit, and each match that it inserted
\* refers to rows that are there and has a state.
SeedRows(s) ==
    /\ \A row \in inserted[s] : row.by = s
    /\ \A row \in rows : row.by = s => seed[s].stage = "done"
    /\ \A m \in RowsIn("matches", inserted[s]) :
         /\ \A i \in 1..3 : m.key[i] \in rows \cup inserted[s]
         /\ Row("match_state", <<m>>, s) \in inserted[s]
    /\ \A row \in RowsIn("match_state", inserted[s]) :
         \E m \in RowsIn("matches", inserted[s]) : row = Row("match_state", <<m>>, s)

\* A match that it inserted is that of its last step, or has its scorekeeper.
Assigned(s, m) ==
    \E i \in {1, 2} : /\ Len(seed[s].found) >= IF i = 1 THEN 6 ELSE 10
                      /\ change[<<s, i>>].stage = "inserted"
                      /\ change[<<s, i>>].match = m

SeedKeepers(s) ==
    /\ \A m \in RowsIn("matches", inserted[s]) :
         \/ Len(seed[s].found) \in {5, 9} /\ m = seed[s].found[Len(seed[s].found)]
         \/ Assigned(s, m)
    /\ \A i \in {1, 2} : change[<<s, i>>].stage # "idle" =>
         /\ change[<<s, i>>].stage \in {"inserted", "kept"}
         /\ change[<<s, i>>].doomed = {}
         /\ change[<<s, i>>].match \in RowsIn("matches", rows \cup inserted[s])

SeedInv(s) == SeedTypes(s) /\ SeedFound(s) /\ SeedRows(s) /\ SeedKeepers(s)

\* The tables refer to rows that are there, and a match has at most one state.
RefInv ==
    /\ \A m \in Matches : \A i \in 1..3 : m.key[i] \in rows
    /\ \A m \in Matches : m.by \in Seeds => Find("match_state", <<m>>, rows) # {}
    /\ \A st \in RowsIn("match_state", rows) : \E m \in Matches : st.key = <<m>>
    /\ \A st1, st2 \in RowsIn("match_state", rows) : st1.key = st2.key => st1 = st2

\* Committed rows and those of open transactions.
Held == rows \cup UNION {inserted[t] : t \in Registrations \cup Seeds}

\* An address is in one of them at most.
UserInv == \A u1, u2 \in RowsIn("users", Held) : u1.key = u2.key => u1 = u2

RegInv(g) ==
    /\ call[g].stage # "idle" => DOMAIN call[g] = {"stage", "email"}
    /\ inserted[g] = IF call[g].stage = "inserted" THEN {Row("users", call[g].email, g)} ELSE {}
    /\ call[g].stage = "refused" => EmailTaken(call[g].email)
    /\ call[g].stage = "created" => Row("users", call[g].email, g) \in rows

\* The scorekeepers are those of committed matches.  A transaction that inserted one
\* deletes all that the match has, and is the only one that inserted one for it.
KeeperInv ==
    /\ \A row \in assignments : row.match \in Matches
    /\ \A c \in DOMAIN change : change[c].stage # "idle" =>
         DOMAIN change[c] = {"stage", "op", "match", "user", "doomed"}
    /\ \A c \in Changes : change[c].stage # "idle" =>
         /\ change[c].match \in Matches
         /\ \A row \in change[c].doomed : row.match = change[c].match
    /\ \A c \in DOMAIN change : change[c].stage = "inserted" =>
         /\ RowsOf(change[c].match) \subseteq change[c].doomed
         /\ \A d \in InsertedFor(change[c].match) : d = c

WriteInv(w) ==
    write[w].stage # "idle" =>
        DOMAIN write[w] = {"stage", "match", "user"} /\ write[w].match \in Matches

Unique(data) ==
    \A row1, row2 \in data : row1.table = row2.table /\ row1.key = row2.key => row1 = row2

\* No demo account yet: only a run that has inserted it can have done more than look it up.
Pending ==
    /\ Find("users", DemoEmail, rows) = {}
    /\ \A row \in rows : row.by \notin Seeds
    /\ \A s \in Seeds : seed[s].found # <<>> => Find("users", DemoEmail, inserted[s]) # {}
    /\ \A s \in Seeds : Unique(inserted[s])

\* A run made the demo account: a row of each step is there, that and no other is found by
\* the runs since, and none inserts anything.
Follows(s, demo) ==
    /\ inserted[s] = {}
    /\ seed[s].stage = "insert" => seed[s].found = <<>>
    /\ \A k \in 1..Len(seed[s].found) : seed[s].found[k] = demo[k]

Settled ==
    /\ Unique({row \in rows : row.by \in Seeds})
    /\ \E demo \in [1..10 -> rows] :
         /\ \A k \in 1..10 : DemoRow(k, demo)
         /\ \A s \in Seeds : Follows(s, demo)

OnceInv == DemoRegistered \/ Pending \/ Settled

ReferenceInv ==
    /\ Domains
    /\ \A s \in Seeds : SeedInv(s)
    /\ RefInv
    /\ UserInv
    /\ \A g \in Registrations : RegInv(g)
    /\ KeeperInv
    /\ \A w \in Writes : WriteInv(w)
    /\ OnceInv
    /\ OneScorekeeper
    /\ DemoMatchReady

-----------------------------------------------------------------------------
(* The steps of the seed, and its rows.                                    *)

\* What Steps says, step by step.
LEMMA StepTable ==
  /\ Len(Steps) = 10 /\ DOMAIN Steps = 1..10
  /\ \A k \in 1..10 : /\ Steps[k][1] = "users" <=> k = 1
                      /\ Steps[k][1] = "matches" <=> k \in {5, 9}
                      /\ Steps[k][1] = "match_scorekeepers" <=> k \in {6, 10}
                      /\ Steps[k][1] # "match_state"
  /\ Steps[1][2] = DemoEmail /\ Steps[6][2] = 1 /\ Steps[10][2] = 2
  /\ \A k \in {5, 9}, i \in 1..3 : Steps[k][2][i] \in 1..(k - 1)
BY DEF Steps

\* The step of a run, by its number.
LEMMA StepOf ==
  ASSUME NEW s \in Seeds
  PROVE  /\ Table(s) = Steps[Step(s)][1]
         /\ Key(s) = KeyAt(Step(s), seed[s].found)
         /\ Step(s) = Len(seed[s].found) + 1
BY DEF Table, Key, KeyAt, Step

\* A key depends on the earlier steps only.
LEMMA KeyOfEarlier ==
  ASSUME NEW k \in 1..10, NEW found, NEW other, \A j \in 1..(k - 1) : found[j] = other[j]
  PROVE  KeyAt(k, found) = KeyAt(k, other)
<1>1. CASE Steps[k][1] = "matches"
  <2>1. k \in {5, 9}
    BY <1>1, StepTable
  <2>2. \A i \in 1..3 : found[Steps[k][2][i]] = other[Steps[k][2][i]]
    BY <2>1, StepTable
  <2> QED
    BY <1>1, <2>2 DEF KeyAt
<1>2. CASE Steps[k][1] # "matches"
  BY <1>2 DEF KeyAt
<1> QED
  BY <1>1, <1>2

\* And so does whether the row of a step is the right one.
LEMMA DemoRowOfEarlier ==
  ASSUME NEW k \in 1..10, NEW found, NEW other, \A j \in 1..k : found[j] = other[j],
         DemoRow(k, found)
  PROVE  DemoRow(k, other)
<1>1. KeyAt(k, found) = KeyAt(k, other)
  BY KeyOfEarlier
<1>2. found[k] = other[k]
  OBVIOUS
<1>3. Steps[k][1] = "match_scorekeepers" => found[k - 1] = other[k - 1]
  BY StepTable
<1> QED
  BY <1>1, <1>2, <1>3 DEF DemoRow

\* A tuple of one is told from another by what it holds.
LEMMA OneTuple == \A a, b : <<a>> = <<b>> => a = b
<1> SUFFICES ASSUME NEW a, NEW b, <<a>> = <<b>> PROVE a = b
  OBVIOUS
<1>1. <<a>>[1] = <<b>>[1]
  OBVIOUS
<1> QED
  BY <1>1

-----------------------------------------------------------------------------
(* What a step leaves alone.                                               *)

\* What a row is held by.
LEMMA HeldRows ==
  \A row : row \in Held <=> \/ row \in rows
                            \/ \E t \in Registrations \cup Seeds : row \in inserted[t]
BY DEF Held

\* The tables grow by rows of others.
GrowsBeside(s) == rows \subseteq rows' /\ \A row \in rows' \ rows : row.by # s

\* A run of the seed does not take part in the step.
LEMMA SeedKept ==
  ASSUME NEW s \in Seeds, SeedInv(s), GrowsBeside(s),
         seed'[s] = seed[s], inserted'[s] = inserted[s],
         \A i \in {1, 2} : change'[<<s, i>>] = change[<<s, i>>]
  PROVE  SeedInv(s)'
<1>1. rows \cup inserted[s] \subseteq (rows \cup inserted[s])'
  BY DEF GrowsBeside
<1>2. SeedTypes(s)'
  <2>1. Seq(rows \cup inserted[s]) \subseteq Seq((rows \cup inserted[s])')
    BY <1>1
  <2> QED
    BY <2>1 DEF SeedInv, SeedTypes
<1>3. SeedFound(s)'
  <2>1. Step(s)' = Step(s) /\ Table(s)' = Table(s) /\ Key(s)' = Key(s)
    BY DEF Step, Table, Key
  <2>2. \A k : DemoRow(k, seed[s].found) => DemoRow(k, seed'[s].found)
    OBVIOUS
  <2> QED
    BY <2>1, <2>2 DEF SeedInv, SeedFound, Find, RowsIn
<1>4. SeedRows(s)'
  BY <1>1 DEF SeedInv, SeedRows, GrowsBeside, RowsIn
<1>5. SeedKeepers(s)'
  BY <1>1 DEF SeedInv, SeedKeepers, Assigned, RowsIn
<1> QED
  BY <1>2, <1>3, <1>4, <1>5 DEF SeedInv

\* The reference tables get rows that refer to rows which are there.
LEMMA RefGrows ==
  ASSUME RefInv, NEW new, rows' = rows \cup new,
         \A m \in RowsIn("matches", new) :
           /\ \A i \in 1..3 : m.key[i] \in rows'
           /\ m.by \in Seeds => Find("match_state", <<m>>, new) # {},
         \A st \in RowsIn("match_state", new) :
           /\ \E m \in RowsIn("matches", rows') : st.key = <<m>>
           /\ \A other \in RowsIn("match_state", rows') : other.key = st.key => other = st
  PROVE  RefInv'
<1>1. \A m \in Matches' : m \in Matches \/ m \in RowsIn("matches", new)
  BY DEF Matches, RowsIn
<1>2. \A st \in RowsIn("match_state", rows') :
        st \in RowsIn("match_state", rows) \/ st \in RowsIn("match_state", new)
  BY DEF RowsIn
<1>3. \A m \in Matches' : \A i \in 1..3 : m.key[i] \in rows'
  BY <1>1 DEF RefInv
<1>4. \A m \in Matches' : m.by \in Seeds => Find("match_state", <<m>>, rows') # {}
  <2> SUFFICES ASSUME NEW m \in Matches', m.by \in Seeds
               PROVE  Find("match_state", <<m>>, rows') # {}
    OBVIOUS
  <2>1. Find("match_state", <<m>>, rows) \cup Find("match_state", <<m>>, new)
          \subseteq Find("match_state", <<m>>, rows')
    BY DEF Find, RowsIn
  <2>2. Find("match_state", <<m>>, rows) # {} \/ Find("match_state", <<m>>, new) # {}
    BY <1>1 DEF RefInv
  <2> QED
    BY <2>1, <2>2
<1>5. \A st \in RowsIn("match_state", rows') : \E m \in Matches' : st.key = <<m>>
  BY <1>2 DEF RefInv, Matches, RowsIn
<1>6. \A st1, st2 \in RowsIn("match_state", rows') : st1.key = st2.key => st1 = st2
  BY <1>2 DEF RefInv
<1> QED
  BY <1>3, <1>4, <1>5, <1>6 DEF RefInv

\* No account is added.
LEMMA UserKept ==
  ASSUME UserInv, \A u \in Held' : u.table = "users" => u \in Held
  PROVE  UserInv'
BY DEF UserInv, RowsIn

\* One account is added, of an address that no transaction holds.
LEMMA UserAdded ==
  ASSUME UserInv, NEW u,
         \A v \in Held' : v.table = "users" => v \in Held \/ v = u,
         \A v \in Held : v.table = "users" => v.key # u.key
  PROVE  UserInv'
BY DEF UserInv, RowsIn

\* A registration does not take part.
LEMMA RegKept ==
  ASSUME NEW g \in Registrations, RegInv(g), rows \subseteq rows',
         call'[g] = call[g], inserted'[g] = inserted[g]
  PROVE  RegInv(g)'
<1>1. \A email : EmailTaken(email) => EmailTaken(email)'
  BY DEF EmailTaken, Find, RowsIn
<1> QED
  BY <1>1 DEF RegInv

\* The assignments are left alone, and no match gets lost.
LEMMA KeeperKept ==
  ASSUME KeeperInv, OneScorekeeper, rows \subseteq rows', assignments' = assignments, change' = change
  PROVE  KeeperInv' /\ OneScorekeeper'
<1>1. Matches \subseteq Matches'
  BY DEF Matches, RowsIn
<1>2. \A m : RowsOf(m)' = RowsOf(m) /\ InsertedFor(m)' = InsertedFor(m)
  BY DEF RowsOf, InsertedFor
<1> QED
  BY <1>1, <1>2 DEF KeeperInv, OneScorekeeper

\* A post does not take part.
LEMMA WriteKept ==
  ASSUME NEW w \in Writes, WriteInv(w), rows \subseteq rows', write'[w] = write[w]
  PROVE  WriteInv(w)'
<1>1. Matches \subseteq Matches'
  BY DEF Matches, RowsIn
<1> QED
  BY <1>1 DEF WriteInv

\* No run of the seed takes part, and an account under the demo address is a registration's.
LEMMA OnceKept ==
  ASSUME OnceInv, rows \subseteq rows', seed' = seed,
         \A row \in rows' \ rows : row.by \notin Seeds,
         \A u \in Find("users", DemoEmail, rows') \ rows : u.by \in Registrations,
         \A s \in Seeds : inserted'[s] = inserted[s]
  PROVE  OnceInv'
<1>1. CASE DemoRegistered
  BY <1>1 DEF DemoRegistered, Find, RowsIn, OnceInv
<1>2. CASE Pending
  <2>1. CASE Find("users", DemoEmail, rows') = {}
    BY <1>2, <2>1 DEF Pending, OnceInv
  <2>2. CASE Find("users", DemoEmail, rows') # {}
    <3>1. PICK u \in Find("users", DemoEmail, rows') : TRUE
      BY <2>2
    <3>2. u \notin rows
      BY <1>2, <3>1 DEF Pending, Find, RowsIn
    <3> QED
      BY <3>1, <3>2 DEF OnceInv, DemoRegistered
  <2> QED
    BY <2>1, <2>2
<1>3. CASE Settled
  <2>1. {row \in rows : row.by \in Seeds} = {row \in rows' : row.by \in Seeds}
    OBVIOUS
  <2>2. PICK demo \in [1..10 -> rows] :
          /\ \A k \in 1..10 : DemoRow(k, demo)
          /\ \A s \in Seeds : Follows(s, demo)
    BY <1>3 DEF Settled
  <2>3. demo \in [1..10 -> rows']
    BY <2>2
  <2>4. \A s \in Seeds : Follows(s, demo)'
    BY <2>2 DEF Follows
  <2>5. Unique({row \in rows' : row.by \in Seeds})
    BY <1>3, <2>1 DEF Settled
  <2> QED
    BY <2>2, <2>3, <2>4, <2>5 DEF OnceInv, Settled
<1> QED
  BY <1>1, <1>2, <1>3 DEF OnceInv

\* A seed commits nothing, a match keeps its scorekeeper, and what was confirmed stays so.
LEMMA ReadyKept ==
  ASSUME DemoMatchReady, RefInv', \A row \in rows' \ rows : row.by \notin Seeds,
         \A m \in Matches : RowsOf(m) # {} =>
            \/ RowsOf(m)' # {}
            \/ \E c \in Changes : change'[c].stage = "confirmed" /\ change'[c].match = m,
         \A c \in Changes : change[c].stage = "confirmed" => change'[c] = change[c]
  PROVE  DemoMatchReady'
<1> SUFFICES ASSUME NEW m \in Matches', m.by \in Seeds
             PROVE  \/ RowsOf(m)' # {}
                    \/ \E c \in Changes : change'[c].stage = "confirmed" /\ change'[c].match = m
  BY DEF DemoMatchReady, RefInv
<1>1. m \in Matches
  BY DEF Matches, RowsIn
<1>2. CASE RowsOf(m) # {}
  BY <1>1, <1>2
<1>3. CASE RowsOf(m) = {}
  BY <1>1, <1>3 DEF DemoMatchReady
<1> QED
  BY <1>2, <1>3

-----------------------------------------------------------------------------
(* Registrations and the admin's calls.                                    *)

\* They leave the assignments, the posts and the runs of the seed alone.
LEMMA BesideSeeds ==
  ASSUME ReferenceInv, UNCHANGED <<assignVars, seed>>, rows \subseteq rows',
         \A row \in rows' \ rows : row.by \notin Seeds,
         \A u \in Find("users", DemoEmail, rows') \ rows : u.by \in Registrations,
         \A s \in Seeds : inserted'[s] = inserted[s],
         Domains', RefInv', UserInv', \A g \in Registrations : RegInv(g)'
  PROVE  ReferenceInv'
<1>1. /\ assignments' = assignments /\ change' = change /\ write' = write
      /\ seed' = seed
  BY DEF assignVars
<1>2. \A s \in Seeds : SeedInv(s)'
  BY <1>1, SeedKept DEF ReferenceInv, GrowsBeside
<1>3. KeeperInv' /\ OneScorekeeper'
  BY <1>1, KeeperKept DEF ReferenceInv
<1>4. \A w \in Writes : WriteInv(w)'
  BY <1>1, WriteKept DEF ReferenceInv
<1>5. OnceInv'
  BY <1>1, OnceKept DEF ReferenceInv
<1>6. DemoMatchReady'
  <2>1. \A m : RowsOf(m)' = RowsOf(m)
    BY <1>1 DEF RowsOf
  <2> QED
    BY <1>1, <2>1, ReadyKept DEF ReferenceInv
<1> QED
  BY <1>2, <1>3, <1>4, <1>5, <1>6 DEF ReferenceInv

\* A registration of which only the stage changes.
LEMMA CallStep ==
  ASSUME ReferenceInv, UNCHANGED <<rows, inserted, assignVars, seed>>, DOMAIN call' = DOMAIN call,
         \A g \in Registrations : RegInv(g)'
  PROVE  ReferenceInv'
<1>1. rows' = rows /\ inserted' = inserted /\ assignVars' = assignVars /\ seed' = seed
  OBVIOUS
<1>2. Domains'
  BY <1>1 DEF ReferenceInv, Domains, assignVars
<1>3. RefInv' /\ UserInv'
  BY <1>1 DEF ReferenceInv, RefInv, UserInv, Held, Matches
<1>4. Find("users", DemoEmail, rows') \ rows = {} /\ rows' \ rows = {}
  BY <1>1 DEF Find, RowsIn
<1> QED
  BY <1>1, <1>2, <1>3, <1>4, BesideSeeds

\* A registration starts.
LEMMA RegisterStep ==
  ASSUME ReferenceInv, UNCHANGED <<assignVars, seed>>, NEW g \in Registrations, NEW email,
         Register(g, email)
  PROVE  ReferenceInv'
<1>1. /\ call[g].stage = "idle" /\ g \in DOMAIN call /\ DOMAIN call' = DOMAIN call
      /\ call' = [call EXCEPT ![g] = [stage |-> "inserting", email |-> email]]
      /\ UNCHANGED <<rows, inserted>>
  BY DEF Register, ReferenceInv, Domains
<1>2. call'[g] = [stage |-> "inserting", email |-> email]
  BY <1>1
<1>3. RegInv(g)'
  BY <1>1, <1>2 DEF ReferenceInv, RegInv
<1>4. \A h \in Registrations \ {g} : RegInv(h)'
  BY <1>1, RegKept DEF ReferenceInv
<1> QED
  BY <1>1, <1>3, <1>4, CallStep

\* A registration is refused: the address has an account.
LEMMA RefuseUserStep ==
  ASSUME ReferenceInv, UNCHANGED <<assignVars, seed>>, NEW g \in Registrations, RefuseUser(g)
  PROVE  ReferenceInv'
<1>1. /\ call[g].stage = "inserting" /\ g \in DOMAIN call /\ DOMAIN call' = DOMAIN call
      /\ call' = [call EXCEPT ![g].stage = "refused"] /\ EmailTaken(call[g].email)
      /\ DOMAIN call[g] = {"stage", "email"} /\ inserted[g] = {}
      /\ UNCHANGED <<rows, inserted>>
  BY DEF RefuseUser, SetCall, ReferenceInv, Domains, RegInv
<1>2. /\ call'[g].stage = "refused" /\ call'[g].email = call[g].email
      /\ DOMAIN call'[g] = {"stage", "email"}
  BY <1>1
<1>3. RegInv(g)'
  BY <1>1, <1>2 DEF RegInv, EmailTaken
<1>4. \A h \in Registrations \ {g} : RegInv(h)'
  BY <1>1, RegKept DEF ReferenceInv
<1> QED
  BY <1>1, <1>3, <1>4, CallStep

\* The INSERT of a registration: no transaction holds the address.
LEMMA InsertUserStep ==
  ASSUME ReferenceInv, UNCHANGED <<assignVars, seed>>, NEW g \in Registrations, InsertUser(g)
  PROVE  ReferenceInv'
<1> DEFINE user == Row("users", call[g].email, g)
<1>1. /\ call[g].stage = "inserting" /\ g \in DOMAIN call /\ DOMAIN call' = DOMAIN call
      /\ call' = [call EXCEPT ![g].stage = "inserted"]
      /\ DOMAIN call[g] = {"stage", "email"} /\ inserted[g] = {}
      /\ DOMAIN inserted = Registrations \cup Seeds
      /\ inserted' = [inserted EXCEPT ![g] = {user}] /\ rows' = rows
      /\ EmailHolders(g, call[g].email) = {} /\ ~ EmailTaken(call[g].email)
  BY DEF InsertUser, SetCall, ReferenceInv, Domains, RegInv
<1>2. /\ call'[g].stage = "inserted" /\ call'[g].email = call[g].email
      /\ DOMAIN call'[g] = {"stage", "email"}
  BY <1>1
<1>3. user.table = "users" /\ user.key = call[g].email
  BY DEF Row
<1>4. Row("users", call'[g].email, g) = user
  BY <1>2
<1> HIDE DEF user
<1>5. /\ inserted'[g] = {user}
      /\ \A t \in (Registrations \cup Seeds) \ {g} : inserted'[t] = inserted[t]
  BY <1>1
<1>6. \A v \in Held' : v \in Held \/ v = user
  BY <1>1, <1>5 DEF Held
<1>7. \A v \in Held : v.table = "users" => v.key # user.key
  <2> SUFFICES ASSUME NEW v \in Held, v.table = "users", v.key = user.key PROVE FALSE
    OBVIOUS
  <2>1. CASE v \in rows
    BY <1>1, <1>3, <2>1 DEF EmailTaken, Find, RowsIn
  <2>2. CASE v \notin rows
    <3>1. PICK t \in Registrations \cup Seeds : v \in inserted[t]
      BY <2>2, HeldRows
    <3> QED
      BY <1>1, <1>3, <3>1 DEF EmailHolders, Find, RowsIn
  <2> QED
    BY <2>1, <2>2
<1>8. UserInv'
  BY <1>6, <1>7, UserAdded DEF ReferenceInv
<1>9. RegInv(g)'
  BY <1>2, <1>4, <1>5 DEF RegInv
<1>10. \A h \in Registrations \ {g} : RegInv(h)'
  BY <1>1, <1>5, RegKept DEF ReferenceInv
<1>11. Domains' /\ RefInv'
  BY <1>1 DEF ReferenceInv, Domains, RefInv, Matches, assignVars
<1>12. \A s \in Seeds : inserted'[s] = inserted[s]
  BY <1>5, TablesAssumption
<1>13. \A u \in Find("users", DemoEmail, rows') : u \in rows
  BY <1>1 DEF Find, RowsIn
<1> QED
  BY <1>1, <1>8, <1>9, <1>10, <1>11, <1>12, <1>13, BesideSeeds

\* Its commit and its rollback.
LEMMA EndUserStep ==
  ASSUME ReferenceInv, UNCHANGED <<assignVars, seed>>, NEW g \in Registrations,
         CommitUser(g) \/ RollbackUser(g)
  PROVE  ReferenceInv'
<1> DEFINE user == Row("users", call[g].email, g)
<1>1. /\ call[g].stage \in {"inserting", "inserted"} /\ g \in DOMAIN call
      /\ DOMAIN call' = DOMAIN call /\ DOMAIN call[g] = {"stage", "email"}
      /\ DOMAIN inserted = Registrations \cup Seeds
      /\ inserted' = [inserted EXCEPT ![g] = {}]
  BY DEF CommitUser, RollbackUser, SetCall, ReferenceInv, Domains, RegInv
<1>2. PICK stage \in {"created", "failed"} : call' = [call EXCEPT ![g].stage = stage]
  BY DEF CommitUser, RollbackUser, SetCall
<1>3. /\ call'[g].stage = stage /\ call'[g].email = call[g].email
      /\ DOMAIN call'[g] = {"stage", "email"}
  BY <1>1, <1>2
<1>4. /\ inserted'[g] = {}
      /\ \A t \in (Registrations \cup Seeds) \ {g} : inserted'[t] = inserted[t]
  BY <1>1
<1>5. user.table = "users" /\ user.by = g
  BY DEF Row
<1>6. /\ rows \subseteq rows' /\ rows' \subseteq rows \cup inserted[g]
      /\ stage = "created" => call[g].stage = "inserted" /\ rows' = rows \cup inserted[g]
  BY <1>1, <1>2, <1>3 DEF CommitUser, RollbackUser, SetCall
<1>7. /\ inserted[g] \subseteq {user}
      /\ call[g].stage = "inserted" => inserted[g] = {user}
  BY DEF ReferenceInv, RegInv
<1>8. RegInv(g)'
  <2>1. Row("users", call'[g].email, g) = user
    BY <1>3
  <2>2. stage = "created" => user \in rows'
    BY <1>6, <1>7
  <2> QED
    BY <1>3, <1>4, <2>1, <2>2 DEF RegInv
<1> HIDE DEF user
<1>9. \A h \in Registrations \ {g} : RegInv(h)'
  BY <1>1, <1>2, <1>4, <1>6, RegKept DEF ReferenceInv
<1>10. UserInv'
  <2>1. \A v \in Held' : v \in Held
    <3> SUFFICES ASSUME NEW v \in Held' PROVE v \in Held
      OBVIOUS
    <3>1. v \in rows' \/ \E t \in Registrations \cup Seeds : v \in inserted'[t]
      BY DEF Held
    <3> QED
      BY <1>4, <1>6, <3>1, HeldRows
  <2> QED
    BY <2>1, UserKept DEF ReferenceInv
<1>11. RefInv'
  <2> DEFINE new == rows' \ rows
  <2>1. rows' = rows \cup new /\ new \subseteq {user}
    BY <1>6, <1>7
  <2> HIDE DEF new
  <2>2. RowsIn("matches", new) = {} /\ RowsIn("match_state", new) = {}
    BY <1>5, <2>1 DEF RowsIn
  <2> QED
    BY <2>1, <2>2, RefGrows DEF ReferenceInv
<1>12. Domains'
  BY <1>1 DEF ReferenceInv, Domains, assignVars
<1>13. \A row \in rows' \ rows : row.by = g
  BY <1>5, <1>6, <1>7
<1>14. \A u \in Find("users", DemoEmail, rows') \ rows : u.by \in Registrations
  BY <1>13 DEF Find, RowsIn
<1>15. g \notin Seeds /\ \A s \in Seeds : inserted'[s] = inserted[s]
  BY <1>4, TablesAssumption
<1> QED
  BY <1>6, <1>8, <1>9, <1>10, <1>11, <1>12, <1>13, <1>14, <1>15, BesideSeeds

\* The admin's calls.
LEMMA CreateStep ==
  ASSUME ReferenceInv, UNCHANGED <<assignVars, seed>>, NEW c \in Creations, CreateSomething(c)
  PROVE  ReferenceInv'
<1>1. c \notin Registrations /\ c \notin Seeds
  BY TablesAssumption
<1>2. ASSUME NEW table \in {"competitions", "teams", "matches"}, NEW key, Create(c, Row(table, key, c)),
             table = "matches" => \A i \in 1..3 : key[i] \in rows
      PROVE  ReferenceInv'
  <2> DEFINE row == Row(table, key, c)
  <2>1. rows' = rows \cup {row} /\ inserted' = inserted /\ call' = [call EXCEPT ![c].stage = "created"]
    BY <1>2 DEF Create, SetCall
  <2>2. row.table = table /\ row.key = key /\ row.by = c
    BY DEF Row
  <2> HIDE DEF row
  <2>3. RefInv'
    <3>1. RowsIn("match_state", {row}) = {}
      BY <2>2 DEF RowsIn
    <3>2. \A m \in RowsIn("matches", {row}) : m = row /\ table = "matches"
      BY <2>2 DEF RowsIn
    <3> QED
      BY <1>1, <1>2, <2>1, <2>2, <3>1, <3>2, RefGrows DEF ReferenceInv
  <2>4. UserInv'
    <3>1. \A u \in Held' : u \in Held \/ u = row
      BY <2>1 DEF Held
    <3> QED
      BY <2>2, <3>1, UserKept DEF ReferenceInv
  <2>5. \A g \in Registrations : RegInv(g)'
    BY <1>1, <2>1, RegKept DEF ReferenceInv
  <2>6. Domains'
    BY <2>1 DEF ReferenceInv, Domains, assignVars
  <2>7. \A u \in Find("users", DemoEmail, rows') \ rows : u.by \in Registrations
    BY <2>1, <2>2 DEF Find, RowsIn
  <2>8. \A other \in rows' \ rows : other.by \notin Seeds
    BY <1>1, <2>1, <2>2
  <2> QED
    BY <2>1, <2>3, <2>4, <2>5, <2>6, <2>7, <2>8, BesideSeeds
<1>3. CASE \E name \in Names : CreateCompetition(c, name) \/ CreateTeam(c, name)
  BY <1>2, <1>3 DEF CreateCompetition, CreateTeam
<1>4. ASSUME NEW competition, NEW home, NEW away, CreateMatch(c, competition, home, away)
      PROVE  ReferenceInv'
  <2>1. \A i \in 1..3 : <<competition, home, away>>[i] \in {competition, home, away}
    OBVIOUS
  <2>2. \A i \in 1..3 : <<competition, home, away>>[i] \in rows
    BY <1>4, <2>1 DEF CreateMatch
  <2> QED
    BY <1>2, <1>4, <2>2 DEF CreateMatch
<1>5. ASSUME NEW competition, NEW home, NEW away, RefuseMatch(c, competition, home, away)
      PROVE  ReferenceInv'
  <2>1. UNCHANGED <<rows, inserted>> /\ call' = [call EXCEPT ![c].stage = "invalid"]
    BY <1>5 DEF RefuseMatch, SetCall
  <2>2. \A g \in Registrations : RegInv(g)'
    BY <1>1, <2>1, RegKept DEF ReferenceInv
  <2> QED
    BY <2>1, <2>2, CallStep
<1> QED
  BY <1>3, <1>4, <1>5 DEF CreateSomething

-----------------------------------------------------------------------------
(* The scorekeepers: assign() and unassign().                              *)

\* These calls leave the tables and the seed alone.
LEMMA BesideTables ==
  ASSUME ReferenceInv, UNCHANGED <<tablesVars, seed>>, DOMAIN change' = DOMAIN change,
         DOMAIN write' = Writes,
         \A c \in SeedChanges : change'[c] = change[c],
         KeeperInv', OneScorekeeper', DemoMatchReady', \A w \in Writes : WriteInv(w)'
  PROVE  ReferenceInv'
<1>1. rows' = rows /\ inserted' = inserted /\ call' = call /\ seed' = seed
  BY DEF tablesVars
<1>2. Domains'
  BY <1>1 DEF ReferenceInv, Domains
<1>3. \A s \in Seeds : SeedInv(s)'
  <2>1. \A s \in Seeds, i \in {1, 2} : <<s, i>> \in SeedChanges
    BY DEF SeedChanges
  <2> QED
    BY <1>1, <2>1, SeedKept DEF ReferenceInv, GrowsBeside
<1>4. RefInv' /\ UserInv'
  BY <1>1 DEF ReferenceInv, RefInv, UserInv, Held, Matches
<1>5. \A g \in Registrations : RegInv(g)'
  BY <1>1, RegKept DEF ReferenceInv
<1>6. OnceInv'
  <2>1. Find("users", DemoEmail, rows') \ rows = {} /\ rows' \ rows = {}
    BY <1>1 DEF Find, RowsIn
  <2> QED
    BY <1>1, <2>1, OnceKept DEF ReferenceInv
<1> QED
  BY <1>2, <1>3, <1>4, <1>5, <1>6 DEF ReferenceInv

ChangeFields == {"stage", "op", "match", "user", "doomed"}

\* One transaction goes on by a step that commits nothing.
LEMMA KeeperChanged ==
  ASSUME Domains, KeeperInv, rows' = rows, assignments' = assignments,
         NEW c \in DOMAIN change, NEW r, change' = [change EXCEPT ![c] = r],
         DOMAIN r = ChangeFields,
         c \in Changes => r.match \in Matches /\ \A row \in r.doomed : row.match = r.match,
         r.stage = "inserted" => /\ RowsOf(r.match) \subseteq r.doomed
                                 /\ \A d \in InsertedFor(r.match) : d = c
  PROVE  KeeperInv'
<1>1. DOMAIN change' = DOMAIN change /\ Changes \subseteq DOMAIN change /\ Matches' = Matches
  BY DEF Domains, Matches
<1>2. change'[c] = r /\ \A d \in DOMAIN change \ {c} : change'[d] = change[d]
  OBVIOUS
<1>3. \A m : RowsOf(m)' = RowsOf(m)
  BY DEF RowsOf
<1>4. \A m : \A d \in InsertedFor(m)' :
        \/ d \in InsertedFor(m)
        \/ d = c /\ r.stage = "inserted" /\ r.match = m
  BY <1>1, <1>2 DEF InsertedFor
<1>5. \A row \in assignments' : row.match \in Matches'
  BY <1>1 DEF KeeperInv
<1>6. \A d \in DOMAIN change' : change'[d].stage # "idle" => DOMAIN change'[d] = ChangeFields
  BY <1>1, <1>2 DEF KeeperInv, ChangeFields
<1>7. \A d \in Changes : change'[d].stage # "idle" =>
        /\ change'[d].match \in Matches'
        /\ \A row \in change'[d].doomed : row.match = change'[d].match
  BY <1>1, <1>2 DEF KeeperInv
<1>8. ASSUME NEW d \in DOMAIN change', change'[d].stage = "inserted"
      PROVE  \A k : k = change'[d].match => /\ RowsOf(k)' \subseteq change'[d].doomed
                                           /\ \A e \in InsertedFor(k)' : e = d
  <2>1. CASE d = c
    BY <1>2, <1>3, <1>4, <1>8, <2>1
  <2>2. CASE d # c
    <3>1. change'[d] = change[d] /\ change[d].stage = "inserted" /\ d \in DOMAIN change
      BY <1>1, <1>2, <1>8, <2>2
    <3>2. /\ RowsOf(change[d].match) \subseteq change[d].doomed
          /\ \A e \in InsertedFor(change[d].match) : e = d
      BY <3>1 DEF KeeperInv
    <3>3. d \in InsertedFor(change[d].match)
      BY <3>1 DEF InsertedFor
    <3>4. ~ (r.stage = "inserted" /\ r.match = change[d].match)
      BY <2>2, <3>3
    <3> QED
      BY <1>3, <1>4, <3>1, <3>2, <3>4
  <2> QED
    BY <2>1, <2>2
<1> QED
  BY <1>5, <1>6, <1>7, <1>8 DEF KeeperInv, ChangeFields, RowsOf, InsertedFor

\* A call goes on by such a step.
LEMMA OneChange ==
  ASSUME ReferenceInv, NEW c \in Changes, UNCHANGED <<tablesVars, seed, assignments, write>>,
         NEW r, change' = [change EXCEPT ![c] = r], change[c].stage # "confirmed",
         DOMAIN r = ChangeFields, r.match \in Matches, \A row \in r.doomed : row.match = r.match,
         r.stage = "inserted" => /\ RowsOf(r.match) \subseteq r.doomed
                                 /\ \A d \in InsertedFor(r.match) : d = c
  PROVE  ReferenceInv'
<1>1. /\ assignments' = assignments /\ write' = write /\ rows' = rows
      /\ c \in DOMAIN change /\ DOMAIN change' = DOMAIN change /\ Changes \subseteq DOMAIN change
  BY DEF tablesVars, ReferenceInv, Domains
<1>2. \A m : RowsOf(m)' = RowsOf(m)
  BY <1>1 DEF RowsOf
<1>3. KeeperInv'
  BY <1>1, KeeperChanged DEF ReferenceInv
<1>4. OneScorekeeper'
  BY <1>1 DEF ReferenceInv, OneScorekeeper
<1>5. \A w \in Writes : WriteInv(w)'
  BY <1>1, WriteKept DEF ReferenceInv
<1>6. DemoMatchReady'
  <2>1. RefInv'
    BY <1>1 DEF ReferenceInv, RefInv, Matches
  <2>2. \A d \in Changes : change[d].stage = "confirmed" => change'[d] = change[d]
    BY <1>1
  <2> QED
    BY <1>1, <1>2, <2>1, <2>2, ReadyKept DEF ReferenceInv
<1>7. \A d \in SeedChanges : change'[d] = change[d]
  BY <1>1, AssignmentAssumption DEF ReferenceInv, Domains
<1> QED
  BY <1>1, <1>3, <1>4, <1>5, <1>6, <1>7, BesideTables DEF ReferenceInv, Domains

\* The statements of assign() and unassign(), and their rollback.
LEMMA ChangeStep ==
  ASSUME ReferenceInv, UNCHANGED <<tablesVars, seed>>, NEW c \in Changes,
         \/ StartSomeChange(c)
         \/ Delete(c) \/ Insert(c) \/ InsertRefused(c) \/ RollbackChange(c)
  PROVE  ReferenceInv'
<1>1. change[c].stage # "idle" =>
        /\ DOMAIN change[c] = ChangeFields /\ change[c].match \in Matches
        /\ \A row \in change[c].doomed : row.match = change[c].match
  BY DEF ReferenceInv, KeeperInv, ChangeFields, Domains
<1>2. CASE StartSomeChange(c)
  <2>1. PICK m, user, op : m \in Matches /\ StartChange(c, m, user, op)
    BY <1>2 DEF StartSomeChange, Assign, Unassign
  <2> DEFINE r == [stage |-> "deleting", op |-> op, match |-> m, user |-> user, doomed |-> RowsOf(m)]
  <2>2. /\ change' = [change EXCEPT ![c] = r] /\ change[c].stage = "idle"
        /\ UNCHANGED <<assignments, write>>
    BY <2>1 DEF StartChange
  <2>3. /\ DOMAIN r = ChangeFields /\ r.match = m /\ r.stage = "deleting"
        /\ \A row \in r.doomed : row.match = m
    BY DEF ChangeFields, RowsOf
  <2> HIDE DEF r
  <2> QED
    BY <2>1, <2>2, <2>3, OneChange
<1>3. CASE Delete(c)
  <2> DEFINE r == [change[c] EXCEPT !.stage = "deleted", !.doomed = @ \cap assignments]
  <2>1. /\ change' = [change EXCEPT ![c] = r] /\ change[c].stage = "deleting"
        /\ UNCHANGED <<assignments, write>>
    BY <1>3 DEF Delete
  <2>2. /\ DOMAIN r = ChangeFields /\ r.match = change[c].match /\ r.stage = "deleted"
        /\ r.doomed \subseteq change[c].doomed
    BY <1>1, <2>1 DEF ChangeFields
  <2> HIDE DEF r
  <2> QED
    BY <1>1, <2>1, <2>2, OneChange
<1>4. ASSUME NEW stage \in {"inserted", "invalid", "failed"}, SetStage(c, stage),
             UNCHANGED <<assignments, write>>,
             change[c].stage \in {"deleting", "deleted", "inserted"},
             stage = "inserted" => MatchFree(change[c].match, change[c].doomed)
      PROVE  ReferenceInv'
  <2> DEFINE r == [change[c] EXCEPT !.stage = stage]
  <2>1. change' = [change EXCEPT ![c] = r]
    BY <1>4 DEF SetStage
  <2>2. /\ DOMAIN r = ChangeFields /\ r.match = change[c].match /\ r.stage = stage
        /\ r.doomed = change[c].doomed
    BY <1>1, <1>4 DEF ChangeFields
  <2> HIDE DEF r
  <2>3. stage = "inserted" => /\ RowsOf(r.match) \subseteq r.doomed
                              /\ InsertedFor(r.match) = {}
    BY <1>4, <2>2 DEF MatchFree, Others, InsertWaitsFor
  <2> QED
    BY <1>1, <1>4, <2>1, <2>2, <2>3, OneChange
<1>5. CASE Insert(c) \/ InsertRefused(c) \/ RollbackChange(c)
  BY <1>4, <1>5 DEF Insert, InsertRefused, RollbackChange, Assigning
<1> QED
  BY <1>2, <1>3, <1>5

\* A call commits.
LEMMA CommitChangeStep ==
  ASSUME ReferenceInv, UNCHANGED <<tablesVars, seed>>, NEW c \in Changes,
         CommitAssign(c) \/ CommitUnassign(c)
  PROVE  ReferenceInv'
<1> DEFINE m == change[c].match
           doomed == change[c].doomed
<1>1. PICK added \in SUBSET {KeeperRow(c)} :
        /\ assignments' = (assignments \ doomed) \cup added
        /\ added # {} => change[c].stage = "inserted"
  <2>1. CASE CommitAssign(c)
    BY <2>1 DEF CommitAssign
  <2>2. CASE CommitUnassign(c)
    <3>1. (assignments \ doomed) \cup {} = assignments \ doomed
      OBVIOUS
    <3> QED
      BY <2>2, <3>1 DEF CommitUnassign
  <2> QED
    BY <2>1, <2>2
<1>2. /\ change[c].stage \in {"deleted", "inserted"}
      /\ change' = [change EXCEPT ![c].stage = "confirmed"] /\ write' = write
      /\ assignments' = (assignments \ doomed) \cup added /\ rows' = rows
  BY <1>1 DEF CommitAssign, CommitUnassign, SetStage, tablesVars
<1>3. /\ DOMAIN change[c] = ChangeFields /\ m \in Matches
      /\ \A row \in doomed : row.match = m
      /\ c \in DOMAIN change /\ Changes \subseteq DOMAIN change /\ DOMAIN change' = DOMAIN change
  BY <1>2 DEF ReferenceInv, KeeperInv, ChangeFields, Domains
<1>4. /\ change'[c].stage = "confirmed" /\ change'[c].match = m /\ change'[c].doomed = doomed
      /\ DOMAIN change'[c] = ChangeFields
      /\ \A d \in DOMAIN change \ {c} : change'[d] = change[d]
  BY <1>2, <1>3 DEF ChangeFields
<1>5. KeeperRow(c).match = m
  BY DEF KeeperRow
<1>6. change[c].stage = "inserted" =>
        /\ RowsOf(m) \subseteq doomed
        /\ \A d \in InsertedFor(m) : d = c
  BY <1>3 DEF ReferenceInv, KeeperInv
<1>7. \A row \in assignments' :
        \/ row \in assignments /\ row \notin doomed
        \/ row \in added /\ row = KeeperRow(c) /\ row.match = m /\ change[c].stage = "inserted"
  BY <1>1, <1>2, <1>5
<1> HIDE DEF m, doomed
<1>8. Matches' = Matches
  BY <1>2 DEF Matches
<1>9. \A k : InsertedFor(k)' \subseteq InsertedFor(k) \ {c}
  BY <1>3, <1>4 DEF InsertedFor
<1>10. KeeperInv'
  <2>1. \A row \in assignments' : row.match \in Matches'
    BY <1>3, <1>7, <1>8 DEF ReferenceInv, KeeperInv
  <2>2. \A d \in DOMAIN change' : change'[d].stage # "idle" => DOMAIN change'[d] = ChangeFields
    BY <1>3, <1>4 DEF ReferenceInv, KeeperInv, ChangeFields
  <2>3. \A d \in Changes : change'[d].stage # "idle" =>
          /\ change'[d].match \in Matches'
          /\ \A row \in change'[d].doomed : row.match = change'[d].match
    BY <1>3, <1>4, <1>8 DEF ReferenceInv, KeeperInv
  <2>4. ASSUME NEW d \in DOMAIN change', change'[d].stage = "inserted"
        PROVE  \A k : k = change'[d].match => /\ RowsOf(k)' \subseteq change'[d].doomed
                                             /\ \A e \in InsertedFor(k)' : e = d
    <3>1. d # c /\ change'[d] = change[d] /\ d \in DOMAIN change
      BY <1>3, <1>4, <2>4
    <3>2. /\ RowsOf(change[d].match) \subseteq change[d].doomed
          /\ \A e \in InsertedFor(change[d].match) : e = d
      BY <2>4, <3>1 DEF ReferenceInv, KeeperInv
    <3>3. d \in InsertedFor(change[d].match)
      BY <2>4, <3>1 DEF InsertedFor
    <3>4. change[c].stage = "inserted" => change[d].match # m
      BY <1>6, <3>1, <3>3
    <3>5. \A k : k = change[d].match => RowsOf(k)' \subseteq RowsOf(k)
      BY <1>7, <3>1, <3>4 DEF RowsOf
    <3> QED
      BY <1>9, <3>1, <3>2, <3>5
  <2> QED
    BY <2>1, <2>2, <2>3, <2>4 DEF KeeperInv, ChangeFields, RowsOf, InsertedFor
<1>11. OneScorekeeper'
  <2>1. \A row \in assignments \ doomed : change[c].stage = "inserted" => row.match # m
    BY <1>6 DEF RowsOf
  <2> QED
    BY <1>7, <2>1, Zenon DEF ReferenceInv, OneScorekeeper
<1>12. \A w \in Writes : WriteInv(w)'
  BY <1>2, WriteKept DEF ReferenceInv
<1>13. DemoMatchReady'
  <2>1. ASSUME NEW k \in Matches, RowsOf(k) # {}, RowsOf(k)' = {} PROVE change'[c].match = k
    <3>1. PICK row \in RowsOf(k) : TRUE
      BY <2>1
    <3>2. row \in assignments /\ row.match = k
      BY <3>1 DEF RowsOf
    <3>3. row \notin assignments'
      BY <2>1, <3>2 DEF RowsOf
    <3>4. row \in doomed
      BY <1>2, <3>2, <3>3
    <3> QED
      BY <1>3, <1>4, <3>2, <3>4
  <2>2. \A d \in Changes : change[d].stage = "confirmed" => change'[d] = change[d]
    BY <1>2, <1>3, <1>4
  <2>3. RefInv'
    BY <1>2 DEF ReferenceInv, RefInv, Matches
  <2> QED
    BY <1>2, <1>4, <2>1, <2>2, <2>3, ReadyKept DEF ReferenceInv
<1>14. \A d \in SeedChanges : change'[d] = change[d]
  BY <1>4, AssignmentAssumption DEF ReferenceInv, Domains
<1> QED
  BY <1>2, <1>3, <1>10, <1>11, <1>12, <1>13, <1>14, BesideTables DEF ReferenceInv, Domains

-----------------------------------------------------------------------------
(* Posts.                                                                  *)

\* A post starts, or its scorekeeper is looked up.
LEMMA AskStep ==
  ASSUME ReferenceInv, UNCHANGED <<tablesVars, seed, assignments, change>>, NEW w \in Writes,
         \/ \E m \in Matches : \E user : StartWrite(w, m, user)
         \/ Check(w)
  PROVE  ReferenceInv'
<1>1. /\ DOMAIN write' = Writes /\ w \in DOMAIN write
      /\ \A v \in Writes \ {w} : write'[v] = write[v]
  BY DEF StartWrite, Check, ReferenceInv, Domains
<1>2. rows' = rows /\ assignments' = assignments /\ Matches' = Matches
  BY DEF tablesVars, Matches
<1>3. WriteInv(w)'
  <2>1. CASE \E m \in Matches : \E user : StartWrite(w, m, user)
    <3>1. PICK m, user : m \in Matches /\ StartWrite(w, m, user)
      BY <2>1
    <3>2. write'[w] = [stage |-> "asked", match |-> m, user |-> user]
      BY <1>1, <3>1 DEF StartWrite
    <3> QED
      BY <1>2, <3>1, <3>2 DEF WriteInv
  <2>2. CASE Check(w)
    BY <1>1, <1>2, <2>2 DEF Check, WriteInv, ReferenceInv
  <2> QED
    BY <2>1, <2>2
<1>4. \A v \in Writes \ {w} : WriteInv(v)'
  BY <1>1, <1>2, WriteKept DEF ReferenceInv
<1>5. KeeperInv' /\ OneScorekeeper'
  BY <1>2, KeeperKept DEF ReferenceInv
<1>6. DemoMatchReady'
  <2>1. \A m : RowsOf(m)' = RowsOf(m)
    BY <1>2 DEF RowsOf
  <2>2. RefInv'
    BY <1>2 DEF ReferenceInv, RefInv
  <2> QED
    BY <1>2, <2>1, <2>2, ReadyKept DEF ReferenceInv
<1> QED
  BY <1>1, <1>3, <1>4, <1>5, <1>6, BesideTables

\* The event is appended, and its match has a state from then on.
LEMMA WriteEventStep ==
  ASSUME ReferenceInv, UNCHANGED <<inserted, call, seed>>, NEW w \in Writes, WriteEvent(w)
  PROVE  ReferenceInv'
<1> DEFINE st == Row("match_state", <<write[w].match>>, w)
<1>1. /\ write[w].stage = "checked" /\ WriteInv(w) /\ w \in DOMAIN write /\ DOMAIN write = Writes
      /\ write' = [write EXCEPT ![w].stage = "written"]
      /\ UNCHANGED <<assignments, change>>
  BY DEF WriteEvent, ReferenceInv, Domains
<1>2. PICK new \in SUBSET {st} : /\ rows' = rows \cup new
                                 /\ new # {} => Find("match_state", <<write[w].match>>, rows) = {}
  <2>1. \/ rows' = rows \cup {}
        \/ rows' = rows \cup {st} /\ Find("match_state", <<write[w].match>>, rows) = {}
    BY DEF WriteEvent
  <2>2. {} \in SUBSET {st} /\ {st} \in SUBSET {st}
    OBVIOUS
  <2> QED
    BY <2>1, <2>2
<1>3. st.table = "match_state" /\ st.key = <<write[w].match>> /\ st.by = w
  BY DEF Row
<1> HIDE DEF st
<1>4. w \notin Seeds
  BY AssignmentAssumption
<1>5. /\ \A s \in Seeds : GrowsBeside(s)
      /\ \A row \in rows' \ rows : row.by \notin Seeds
      /\ rows \subseteq rows'
  BY <1>2, <1>3, <1>4 DEF GrowsBeside
<1>6. Domains'
  BY <1>1 DEF ReferenceInv, Domains
<1>7. \A s \in Seeds : SeedInv(s)'
  BY <1>1, <1>5, SeedKept DEF ReferenceInv
<1>8. RefInv'
  <2>1. write[w].match \in RowsIn("matches", rows')
    BY <1>1, <1>5 DEF WriteInv, Matches, RowsIn
  <2>2. RowsIn("matches", new) = {}
    BY <1>2, <1>3 DEF RowsIn
  <2>3. ASSUME NEW row \in RowsIn("match_state", new)
        PROVE  /\ \E m \in RowsIn("matches", rows') : row.key = <<m>>
               /\ \A other \in RowsIn("match_state", rows') : other.key = row.key => other = row
    <3>1. row = st /\ new = {st} /\ Find("match_state", <<write[w].match>>, rows) = {}
      BY <1>2, <2>3 DEF RowsIn
    <3>2. \A other \in RowsIn("match_state", rows) : other.key # st.key
      BY <1>3, <3>1 DEF Find
    <3> QED
      BY <1>2, <1>3, <2>1, <3>1, <3>2 DEF RowsIn
  <2> QED
    BY <1>2, <2>2, <2>3, RefGrows DEF ReferenceInv
<1>9. UserInv'
  <2>1. \A u \in Held' : u \in Held \/ u = st
    BY <1>2 DEF Held
  <2> QED
    BY <1>3, <2>1, UserKept DEF ReferenceInv
<1>10. \A g \in Registrations : RegInv(g)'
  BY <1>5, RegKept DEF ReferenceInv
<1>11. KeeperInv' /\ OneScorekeeper'
  BY <1>1, <1>5, KeeperKept DEF ReferenceInv
<1>12. \A v \in Writes \ {w} : WriteInv(v)'
  BY <1>1, <1>5, WriteKept DEF ReferenceInv
<1>13. WriteInv(w)'
  <2>1. DOMAIN write'[w] = {"stage", "match", "user"} /\ write'[w].match = write[w].match
    BY <1>1 DEF WriteInv
  <2>2. write[w].match \in Matches'
    BY <1>1, <1>5 DEF WriteInv, Matches, RowsIn
  <2> QED
    BY <2>1, <2>2 DEF WriteInv
<1>14. OnceInv'
  <2>1. \A u \in Find("users", DemoEmail, rows') \ rows : u.by \in Registrations
    BY <1>2, <1>3 DEF Find, RowsIn
  <2> QED
    BY <1>5, <2>1, OnceKept DEF ReferenceInv
<1>15. DemoMatchReady'
  <2>1. \A m : RowsOf(m)' = RowsOf(m)
    BY <1>1 DEF RowsOf
  <2> QED
    BY <1>1, <1>5, <1>8, <2>1, ReadyKept DEF ReferenceInv
<1> QED
  BY <1>6, <1>7, <1>8, <1>9, <1>10, <1>11, <1>12, <1>13, <1>14, <1>15 DEF ReferenceInv

-----------------------------------------------------------------------------
(* A run of the seed: its lookups.                                         *)

\* A step of the run is done, and `row` is the right one.
LEMMA Advance ==
  ASSUME NEW s \in Seeds, SeedTypes(s), SeedFound(s), s \in DOMAIN seed, NEW row, StepDone(s, row),
         Step(s) \in 1..10, rows' = rows, inserted[s] \subseteq inserted'[s],
         row \in rows \cup inserted'[s],
         IF Table(s) = "match_scorekeepers" THEN row = seed[s].found[Len(seed[s].found)]
         ELSE row.table = Table(s) /\ row.key = Key(s)
  PROVE  /\ seed'[s].found = Append(seed[s].found, row) /\ seed'[s].stage = "lookup"
         /\ seed'[s].found # <<>> /\ Len(seed'[s].found) = Step(s)
         /\ seed'[s].found[Step(s)] = row
         /\ \A k \in 1..Len(seed[s].found) : seed'[s].found[k] = seed[s].found[k]
         /\ \A t \in Seeds \ {s} : seed'[t] = seed[t]
         /\ SeedTypes(s)' /\ SeedFound(s)'
<1> DEFINE found == seed[s].found
           next == Append(found, row)
<1>1. /\ Step(s) = Len(found) + 1 /\ Len(found) \in Nat /\ Table(s) = Steps[Step(s)][1]
      /\ Key(s) = KeyAt(Step(s), found)
  BY StepOf DEF SeedTypes
<1>2. found \in Seq(rows \cup inserted'[s])
  <2>1. Seq(rows \cup inserted[s]) \subseteq Seq(rows \cup inserted'[s])
    OBVIOUS
  <2> QED
    BY <2>1 DEF SeedTypes
<1>3. seed' = [seed EXCEPT ![s] = [stage |-> "lookup", found |-> next]]
  BY DEF StepDone
<1>4. seed'[s] = [stage |-> "lookup", found |-> next] /\ \A t \in Seeds \ {s} : seed'[t] = seed[t]
  BY <1>3
<1>5. /\ next \in Seq(rows \cup inserted'[s]) /\ Len(next) = Step(s) /\ next[Step(s)] = row
      /\ \A k \in 1..Len(found) : next[k] = found[k]
  BY <1>1, <1>2
<1>6. \A k \in 1..Len(found) : DemoRow(k, found)
  BY DEF SeedFound
<1> HIDE DEF found, next
<1>7. next # <<>>
  BY <1>5
<1>8. SeedTypes(s)'
  BY <1>4, <1>5, <1>7 DEF SeedTypes, Active
<1>9. \A k \in 1..Len(next) : DemoRow(k, next)
  <2> SUFFICES ASSUME NEW k \in 1..Len(next) PROVE DemoRow(k, next)
    OBVIOUS
  <2>1. CASE k \in 1..Len(found)
    <3>1. k \in 1..10 /\ \A j \in 1..k : found[j] = next[j]
      BY <1>1, <1>5, <2>1
    <3> QED
      BY <1>6, <2>1, <3>1, DemoRowOfEarlier
  <2>2. CASE k = Step(s)
    <3>1. KeyAt(Step(s), found) = KeyAt(Step(s), next)
      <4>1. \A j \in 1..(Step(s) - 1) : found[j] = next[j]
        BY <1>1, <1>5
      <4> QED
        BY <4>1, KeyOfEarlier
    <3>2. CASE Table(s) = "match_scorekeepers"
      <4>1. Step(s) \in {6, 10}
        BY <1>1, <3>2, StepTable
      <4>2. next[Step(s) - 1] = found[Len(found)]
        BY <1>1, <1>5, <4>1
      <4> QED
        BY <1>1, <1>5, <2>2, <3>2, <4>2 DEF DemoRow, found
    <3>3. CASE Table(s) # "match_scorekeepers"
      BY <1>1, <1>5, <2>2, <3>1, <3>3 DEF DemoRow
    <3> QED
      BY <3>2, <3>3
  <2> QED
    BY <1>1, <1>5, <2>1, <2>2
<1>10. SeedFound(s)'
  BY <1>4, <1>9 DEF SeedFound
<1> QED
  BY <1>4, <1>5, <1>7, <1>8, <1>10 DEF found, next

\* A step of the run that reads only.
LEMMA BesideOthers ==
  ASSUME ReferenceInv, NEW s \in Seeds, UNCHANGED <<tablesVars, assignVars>>, DOMAIN seed' = Seeds,
         \A t \in Seeds \ {s} : seed'[t] = seed[t], SeedInv(s)', OnceInv'
  PROVE  ReferenceInv'
<1>1. /\ rows' = rows /\ inserted' = inserted /\ call' = call /\ assignments' = assignments
      /\ change' = change /\ write' = write
  BY DEF tablesVars, assignVars
<1>2. Domains'
  BY <1>1 DEF ReferenceInv, Domains
<1>3. \A t \in Seeds \ {s} : SeedInv(t)'
  BY <1>1, SeedKept DEF ReferenceInv, GrowsBeside
<1>4. RefInv' /\ UserInv'
  BY <1>1 DEF ReferenceInv, RefInv, UserInv, Held, Matches
<1>5. \A g \in Registrations : RegInv(g)'
  BY <1>1, RegKept DEF ReferenceInv
<1>6. KeeperInv' /\ OneScorekeeper'
  BY <1>1, KeeperKept DEF ReferenceInv
<1>7. \A w \in Writes : WriteInv(w)'
  BY <1>1, WriteKept DEF ReferenceInv
<1>8. DemoMatchReady'
  <2>1. \A m : RowsOf(m)' = RowsOf(m)
    BY <1>1 DEF RowsOf
  <2> QED
    BY <1>1, <1>4, <2>1, ReadyKept DEF ReferenceInv
<1> QED
  BY <1>2, <1>3, <1>4, <1>5, <1>6, <1>7, <1>8 DEF ReferenceInv

\* Once the demo is settled, a lookup finds a row of it and, if only one, that.
LEMMA SettledLookup ==
  ASSUME NEW s \in Seeds, SeedTypes(s), Step(s) \in 1..10, Table(s) # "match_scorekeepers",
         NEW demo \in [1..10 -> rows], \A k \in 1..10 : DemoRow(k, demo), Follows(s, demo)
  PROVE  demo[Step(s)] \in Candidates(s)
<1>1. /\ Step(s) = Len(seed[s].found) + 1 /\ Len(seed[s].found) \in Nat
      /\ Table(s) = Steps[Step(s)][1] /\ Key(s) = KeyAt(Step(s), seed[s].found)
  BY StepOf DEF SeedTypes
<1>2. \A j \in 1..(Step(s) - 1) : seed[s].found[j] = demo[j]
  BY <1>1 DEF Follows
<1>3. Key(s) = KeyAt(Step(s), demo)
  BY <1>1, <1>2, KeyOfEarlier
<1>4. demo[Step(s)].table = Table(s) /\ demo[Step(s)].key = Key(s)
  BY <1>1, <1>3 DEF DemoRow
<1> QED
  BY <1>4 DEF Candidates, Find, RowsIn

\* A run starts.
LEMMA StartSeedStep ==
  ASSUME ReferenceInv, NEW s \in Seeds, StartSeed(s)
  PROVE  ReferenceInv'
<1>1. /\ UNCHANGED <<tablesVars, assignVars>> /\ seed[s].stage = "idle" /\ SeedInv(s)
      /\ seed' = [seed EXCEPT ![s].stage = "lookup"] /\ DOMAIN seed = Seeds
  BY DEF StartSeed, ReferenceInv, Domains
<1>2. DOMAIN seed[s] = {"stage", "found"} /\ seed[s].found = <<>>
  BY <1>1 DEF SeedInv, SeedTypes, Active
<1>3. /\ seed'[s].stage = "lookup" /\ seed'[s].found = seed[s].found
      /\ DOMAIN seed'[s] = {"stage", "found"}
      /\ \A t \in Seeds \ {s} : seed'[t] = seed[t]
  BY <1>1, <1>2
<1>4. rows' = rows /\ inserted' = inserted /\ change' = change
  BY <1>1 DEF tablesVars, assignVars
<1>5. SeedInv(s)'
  <2>1. SeedTypes(s)' /\ SeedFound(s)'
    BY <1>1, <1>3, <1>4 DEF SeedInv, SeedTypes, SeedFound, Active
  <2>2. SeedRows(s)' /\ SeedKeepers(s)'
    BY <1>1, <1>3, <1>4 DEF SeedInv, SeedRows, SeedKeepers, Assigned
  <2> QED
    BY <2>1, <2>2 DEF SeedInv
<1>6. OnceInv'
  <2>1. \A t \in Seeds : seed'[t].found = seed[t].found /\ (seed'[t].stage = "insert" => seed[t].stage = "insert")
    BY <1>3
  <2>2. DemoRegistered => DemoRegistered'
    BY <1>4 DEF DemoRegistered
  <2>3. Pending => Pending'
    BY <1>4, <2>1 DEF Pending
  <2>4. ASSUME Settled PROVE Settled'
    <3>1. PICK demo \in [1..10 -> rows] :
            /\ \A k \in 1..10 : DemoRow(k, demo)
            /\ \A t \in Seeds : Follows(t, demo)
      BY <2>4 DEF Settled
    <3>2. \A t \in Seeds : Follows(t, demo)'
      BY <1>4, <2>1, <3>1 DEF Follows
    <3> QED
      BY <1>4, <2>4, <3>1, <3>2 DEF Settled
  <2> QED
    BY <2>2, <2>3, <2>4 DEF ReferenceInv, OnceInv
<1> QED
  BY <1>1, <1>3, <1>5, <1>6, BesideOthers

\* A lookup finds its row.
LEMMA FoundStep ==
  ASSUME ReferenceInv, NEW s \in Seeds, Found(s)
  PROVE  ReferenceInv'
<1>1. /\ UNCHANGED <<tablesVars, assignVars>> /\ At(s, "lookup") /\ Table(s) # "match_scorekeepers"
      /\ s \in DOMAIN seed /\ DOMAIN seed = Seeds
      /\ SeedInv(s) /\ SeedTypes(s) /\ SeedFound(s) /\ SeedRows(s) /\ SeedKeepers(s)
  BY DEF Found, ReferenceInv, Domains, SeedInv
<1>2. PICK row \in Candidates(s) : Candidates(s) = {row} /\ StepDone(s, row)
  BY DEF Found
<1>3. row \in rows \cup inserted[s] /\ row.table = Table(s) /\ row.key = Key(s)
  BY DEF Candidates, Find, RowsIn
<1>4. rows' = rows /\ inserted' = inserted /\ change' = change
  BY <1>1 DEF tablesVars, assignVars
<1>5. Step(s) \in 1..10 /\ Step(s) = Len(seed[s].found) + 1 /\ Len(seed[s].found) \in Nat
  BY <1>1, StepTable, StepOf DEF At, SeedTypes
<1>6. /\ seed'[s].found # <<>> /\ Len(seed'[s].found) = Step(s) /\ seed'[s].stage = "lookup"
      /\ seed'[s].found[Step(s)] = row
      /\ \A k \in 1..Len(seed[s].found) : seed'[s].found[k] = seed[s].found[k]
      /\ \A t \in Seeds \ {s} : seed'[t] = seed[t]
      /\ SeedTypes(s)' /\ SeedFound(s)'
  BY <1>1, <1>2, <1>3, <1>4, <1>5, Advance
<1>7. SeedRows(s)'
  BY <1>1, <1>4, <1>6 DEF SeedRows, At
<1>8. SeedKeepers(s)'
  <2>1. Len(seed[s].found) \notin {5, 9}
    <3>1. Step(s) \notin {6, 10}
      BY <1>1, <1>5, StepOf, StepTable
    <3>2. \A n \in Nat : n + 1 \notin {6, 10} => n \notin {5, 9}
      OBVIOUS
    <3> QED
      BY <1>5, <3>1, <3>2
  <2>2. \A m : Assigned(s, m) => Assigned(s, m)'
    BY <1>4, <1>5, <1>6 DEF Assigned
  <2> QED
    BY <1>1, <1>4, <2>1, <2>2 DEF SeedKeepers
<1>9. OnceInv'
  <2>1. DemoRegistered => DemoRegistered'
    BY <1>4 DEF DemoRegistered
  <2>2. ASSUME Pending PROVE Pending'
    <3>1. seed[s].found # <<>>
      <4>1. SUFFICES ASSUME seed[s].found = <<>> PROVE FALSE
        OBVIOUS
      <4>2. Step(s) = 1 /\ inserted[s] = {}
        BY <1>1, <1>5, <4>1 DEF SeedTypes
      <4>3. Table(s) = "users" /\ Key(s) = DemoEmail
        BY <4>2, StepOf, StepTable DEF KeyAt
      <4> QED
        BY <1>3, <2>2, <4>2, <4>3 DEF Pending, Find, RowsIn
    <3> QED
      BY <1>4, <1>6, <2>2, <3>1 DEF Pending
  <2>3. ASSUME Settled PROVE Settled'
    <3>1. PICK demo \in [1..10 -> rows] :
            /\ \A k \in 1..10 : DemoRow(k, demo)
            /\ \A t \in Seeds : Follows(t, demo)
      BY <2>3 DEF Settled
    <3>2. row = demo[Step(s)]
      BY <1>1, <1>2, <1>5, <3>1, SettledLookup
    <3>3. \A k \in 1..Step(s) : seed'[s].found[k] = demo[k]
      <4>1. \A k \in 1..Step(s) : k \in 1..Len(seed[s].found) \/ k = Step(s)
        BY <1>5
      <4> QED
        BY <1>6, <3>1, <3>2, <4>1 DEF Follows
    <3>4. ASSUME NEW t \in Seeds PROVE Follows(t, demo)'
      <4>1. CASE t = s
        BY <1>4, <1>6, <3>1, <3>3, <4>1 DEF Follows
      <4>2. CASE t # s
        <5>1. seed'[t] = seed[t] /\ inserted'[t] = inserted[t] /\ Follows(t, demo)
          BY <1>4, <1>6, <3>1, <4>2
        <5> QED
          BY <5>1 DEF Follows
      <4> QED
        BY <4>1, <4>2
    <3> QED
      BY <1>4, <2>3, <3>1, <3>4 DEF Settled
  <2> QED
    BY <2>1, <2>2, <2>3 DEF ReferenceInv, OnceInv
<1>10. DOMAIN seed' = Seeds
  BY <1>1, <1>2 DEF StepDone
<1> QED
  BY <1>1, <1>6, <1>7, <1>8, <1>9, <1>10, BesideOthers DEF SeedInv

\* A lookup finds none.
LEMMA NotFoundStep ==
  ASSUME ReferenceInv, NEW s \in Seeds, NotFound(s)
  PROVE  ReferenceInv'
<1>1. /\ UNCHANGED <<tablesVars, assignVars>> /\ At(s, "lookup") /\ Table(s) # "match_scorekeepers"
      /\ Candidates(s) = {} /\ seed' = [seed EXCEPT ![s].stage = "insert"] /\ DOMAIN seed = Seeds
      /\ SeedInv(s) /\ SeedTypes(s) /\ SeedFound(s) /\ SeedRows(s) /\ SeedKeepers(s)
  BY DEF NotFound, ReferenceInv, Domains, SeedInv
<1>2. /\ seed'[s].stage = "insert" /\ seed'[s].found = seed[s].found
      /\ DOMAIN seed'[s] = {"stage", "found"}
      /\ \A t \in Seeds \ {s} : seed'[t] = seed[t]
  BY <1>1 DEF SeedTypes
<1>3. rows' = rows /\ inserted' = inserted /\ change' = change
  BY <1>1 DEF tablesVars, assignVars
<1>4. Step(s) \in 1..10 /\ Step(s) = Len(seed[s].found) + 1 /\ Len(seed[s].found) \in Nat
  BY <1>1, StepTable, StepOf DEF At, SeedTypes
<1>5. SeedTypes(s)'
  BY <1>1, <1>2, <1>3 DEF SeedTypes, Active, At
<1>6. SeedFound(s)'
  <2>1. Step(s)' = Step(s) /\ Table(s)' = Table(s) /\ Key(s)' = Key(s)
    BY <1>2 DEF Step, Table, Key
  <2>2. \A table, key : Find(table, key, rows \cup inserted[s]) = {} => Find(table, key, inserted'[s]) = {}
    BY <1>3 DEF Find, RowsIn
  <2> QED
    <3>1. \A k \in 1..Len(seed'[s].found) : DemoRow(k, seed'[s].found)
      BY <1>1, <1>2 DEF SeedFound
    <3>2. Len(seed'[s].found) < 10
      BY <1>2, <1>4
    <3>3. Find(Table(s), Key(s), inserted'[s]) = {}
      BY <1>1, <2>2 DEF Candidates
    <3> QED
      BY <1>1, <1>3, <2>1, <3>1, <3>2, <3>3 DEF SeedFound, Find, RowsIn
<1>7. SeedRows(s)' /\ SeedKeepers(s)'
  BY <1>1, <1>2, <1>3 DEF SeedRows, SeedKeepers, Assigned, At
<1>8. OnceInv'
  <2>1. \A t \in Seeds : seed'[t].found = seed[t].found
    BY <1>2
  <2>2. DemoRegistered => DemoRegistered'
    BY <1>3 DEF DemoRegistered
  <2>3. Pending => Pending'
    BY <1>3, <2>1 DEF Pending
  <2>4. ~ Settled
    BY <1>1, <1>4, SettledLookup DEF Settled
  <2> QED
    BY <2>2, <2>3, <2>4 DEF ReferenceInv, OnceInv
<1> QED
  BY <1>1, <1>2, <1>5, <1>6, <1>7, <1>8, BesideOthers DEF SeedInv

-----------------------------------------------------------------------------
(* A run of the seed: its inserts.                                         *)

\* What an INSERT of the run writes: the row of its step, and a state for a match.
LEMMA NewRowsAre ==
  ASSUME NEW s \in Seeds, Step(s) \in 1..10, Table(s) # "match_scorekeepers"
  PROVE  LET row == Row(Table(s), Key(s), s)
         IN  /\ row.table = Table(s) /\ row.key = Key(s) /\ row.by = s
             /\ row \in NewRows(s)
             /\ Table(s) # "match_state"
             /\ \A other \in NewRows(s) :
                  \/ other = row
                  \/ other = Row("match_state", <<row>>, s) /\ Table(s) = "matches"
             /\ Table(s) = "matches" => Row("match_state", <<row>>, s) \in NewRows(s)
<1>1. Table(s) # "match_state"
  BY StepOf, StepTable
<1> QED
  BY <1>1 DEF NewRows, Row

\* What the run holds after an INSERT.
LEMMA InsertedRows ==
  ASSUME NEW s \in Seeds, SeedInv(s), Step(s) \in 1..10, seed[s].stage = "insert",
         rows' = rows, inserted'[s] = inserted[s] \cup NewRows(s), seed'[s].stage = "lookup"
  PROVE  /\ SeedRows(s)'
         /\ \A m \in RowsIn("matches", inserted'[s]) :
              \/ m \in RowsIn("matches", inserted[s])
              \/ m = Row(Table(s), Key(s), s) /\ Table(s) = "matches"
         /\ Unique(inserted[s]) => Unique(inserted'[s])
<1> DEFINE row == Row(Table(s), Key(s), s)
           state == Row("match_state", <<row>>, s)
           old == inserted[s]
<1>1. /\ SeedTypes(s) /\ SeedFound(s) /\ SeedRows(s)
      /\ Table(s) # "match_scorekeepers" /\ Find(Table(s), Key(s), inserted[s]) = {}
  BY DEF SeedInv, SeedFound
<1>2. /\ row.table = Table(s) /\ row.key = Key(s) /\ row.by = s /\ row \in inserted'[s]
      /\ Table(s) # "match_state"
      /\ \A other \in inserted'[s] : \/ other \in old
                                     \/ other = row
                                     \/ other = state /\ Table(s) = "matches"
      /\ Table(s) = "matches" => state \in inserted'[s]
      /\ old \subseteq inserted'[s]
  BY <1>1, NewRowsAre
<1>3. state.table = "match_state" /\ state.key = <<row>> /\ state.by = s
  BY DEF Row
<1>4. Table(s) = "matches" => \A i \in 1..3 : row.key[i] \in rows \cup inserted[s]
  <2> SUFFICES ASSUME Table(s) = "matches", NEW i \in 1..3 PROVE row.key[i] \in rows \cup inserted[s]
    OBVIOUS
  <2>1. /\ Key(s) = [j \in 1..3 |-> seed[s].found[Steps[Step(s)][2][j]]]
        /\ Step(s) \in {5, 9} /\ Step(s) = Len(seed[s].found) + 1
    BY StepOf, StepTable DEF KeyAt
  <2>2. Steps[Step(s)][2][i] \in 1..(Step(s) - 1)
    BY <2>1, StepTable
  <2>3. Steps[Step(s)][2][i] \in 1..Len(seed[s].found) /\ seed[s].found \in Seq(rows \cup inserted[s])
    BY <1>1, <2>1, <2>2 DEF SeedTypes
  <2>4. seed[s].found[Steps[Step(s)][2][i]] \in rows \cup inserted[s]
    BY <2>3
  <2> QED
    BY <1>2, <2>1, <2>4
<1>5. row \notin old /\ \A other \in old : other.table = row.table => other.key # row.key
  BY <1>1, <1>2 DEF Find, RowsIn
<1> HIDE DEF row, state
<1>6. \A m \in RowsIn("matches", inserted'[s]) :
        m \in RowsIn("matches", old) \/ (m = row /\ Table(s) = "matches")
  BY <1>2, <1>3 DEF RowsIn
<1>7. \A st \in RowsIn("match_state", inserted'[s]) :
        st \in RowsIn("match_state", old) \/ (st = state /\ Table(s) = "matches")
  BY <1>2, <1>3 DEF RowsIn
<1>8. RowsIn("matches", old) \subseteq RowsIn("matches", inserted'[s])
  BY <1>2 DEF RowsIn
<1>9. SeedRows(s)'
  <2>1. \A other \in inserted'[s] : other.by = s
    BY <1>1, <1>2, <1>3 DEF SeedRows
  <2>2. \A other \in rows' : other.by = s => seed'[s].stage = "done"
    BY <1>1 DEF SeedRows
  <2>3. ASSUME NEW m \in RowsIn("matches", inserted'[s])
        PROVE  /\ \A i \in 1..3 : m.key[i] \in rows' \cup inserted'[s]
               /\ Row("match_state", <<m>>, s) \in inserted'[s]
    <3>1. CASE m \in RowsIn("matches", old)
      BY <1>1, <1>2, <3>1 DEF SeedRows
    <3>2. CASE m = row /\ Table(s) = "matches"
      BY <1>2, <1>4, <3>2 DEF state
    <3> QED
      BY <1>6, <3>1, <3>2
  <2>4. ASSUME NEW st \in RowsIn("match_state", inserted'[s])
        PROVE  \E m \in RowsIn("matches", inserted'[s]) : st = Row("match_state", <<m>>, s)
    <3>1. CASE st \in RowsIn("match_state", old)
      BY <1>1, <1>8, <3>1 DEF SeedRows
    <3>2. CASE st = state /\ Table(s) = "matches"
      <4>1. row \in RowsIn("matches", inserted'[s])
        BY <1>2, <3>2 DEF RowsIn
      <4> QED
        BY <3>2, <4>1 DEF state
    <3> QED
      BY <1>7, <3>1, <3>2
  <2> QED
    BY <2>1, <2>2, <2>3, <2>4 DEF SeedRows
<1>10. ASSUME Unique(old) PROVE Unique(inserted'[s])
  <2>1. \A st \in old : st.table = "match_state" => st.key # state.key
    <3> SUFFICES ASSUME NEW st \in old, st.table = "match_state", st.key = state.key PROVE FALSE
      OBVIOUS
    <3>1. PICK m \in RowsIn("matches", old) : st = Row("match_state", <<m>>, s)
      BY <1>1 DEF SeedRows, RowsIn
    <3>2. <<m>> = <<row>>
      BY <1>3, <3>1 DEF Row
    <3>3. m = row
      BY <3>2, OneTuple
    <3> QED
      BY <1>5, <3>1, <3>3 DEF RowsIn
  <2>2. \A other \in inserted'[s] : other.table = row.table /\ other.key = row.key => other = row
    BY <1>2, <1>3, <1>5
  <2>3. \A other \in inserted'[s] : other.table = state.table /\ other.key = state.key => other = state
    BY <1>2, <1>3, <2>1
  <2>4. \A row1, row2 \in inserted'[s] :
          row1.table = row2.table /\ row1.key = row2.key => row1 = row2
    <3> SUFFICES ASSUME NEW row1 \in inserted'[s], NEW row2 \in inserted'[s],
                        row1.table = row2.table, row1.key = row2.key
                 PROVE  row1 = row2
      OBVIOUS
    <3>1. CASE row1 \in old /\ row2 \in old
      BY <1>10, <3>1 DEF Unique
    <3>2. CASE row1 = row \/ row2 = row
      BY <2>2, <3>2
    <3>3. CASE row1 = state \/ row2 = state
      BY <2>3, <3>3
    <3> QED
      BY <1>2, <3>1, <3>2, <3>3
  <2> QED
    BY <2>4 DEF Unique
<1> QED
  BY <1>6, <1>9, <1>10 DEF row

\* An INSERT of the run.
LEMMA InsertEntityStep ==
  ASSUME ReferenceInv, NEW s \in Seeds, InsertEntity(s)
  PROVE  ReferenceInv'
<1> DEFINE row == Row(Table(s), Key(s), s)
<1>1. /\ At(s, "insert") /\ rows' = rows /\ call' = call /\ StepDone(s, row)
      /\ inserted' = [inserted EXCEPT ![s] = @ \cup NewRows(s)]
      /\ UNCHANGED <<assignments, change, write>>
      /\ Table(s) = "users" => EmailHolders(s, DemoEmail) = {} /\ ~ EmailTaken(DemoEmail)
      /\ DOMAIN seed = Seeds /\ DOMAIN inserted = Registrations \cup Seeds
      /\ SeedInv(s) /\ SeedTypes(s) /\ SeedFound(s) /\ SeedKeepers(s)
  BY DEF InsertEntity, Keep, assignVars, ReferenceInv, Domains, SeedInv
<1>2. /\ inserted'[s] = inserted[s] \cup NewRows(s) /\ s \notin Registrations
      /\ \A t \in (Registrations \cup Seeds) \ {s} : inserted'[t] = inserted[t]
  BY <1>1, TablesAssumption
<1>3. /\ Step(s) \in 1..10 /\ Step(s) = Len(seed[s].found) + 1 /\ Len(seed[s].found) \in Nat
      /\ Table(s) # "match_scorekeepers" /\ Find(Table(s), Key(s), inserted[s]) = {}
  BY <1>1, StepTable, StepOf DEF At, SeedTypes, SeedFound
<1>4. /\ row.table = Table(s) /\ row.key = Key(s) /\ row.by = s /\ row \in inserted'[s]
      /\ \A other \in inserted'[s] : \/ other \in inserted[s]
                                     \/ other = row
                                     \/ other.table = "match_state"
  <2>1. \A key : Row("match_state", key, s).table = "match_state"
    BY DEF Row
  <2>2. /\ row.table = Table(s) /\ row.key = Key(s) /\ row.by = s /\ row \in NewRows(s)
        /\ \A other \in NewRows(s) : other = row \/ other = Row("match_state", <<row>>, s)
    BY <1>3, NewRowsAre
  <2> HIDE DEF row
  <2> QED
    BY <1>2, <2>1, <2>2
<1> HIDE DEF row
<1>5. /\ seed'[s].found # <<>> /\ Len(seed'[s].found) = Step(s) /\ seed'[s].stage = "lookup"
      /\ seed'[s].found[Step(s)] = row
      /\ \A t \in Seeds \ {s} : seed'[t] = seed[t]
      /\ SeedTypes(s)' /\ SeedFound(s)'
  BY <1>1, <1>2, <1>3, <1>4, Advance
<1>6. /\ SeedRows(s)'
      /\ \A m \in RowsIn("matches", inserted'[s]) :
           m \in RowsIn("matches", inserted[s]) \/ (m = row /\ Table(s) = "matches")
      /\ Unique(inserted[s]) => Unique(inserted'[s])
  BY <1>1, <1>2, <1>3, <1>5, InsertedRows DEF At, row
<1>7. SeedKeepers(s)'
  <2>1. Step(s) \notin {6, 10} /\ (Table(s) = "matches" => Step(s) \in {5, 9})
    BY <1>3, StepOf, StepTable
  <2>2. Len(seed[s].found) \notin {5, 9}
    <3>1. \A n \in Nat : n + 1 \notin {6, 10} => n \notin {5, 9}
      OBVIOUS
    <3> QED
      BY <1>3, <2>1, <3>1
  <2>3. \A m : Assigned(s, m) => Assigned(s, m)'
    BY <1>1, <1>3, <1>5 DEF Assigned
  <2>4. \A m \in RowsIn("matches", inserted'[s]) :
          \/ Len(seed'[s].found) \in {5, 9} /\ m = seed'[s].found[Len(seed'[s].found)]
          \/ Assigned(s, m)'
    BY <1>1, <1>5, <1>6, <2>1, <2>2, <2>3 DEF SeedKeepers
  <2>5. RowsIn("matches", rows \cup inserted[s]) \subseteq RowsIn("matches", rows \cup inserted'[s])
    BY <1>2 DEF RowsIn
  <2> QED
    BY <1>1, <2>4, <2>5 DEF SeedKeepers
<1>8. \A t \in Seeds : SeedInv(t)'
  BY <1>1, <1>2, <1>5, <1>6, <1>7, SeedKept DEF ReferenceInv, GrowsBeside, SeedInv
<1>9. \A u \in Held' : u.table = "users" => u \in Held \/ u = row
  <2> SUFFICES ASSUME NEW u \in Held', u.table = "users" PROVE u \in Held \/ u = row
    OBVIOUS
  <2>1. u \in rows \/ \E t \in Registrations \cup Seeds : u \in inserted'[t]
    BY <1>1 DEF Held
  <2> QED
    BY <1>2, <1>4, <2>1, HeldRows
<1>10. UserInv'
  <2>1. CASE Table(s) # "users"
    BY <1>4, <1>9, <2>1, UserKept DEF ReferenceInv
  <2>2. CASE Table(s) = "users"
    <3>1. Key(s) = DemoEmail
      BY <1>3, <2>2, StepOf, StepTable DEF KeyAt
    <3>2. ASSUME NEW v \in Held, v.table = "users", v.key = DemoEmail PROVE FALSE
      <4>1. v \notin rows
        BY <1>1, <2>2, <3>2 DEF EmailTaken, Find, RowsIn
      <4>2. PICK t \in Registrations \cup Seeds : v \in inserted[t]
        BY <4>1, HeldRows
      <4>3. v \in Find("users", DemoEmail, inserted[t])
        BY <3>2, <4>2 DEF Find, RowsIn
      <4>4. t # s
        BY <1>3, <2>2, <3>1, <4>3
      <4> QED
        BY <1>1, <2>2, <4>3, <4>4 DEF EmailHolders
    <3> QED
      BY <1>4, <1>9, <3>1, <3>2, UserAdded DEF ReferenceInv
  <2> QED
    BY <2>1, <2>2
<1>11. Domains'
  BY <1>1 DEF ReferenceInv, Domains, StepDone
<1>12. RefInv'
  BY <1>1 DEF ReferenceInv, RefInv, Matches
<1>13. \A g \in Registrations : RegInv(g)'
  BY <1>1, <1>2, RegKept DEF ReferenceInv
<1>14. KeeperInv' /\ OneScorekeeper'
  BY <1>1, KeeperKept DEF ReferenceInv
<1>15. \A w \in Writes : WriteInv(w)'
  BY <1>1, WriteKept DEF ReferenceInv
<1>16. OnceInv'
  <2>1. DemoRegistered => DemoRegistered'
    BY <1>1 DEF DemoRegistered
  <2>2. ASSUME Pending PROVE Pending'
    <3>1. Find("users", DemoEmail, inserted'[s]) # {}
      <4>1. CASE seed[s].found # <<>>
        <5>1. Find("users", DemoEmail, inserted[s]) \subseteq Find("users", DemoEmail, inserted'[s])
          BY <1>2 DEF Find, RowsIn
        <5> QED
          BY <2>2, <4>1, <5>1 DEF Pending
      <4>2. CASE seed[s].found = <<>>
        <5>1. Step(s) = 1
          BY <1>3, <4>2
        <5>2. Table(s) = "users" /\ Key(s) = DemoEmail
          BY <5>1, StepOf, StepTable DEF KeyAt
        <5>3. row \in Find("users", DemoEmail, inserted'[s])
          BY <1>4, <5>2 DEF Find, RowsIn
        <5> QED
          BY <5>3
      <4> QED
        BY <4>1, <4>2
    <3>2. \A t \in Seeds : Unique(inserted'[t])
      BY <1>2, <1>6, <2>2 DEF Pending
    <3>3. \A t \in Seeds : seed'[t].found # <<>> => Find("users", DemoEmail, inserted'[t]) # {}
      BY <1>2, <1>5, <2>2, <3>1 DEF Pending
    <3> QED
      BY <1>1, <2>2, <3>2, <3>3 DEF Pending
  <2>3. ~ Settled
    <3> SUFFICES ASSUME Settled PROVE FALSE
      OBVIOUS
    <3>1. PICK demo \in [1..10 -> rows] :
            /\ \A k \in 1..10 : DemoRow(k, demo)
            /\ \A t \in Seeds : Follows(t, demo)
      BY DEF Settled
    <3>2. Step(s) = 1
      BY <1>1, <1>3, <3>1 DEF Follows, At
    <3>3. demo[1].table = "users" /\ demo[1].key = DemoEmail /\ Table(s) = "users"
      BY <3>1, <3>2, StepOf, StepTable DEF DemoRow, KeyAt
    <3> QED
      BY <1>1, <3>1, <3>3 DEF EmailTaken, Find, RowsIn
  <2> QED
    BY <2>1, <2>2, <2>3 DEF ReferenceInv, OnceInv
<1>17. DemoMatchReady'
  <2>1. \A m : RowsOf(m)' = RowsOf(m)
    BY <1>1 DEF RowsOf
  <2> QED
    BY <1>1, <1>12, <2>1, ReadyKept DEF ReferenceInv
<1> QED
  BY <1>8, <1>10, <1>11, <1>12, <1>13, <1>14, <1>15, <1>16, <1>17 DEF ReferenceInv

\* The run makes the demo user the scorekeeper of the match that it made or found before.
LEMMA AssignDemoUserStep ==
  ASSUME ReferenceInv, NEW s \in Seeds, AssignDemoUser(s)
  PROVE  ReferenceInv'
<1> DEFINE match == seed[s].found[Len(seed[s].found)]
           c == <<s, Key(s)>>
           free == MatchFree(match, {})
           r == [stage |-> IF free THEN "inserted" ELSE "kept",
                 op |-> "seed", match |-> match, user |-> seed[s].found[1], doomed |-> {}]
<1>1. /\ At(s, "lookup") /\ Table(s) = "match_scorekeepers" /\ StepDone(s, match)
      /\ InsertWaitsFor(match, {}) = {} /\ change' = [change EXCEPT ![c] = r]
      /\ UNCHANGED <<assignments, write>>
      /\ rows' = rows /\ inserted' = inserted /\ call' = call
  BY DEF AssignDemoUser, InsertKeeper, tablesVars
<1>2. /\ SeedInv(s) /\ SeedTypes(s) /\ SeedFound(s) /\ SeedRows(s) /\ SeedKeepers(s)
      /\ DOMAIN seed = Seeds /\ DOMAIN change = Changes \cup SeedChanges
  BY DEF ReferenceInv, Domains, SeedInv
<1>3. /\ Step(s) \in 1..10 /\ Step(s) = Len(seed[s].found) + 1 /\ Len(seed[s].found) \in Nat
      /\ Table(s) = Steps[Step(s)][1] /\ Key(s) = KeyAt(Step(s), seed[s].found)
  BY <1>1, <1>2, StepTable, StepOf DEF At, SeedTypes
<1>4. /\ Step(s) \in {6, 10} /\ Len(seed[s].found) \in {5, 9}
      /\ Key(s) = IF Step(s) = 6 THEN 1 ELSE 2
  <2>1. Step(s) \in {6, 10}
    BY <1>1, <1>3, StepTable
  <2>2. Steps[Step(s)][1] # "matches"
    BY <1>1, <1>3
  <2>3. Key(s) = Steps[Step(s)][2]
    BY <1>3, <2>2 DEF KeyAt
  <2>4. \A n \in Nat : n + 1 \in {6, 10} => n \in {5, 9}
    OBVIOUS
  <2>5. Len(seed[s].found) \in {5, 9}
    BY <1>3, <2>1, <2>4
  <2> QED
    BY <2>1, <2>3, <2>5, StepTable
<1>5. c \in SeedChanges /\ c \in DOMAIN change
  BY <1>2, <1>4 DEF SeedChanges
<1>6. match \in rows \cup inserted[s] /\ match.table = "matches"
  <2> DEFINE n == Len(seed[s].found)
  <2>0. n \in 1..n /\ n \in {5, 9} /\ n \in 1..10
    BY <1>3, <1>4
  <2>1. match \in rows \cup inserted[s]
    BY <1>2, <2>0 DEF SeedTypes
  <2>2. DemoRow(n, seed[s].found)
    BY <1>2, <2>0 DEF SeedFound
  <2>3. Steps[n][1] = "matches" /\ Steps[n][1] # "match_scorekeepers"
    BY <2>0, StepTable
  <2> QED
    BY <2>1, <2>2, <2>3 DEF DemoRow
<1>7. /\ DOMAIN r = ChangeFields /\ r.match = match /\ r.doomed = {}
      /\ r.stage = IF free THEN "inserted" ELSE "kept"
  BY DEF ChangeFields
<1>8. free => RowsOf(match) = {}
  BY DEF MatchFree, Others
<1>9. match \in inserted[s] => free
  <2> SUFFICES ASSUME match \in inserted[s] PROVE RowsOf(match) = {}
    BY <1>1 DEF MatchFree, Others
  <2>1. match \notin rows
    BY <1>1, <1>2 DEF SeedRows, At
  <2> QED
    BY <2>1 DEF ReferenceInv, KeeperInv, RowsOf, Matches, RowsIn
<1>10. InsertedFor(match) = {}
  BY <1>1 DEF InsertWaitsFor
<1>11. /\ seed'[s].found = Append(seed[s].found, match) /\ seed'[s].stage = "lookup"
       /\ seed'[s].found # <<>> /\ Len(seed'[s].found) = Step(s)
       /\ seed'[s].found[Step(s)] = match
       /\ \A k \in 1..Len(seed[s].found) : seed'[s].found[k] = seed[s].found[k]
       /\ \A t \in Seeds \ {s} : seed'[t] = seed[t]
       /\ SeedTypes(s)' /\ SeedFound(s)'
  BY <1>1, <1>2, <1>3, <1>6, Advance
<1> HIDE DEF match, free, r, c
<1>12. /\ change'[c] = r /\ DOMAIN change' = DOMAIN change
       /\ \A d \in DOMAIN change \ {c} : change'[d] = change[d]
  BY <1>1, <1>5
<1>13. \A i \in {1, 2} : <<s, i>> \in DOMAIN change /\ (<<s, i>> = c <=> i = Key(s))
  BY <1>2 DEF c, SeedChanges
<1>14. SeedRows(s)'
  BY <1>1, <1>2, <1>11 DEF SeedRows, At
<1>15. SeedKeepers(s)'
  <2>1. ASSUME NEW m \in RowsIn("matches", inserted[s]), m = match PROVE Assigned(s, m)'
    <3>1. m \in inserted[s]
      BY DEF RowsIn
    <3>2. change'[c].stage = "inserted" /\ change'[c].match = m
      BY <1>7, <1>9, <1>12, <2>1, <3>1
    <3>3. Key(s) \in {1, 2} /\ Step(s) >= IF Key(s) = 1 THEN 6 ELSE 10
      BY <1>4
    <3> QED
      BY <1>11, <3>2, <3>3 DEF Assigned, c
  <2>2. ASSUME NEW m, Assigned(s, m) PROVE Assigned(s, m)'
    <3>1. PICK i \in {1, 2} : /\ Len(seed[s].found) >= IF i = 1 THEN 6 ELSE 10
                              /\ change[<<s, i>>].stage = "inserted"
                              /\ change[<<s, i>>].match = m
      BY <2>2 DEF Assigned
    <3>2. i = 1 /\ Step(s) = 10 /\ Key(s) = 2
      BY <1>3, <1>4, <3>1
    <3>3. change'[<<s, i>>] = change[<<s, i>>]
      BY <1>12, <1>13, <3>2
    <3> QED
      BY <1>11, <3>1, <3>2, <3>3 DEF Assigned
  <2>3. \A m \in RowsIn("matches", inserted'[s]) : Assigned(s, m)'
    BY <1>1, <1>2, <2>1, <2>2 DEF SeedKeepers, match
  <2>4. match \in RowsIn("matches", rows' \cup inserted'[s])
    BY <1>1, <1>6 DEF RowsIn
  <2>5. \A i \in {1, 2} : change'[<<s, i>>].stage # "idle" =>
          /\ change'[<<s, i>>].stage \in {"inserted", "kept"}
          /\ change'[<<s, i>>].doomed = {}
          /\ change'[<<s, i>>].match \in RowsIn("matches", rows' \cup inserted'[s])
    <3> SUFFICES ASSUME NEW i \in {1, 2}, change'[<<s, i>>].stage # "idle"
                 PROVE  /\ change'[<<s, i>>].stage \in {"inserted", "kept"}
                        /\ change'[<<s, i>>].doomed = {}
                        /\ change'[<<s, i>>].match \in RowsIn("matches", rows' \cup inserted'[s])
      OBVIOUS
    <3>1. CASE <<s, i>> = c
      BY <1>7, <1>12, <2>4, <3>1
    <3>2. CASE <<s, i>> # c
      <4>1. change'[<<s, i>>] = change[<<s, i>>]
        BY <1>12, <1>13, <3>2
      <4> QED
        BY <1>1, <1>2, <4>1 DEF SeedKeepers
    <3> QED
      BY <3>1, <3>2
  <2> QED
    BY <2>3, <2>5 DEF SeedKeepers
<1>16. \A t \in Seeds : SeedInv(t)'
  <2>1. ASSUME NEW t \in Seeds \ {s} PROVE SeedInv(t)'
    <3>1. \A i \in {1, 2} : <<t, i>> \in DOMAIN change /\ <<t, i>> # c
      BY <1>2 DEF c, SeedChanges
    <3> QED
      BY <1>1, <1>11, <1>12, <3>1, SeedKept DEF ReferenceInv, GrowsBeside
  <2> QED
    BY <1>11, <1>14, <1>15, <2>1 DEF SeedInv
<1>17. Domains'
  BY <1>1, <1>2, <1>12 DEF ReferenceInv, Domains, StepDone
<1>18. RefInv' /\ UserInv'
  BY <1>1 DEF ReferenceInv, RefInv, UserInv, Held, Matches
<1>19. \A g \in Registrations : RegInv(g)'
  BY <1>1, RegKept DEF ReferenceInv
<1>20. KeeperInv'
  <2>1. c \notin Changes
    BY <1>5, AssignmentAssumption
  <2>2. r.stage = "inserted" => RowsOf(r.match) \subseteq r.doomed /\ \A d \in InsertedFor(r.match) : d = c
    BY <1>7, <1>8, <1>10
  <2> QED
    BY <1>1, <1>5, <1>7, <2>1, <2>2, KeeperChanged DEF ReferenceInv
<1>21. OneScorekeeper'
  BY <1>1 DEF ReferenceInv, OneScorekeeper
<1>22. \A w \in Writes : WriteInv(w)'
  BY <1>1, WriteKept DEF ReferenceInv
<1>23. OnceInv'
  <2>1. DemoRegistered => DemoRegistered'
    BY <1>1 DEF DemoRegistered
  <2>2. seed[s].found # <<>>
    <3>1. Len(<<>>) \notin {5, 9}
      OBVIOUS
    <3> QED
      BY <1>4, <3>1
  <2>3. Pending => Pending'
    BY <1>1, <1>11, <2>2 DEF Pending
  <2>4. ASSUME Settled PROVE Settled'
    <3>1. PICK demo \in [1..10 -> rows] :
            /\ \A k \in 1..10 : DemoRow(k, demo)
            /\ \A t \in Seeds : Follows(t, demo)
      BY <2>4 DEF Settled
    <3>2. demo[Step(s)] = match
      <4>1. demo[Step(s)] = demo[Step(s) - 1]
        BY <1>1, <1>3, <3>1 DEF DemoRow
      <4>2. Step(s) - 1 = Len(seed[s].found) /\ Step(s) - 1 \in 1..Len(seed[s].found)
        BY <1>3, <1>4
      <4> QED
        BY <3>1, <4>1, <4>2 DEF Follows, match
    <3>3. \A k \in 1..Step(s) : seed'[s].found[k] = demo[k]
      <4>1. \A k \in 1..Step(s) : k \in 1..Len(seed[s].found) \/ k = Step(s)
        BY <1>3
      <4> QED
        BY <1>11, <3>1, <3>2, <4>1 DEF Follows
    <3>4. ASSUME NEW t \in Seeds PROVE Follows(t, demo)'
      <4>1. CASE t = s
        BY <1>1, <1>11, <3>1, <3>3, <4>1 DEF Follows
      <4>2. CASE t # s
        <5>1. seed'[t] = seed[t] /\ inserted'[t] = inserted[t] /\ Follows(t, demo)
          BY <1>1, <1>11, <3>1, <4>2
        <5> QED
          BY <5>1 DEF Follows
      <4> QED
        BY <4>1, <4>2
    <3> QED
      BY <1>1, <2>4, <3>1, <3>4 DEF Settled
  <2> QED
    BY <2>1, <2>3, <2>4 DEF ReferenceInv, OnceInv
<1>24. DemoMatchReady'
  <2>1. \A m : RowsOf(m)' = RowsOf(m)
    BY <1>1 DEF RowsOf
  <2>2. \A d \in Changes : change'[d] = change[d]
    BY <1>2, <1>5, <1>12, AssignmentAssumption
  <2> QED
    BY <1>1, <1>18, <2>1, <2>2, ReadyKept DEF ReferenceInv
<1> QED
  BY <1>16, <1>17, <1>18, <1>19, <1>20, <1>21, <1>22, <1>23, <1>24 DEF ReferenceInv

-----------------------------------------------------------------------------
(* A run of the seed: its end.                                             *)

\* What the end of a run does to the run, its locks, and the others.
LEMMA EndOfSeed ==
  ASSUME ReferenceInv, NEW s \in Seeds, NEW stage \in {"done", "failed"}, EndSeed(s, stage)
  PROVE  /\ DOMAIN seed' = Seeds /\ DOMAIN inserted' = Registrations \cup Seeds
         /\ DOMAIN change' = DOMAIN change
         /\ DOMAIN seed'[s] = {"stage", "found"} /\ seed'[s].stage = stage /\ seed'[s].found = <<>>
         /\ inserted'[s] = {}
         /\ \A t \in Seeds \ {s} : seed'[t] = seed[t]
         /\ \A t \in (Registrations \cup Seeds) \ {s} : inserted'[t] = inserted[t]
         /\ \A d \in DOMAIN change : change'[d] = IF d \in {s} \X {1, 2} THEN NoChange ELSE change[d]
         /\ \A d \in Changes : change'[d] = change[d]
<1>1. /\ DOMAIN seed = Seeds /\ DOMAIN inserted = Registrations \cup Seeds
      /\ DOMAIN change = Changes \cup SeedChanges
  BY DEF ReferenceInv, Domains
<1>2. seed' = [seed EXCEPT ![s] = [stage |-> stage, found |-> <<>>]]
  BY DEF EndSeed
<1>3. inserted' = [inserted EXCEPT ![s] = {}]
  BY DEF EndSeed
<1>4. change' = [c \in DOMAIN change |-> IF c \in {s} \X {1, 2} THEN NoChange ELSE change[c]]
  BY DEF EndSeed
<1>5. {s} \X {1, 2} \subseteq SeedChanges
  BY DEF SeedChanges
<1> QED
  BY <1>1, <1>2, <1>3, <1>4, <1>5, AssignmentAssumption

\* A run that has ended, and the runs beside it.
LEMMA SeedsAfterEnd ==
  ASSUME ReferenceInv, NEW s \in Seeds, NEW stage \in {"done", "failed"}, EndSeed(s, stage),
         rows \subseteq rows', \A row \in rows' \ rows : row.by = s,
         stage = "done" \/ (rows' = rows /\ seed[s].stage \in Active)
  PROVE  \A t \in Seeds : SeedInv(t)'
<1>1. SeedInv(s) /\ SeedTypes(s) /\ SeedRows(s) /\ DOMAIN change = Changes \cup SeedChanges
  BY DEF ReferenceInv, SeedInv, Domains
<1>2. \A t \in Seeds, i \in {1, 2} : <<t, i>> \in DOMAIN change
  BY <1>1 DEF SeedChanges
<1>3. SeedInv(s)'
  <2>1. /\ DOMAIN seed'[s] = {"stage", "found"} /\ seed'[s].stage = stage /\ seed'[s].found = <<>>
        /\ inserted'[s] = {}
    BY EndOfSeed
  <2>2. \A i \in {1, 2} : change'[<<s, i>>].stage = "idle"
    <3>1. \A i \in {1, 2} : <<s, i>> \in {s} \X {1, 2}
      OBVIOUS
    <3>2. NoChange.stage = "idle"
      BY DEF NoChange
    <3> QED
      BY <1>2, <3>1, <3>2, EndOfSeed
  <2>3. SeedTypes(s)'
    BY <2>1 DEF SeedTypes, Active
  <2>4. SeedFound(s)'
    BY <2>1 DEF SeedFound
  <2>5. \A row \in rows' : row.by = s => stage = "done"
    BY <1>1 DEF SeedRows, Active
  <2>6. SeedRows(s)'
    BY <2>1, <2>5 DEF SeedRows, RowsIn
  <2>7. SeedKeepers(s)'
    BY <2>1, <2>2 DEF SeedKeepers, RowsIn
  <2> QED
    BY <2>3, <2>4, <2>6, <2>7 DEF SeedInv
<1>4. ASSUME NEW t \in Seeds \ {s} PROVE SeedInv(t)'
  <2>1. seed'[t] = seed[t] /\ inserted'[t] = inserted[t]
    BY EndOfSeed
  <2>2. \A i \in {1, 2} : <<t, i>> \notin {s} \X {1, 2}
    OBVIOUS
  <2>3. \A i \in {1, 2} : change'[<<t, i>>] = change[<<t, i>>]
    BY <1>2, <2>2, EndOfSeed
  <2>4. GrowsBeside(t)
    BY DEF GrowsBeside
  <2> QED
    BY <2>1, <2>3, <2>4, SeedKept DEF ReferenceInv
<1> QED
  BY <1>3, <1>4

\* A run fails, crashes, or is turned down.
LEMMA FailStep ==
  ASSUME ReferenceInv, NEW s \in Seeds, seed[s].stage \in Active, Fail(s)
  PROVE  ReferenceInv'
<1>1. /\ EndSeed(s, "failed") /\ rows' = rows /\ call' = call /\ assignments' = assignments
      /\ write' = write
  BY DEF Fail
<1>2. \A t \in Seeds : SeedInv(t)'
  BY <1>1, SeedsAfterEnd
<1>3. /\ DOMAIN seed' = Seeds /\ DOMAIN inserted' = Registrations \cup Seeds
      /\ DOMAIN change' = DOMAIN change
      /\ seed'[s].found = <<>> /\ seed'[s].stage = "failed" /\ inserted'[s] = {}
      /\ \A t \in Seeds \ {s} : seed'[t] = seed[t]
      /\ \A t \in (Registrations \cup Seeds) \ {s} : inserted'[t] = inserted[t]
      /\ \A d \in DOMAIN change : change'[d] = NoChange \/ change'[d] = change[d]
      /\ \A d \in Changes : change'[d] = change[d]
  <2>1. \A d \in DOMAIN change : change'[d] = IF d \in {s} \X {1, 2} THEN NoChange ELSE change[d]
    BY <1>1, EndOfSeed
  <2> QED
    BY <1>1, <2>1, EndOfSeed
<1>4. Domains'
  BY <1>1, <1>3 DEF ReferenceInv, Domains
<1>5. RefInv'
  BY <1>1 DEF ReferenceInv, RefInv, Matches
<1>6. UserInv'
  <2>1. \A t \in Registrations \cup Seeds : inserted'[t] \subseteq inserted[t]
    BY <1>3
  <2>2. \A u \in Held' : u \in Held
    BY <1>1, <2>1 DEF Held
  <2> QED
    BY <2>2, UserKept DEF ReferenceInv
<1>7. \A g \in Registrations : RegInv(g)'
  <2>1. \A g \in Registrations : g # s
    BY TablesAssumption
  <2> QED
    BY <1>1, <1>3, <2>1, RegKept DEF ReferenceInv
<1>8. KeeperInv'
  <2>1. \A m : RowsOf(m)' = RowsOf(m) /\ InsertedFor(m)' \subseteq InsertedFor(m)
    BY <1>1, <1>3 DEF RowsOf, InsertedFor, NoChange
  <2>2. Matches' = Matches /\ NoChange.stage = "idle" /\ Changes \subseteq DOMAIN change
    BY <1>1 DEF Matches, NoChange, ReferenceInv, Domains
  <2>3. ASSUME NEW d \in DOMAIN change', change'[d].stage = "inserted"
        PROVE  \A k : k = change'[d].match => /\ RowsOf(k)' \subseteq change'[d].doomed
                                             /\ \A e \in InsertedFor(k)' : e = d
    <3>1. change'[d] = change[d] /\ d \in DOMAIN change
      BY <1>3, <2>2, <2>3
    <3>2. /\ RowsOf(change[d].match) \subseteq change[d].doomed
          /\ \A e \in InsertedFor(change[d].match) : e = d
      BY <2>3, <3>1 DEF ReferenceInv, KeeperInv
    <3> QED
      BY <2>1, <3>1, <3>2
  <2>4. \A row \in assignments' : row.match \in Matches'
    BY <1>1, <2>2 DEF ReferenceInv, KeeperInv
  <2>5. \A d \in DOMAIN change' : change'[d].stage # "idle" => DOMAIN change'[d] = ChangeFields
    BY <1>3, <2>2 DEF ReferenceInv, KeeperInv, ChangeFields
  <2>6. \A d \in Changes : change'[d].stage # "idle" =>
          /\ change'[d].match \in Matches'
          /\ \A row \in change'[d].doomed : row.match = change'[d].match
    BY <1>3, <2>2 DEF ReferenceInv, KeeperInv
  <2> QED
    BY <2>3, <2>4, <2>5, <2>6 DEF KeeperInv, ChangeFields, RowsOf, InsertedFor
<1>9. OneScorekeeper'
  BY <1>1 DEF ReferenceInv, OneScorekeeper
<1>10. \A w \in Writes : WriteInv(w)'
  BY <1>1, WriteKept DEF ReferenceInv
<1>11. OnceInv'
  <2>1. DemoRegistered => DemoRegistered'
    BY <1>1 DEF DemoRegistered
  <2>2. Pending => Pending'
    <3>1. Unique({})
      BY DEF Unique
    <3> QED
      BY <1>1, <1>3, <3>1 DEF Pending
  <2>3. ASSUME Settled PROVE Settled'
    <3>1. PICK demo \in [1..10 -> rows] :
            /\ \A k \in 1..10 : DemoRow(k, demo)
            /\ \A t \in Seeds : Follows(t, demo)
      BY <2>3 DEF Settled
    <3>2. ASSUME NEW t \in Seeds PROVE Follows(t, demo)'
      <4>1. CASE t = s
        BY <1>3, <4>1 DEF Follows
      <4>2. CASE t # s
        <5>1. seed'[t] = seed[t] /\ inserted'[t] = inserted[t] /\ Follows(t, demo)
          BY <1>3, <3>1, <4>2
        <5> QED
          BY <5>1 DEF Follows
      <4> QED
        BY <4>1, <4>2
    <3> QED
      BY <1>1, <2>3, <3>1, <3>2 DEF Settled
  <2> QED
    BY <2>1, <2>2, <2>3 DEF ReferenceInv, OnceInv
<1>12. DemoMatchReady'
  <2>1. \A m : RowsOf(m)' = RowsOf(m)
    BY <1>1 DEF RowsOf
  <2> QED
    BY <1>1, <1>3, <1>5, <2>1, ReadyKept DEF ReferenceInv
<1> QED
  BY <1>2, <1>4, <1>5, <1>6, <1>7, <1>8, <1>9, <1>10, <1>11, <1>12 DEF ReferenceInv

\* The scorekeepers that the commit of a run adds are those of its own inserts.
LEMMA CommitKeepers ==
  ASSUME ReferenceInv, NEW s \in Seeds, CommitSeed(s),
         RowsIn("matches", rows \cup inserted[s]) \subseteq Matches'
  PROVE  KeeperInv' /\ OneScorekeeper'
<1> DEFINE own == {d \in {s} \X {1, 2} : change[d].stage = "inserted"}
<1>1. /\ EndSeed(s, "done") /\ assignments' = assignments \cup {KeeperRow(c) : c \in own}
      /\ SeedKeepers(s) /\ DOMAIN change = Changes \cup SeedChanges
      /\ rows \subseteq rows'
  BY DEF CommitSeed, ReferenceInv, SeedInv, Domains
<1>2. /\ DOMAIN change' = DOMAIN change
      /\ \A d \in DOMAIN change : change'[d] = IF d \in {s} \X {1, 2} THEN NoChange ELSE change[d]
      /\ \A d \in Changes : change'[d] = change[d]
  BY <1>1, EndOfSeed
<1>3. \A c \in own : /\ change[c].doomed = {} /\ c \in DOMAIN change /\ change[c].stage = "inserted"
                     /\ change[c].match \in RowsIn("matches", rows \cup inserted[s])
                     /\ KeeperRow(c).match = change[c].match
  <2> SUFFICES ASSUME NEW c \in own
               PROVE  /\ change[c].doomed = {} /\ c \in DOMAIN change /\ change[c].stage = "inserted"
                      /\ change[c].match \in RowsIn("matches", rows \cup inserted[s])
                      /\ KeeperRow(c).match = change[c].match
    OBVIOUS
  <2>1. PICK i \in {1, 2} : c = <<s, i>>
    OBVIOUS
  <2> QED
    BY <1>1, <2>1 DEF SeedKeepers, KeeperRow, SeedChanges
<1>4. \A row \in assignments' : row \in assignments \/ \E c \in own : row = KeeperRow(c)
  BY <1>1
<1>5. ASSUME NEW c \in own, NEW d \in DOMAIN change, change[d].stage = "inserted",
             change[d].match = change[c].match
      PROVE  d = c
  <2>1. d \in InsertedFor(change[c].match)
    BY <1>5 DEF InsertedFor
  <2> QED
    BY <1>3, <2>1 DEF ReferenceInv, KeeperInv
<1>6. ASSUME NEW c \in own, NEW row \in assignments PROVE row.match # change[c].match
  <2>1. RowsOf(change[c].match) \subseteq {}
    BY <1>3 DEF ReferenceInv, KeeperInv
  <2> QED
    BY <2>1 DEF RowsOf
<1>7. \A c \in own : c \in {s} \X {1, 2}
  OBVIOUS
<1> HIDE DEF own
<1>8. Matches \subseteq Matches' /\ NoChange.stage = "idle"
  BY <1>1 DEF Matches, RowsIn, NoChange
<1>9. \A m : InsertedFor(m)' \subseteq InsertedFor(m)
  BY <1>2, <1>8 DEF InsertedFor
<1>10. ASSUME NEW d \in DOMAIN change', change'[d].stage = "inserted"
       PROVE  \A k : k = change'[d].match => /\ RowsOf(k)' \subseteq change'[d].doomed
                                             /\ \A e \in InsertedFor(k)' : e = d
  <2>1. change'[d] = change[d] /\ d \in DOMAIN change /\ d \notin own
    BY <1>2, <1>7, <1>8, <1>10
  <2>2. /\ RowsOf(change[d].match) \subseteq change[d].doomed
        /\ \A e \in InsertedFor(change[d].match) : e = d
    BY <1>10, <2>1 DEF ReferenceInv, KeeperInv
  <2>3. \A c \in own : KeeperRow(c).match # change[d].match
    BY <1>3, <1>5, <1>10, <2>1
  <2>4. \A k : k = change[d].match => RowsOf(k)' \subseteq RowsOf(k)
    BY <1>4, <2>3 DEF RowsOf
  <2> QED
    BY <1>9, <2>1, <2>2, <2>4
<1>11. \A row \in assignments' : row.match \in Matches'
  <2>1. \A row \in assignments : row.match \in Matches'
    BY <1>8 DEF ReferenceInv, KeeperInv
  <2>2. \A c \in own : KeeperRow(c).match \in Matches'
    BY <1>3
  <2> QED
    BY <1>4, <2>1, <2>2
<1>12. \A d \in DOMAIN change' : change'[d].stage # "idle" => DOMAIN change'[d] = ChangeFields
  BY <1>2, <1>8 DEF ReferenceInv, KeeperInv, ChangeFields
<1>13. \A d \in Changes : change'[d].stage # "idle" =>
         /\ change'[d].match \in Matches'
         /\ \A row \in change'[d].doomed : row.match = change'[d].match
  BY <1>1, <1>2, <1>8 DEF ReferenceInv, KeeperInv
<1>14. KeeperInv'
  BY <1>10, <1>11, <1>12, <1>13 DEF KeeperInv, ChangeFields, RowsOf, InsertedFor
<1>15. OneScorekeeper'
  <2> SUFFICES ASSUME NEW row1 \in assignments', NEW row2 \in assignments', row1.match = row2.match
               PROVE  row1 = row2
    BY DEF OneScorekeeper
  <2>1. CASE row1 \in assignments /\ row2 \in assignments
    BY <2>1 DEF ReferenceInv, OneScorekeeper
  <2>2. CASE \E c \in own, d \in own : row1 = KeeperRow(c) /\ row2 = KeeperRow(d)
    BY <1>3, <1>5, <2>2
  <2>3. CASE \E c \in own : \/ row1 = KeeperRow(c) /\ row2 \in assignments
                            \/ row2 = KeeperRow(c) /\ row1 \in assignments
    BY <1>3, <1>6, <2>3
  <2> QED
    BY <1>4, <2>1, <2>2, <2>3
<1> QED
  BY <1>14, <1>15

\* The run that commits is the one that made the demo account, or made nothing.
LEMMA CommitOnce ==
  ASSUME ReferenceInv, NEW s \in Seeds, CommitSeed(s)
  PROVE  OnceInv'
<1>1. /\ EndSeed(s, "done") /\ rows' = rows \cup inserted[s] /\ seed[s].stage = "lookup"
      /\ Len(seed[s].found) = 10 /\ SeedTypes(s) /\ SeedFound(s) /\ SeedRows(s)
  BY StepTable DEF CommitSeed, ReferenceInv, SeedInv
<1>2. /\ seed'[s].found = <<>> /\ seed'[s].stage = "done" /\ inserted'[s] = {}
      /\ \A t \in Seeds \ {s} : seed'[t] = seed[t] /\ inserted'[t] = inserted[t]
  BY <1>1, EndOfSeed
<1>3. CASE DemoRegistered
  <2>1. DemoRegistered'
    BY <1>1, <1>3 DEF DemoRegistered, Find, RowsIn
  <2> QED
    BY <2>1 DEF OnceInv
<1>4. CASE Pending
  <2>0. PICK demo : demo = [k \in 1..10 |-> seed[s].found[k]]
    OBVIOUS
  <2>1. seed[s].found # <<>>
    <3>1. Len(<<>>) # 10
      OBVIOUS
    <3> QED
      BY <1>1, <3>1
  <2>2. ASSUME NEW t \in Seeds \ {s} PROVE seed[t].found = <<>> /\ inserted[t] = {}
    <3>1. seed[t].found = <<>>
      <4> SUFFICES ASSUME seed[t].found # <<>> PROVE FALSE
        OBVIOUS
      <4>1. PICK u \in Find("users", DemoEmail, inserted[s]), v \in Find("users", DemoEmail, inserted[t]) : TRUE
        BY <1>4, <2>1 DEF Pending
      <4>2. u \in RowsIn("users", Held) /\ v \in RowsIn("users", Held) /\ u.key = v.key
        BY <4>1, HeldRows DEF Find, RowsIn
      <4>3. u = v
        BY <4>2 DEF ReferenceInv, UserInv
      <4>4. u.by = s /\ v.by = t
        BY <4>1 DEF ReferenceInv, SeedInv, SeedRows, Find, RowsIn
      <4> QED
        BY <4>3, <4>4
    <3> QED
      BY <3>1 DEF ReferenceInv, SeedInv, SeedTypes
  <2>3. seed[s].found \in Seq(rows') /\ demo \in [1..10 -> rows']
    <3>1. seed[s].found \in Seq(rows')
      BY <1>1 DEF SeedTypes
    <3>2. \A k \in 1..10 : seed[s].found[k] \in rows'
      BY <1>1, <3>1
    <3> QED
      BY <2>0, <3>1, <3>2
  <2>4. \A k \in 1..10 : demo[k] = seed[s].found[k]
    BY <2>0
  <2>5. ASSUME NEW k \in 1..10 PROVE DemoRow(k, demo)
    <3>1. DemoRow(k, seed[s].found)
      BY <1>1 DEF SeedFound
    <3>2. \A j \in 1..k : seed[s].found[j] = demo[j]
      BY <2>4
    <3> QED
      BY <3>1, <3>2, DemoRowOfEarlier
  <2>6. ASSUME NEW t \in Seeds PROVE Follows(t, demo)'
    <3>1. seed'[t].found = <<>> /\ inserted'[t] = {}
      BY <1>2, <2>2
    <3> QED
      BY <3>1 DEF Follows
  <2>7. Unique({row \in rows' : row.by \in Seeds})
    <3>1. \A row \in rows' : row.by \in Seeds => row \in inserted[s]
      BY <1>1, <1>4 DEF Pending
    <3> QED
      BY <1>4, <3>1 DEF Pending, Unique
  <2> QED
    BY <2>3, <2>5, <2>6, <2>7 DEF OnceInv, Settled
<1>5. CASE Settled
  <2>1. PICK demo \in [1..10 -> rows] :
          /\ \A k \in 1..10 : DemoRow(k, demo)
          /\ \A t \in Seeds : Follows(t, demo)
    BY <1>5 DEF Settled
  <2>2. rows' = rows
    BY <1>1, <2>1 DEF Follows
  <2>3. ASSUME NEW t \in Seeds PROVE Follows(t, demo)'
    <3>1. CASE t = s
      BY <1>2, <3>1 DEF Follows
    <3>2. CASE t # s
      <4>1. seed'[t] = seed[t] /\ inserted'[t] = inserted[t] /\ Follows(t, demo)
        BY <1>2, <2>1, <3>2
      <4> QED
        BY <4>1 DEF Follows
    <3> QED
      BY <3>1, <3>2
  <2> QED
    BY <1>5, <2>1, <2>2, <2>3 DEF OnceInv, Settled
<1> QED
  BY <1>3, <1>4, <1>5 DEF ReferenceInv, OnceInv

\* A run commits.
LEMMA CommitSeedStep ==
  ASSUME ReferenceInv, NEW s \in Seeds, CommitSeed(s)
  PROVE  ReferenceInv'
<1> DEFINE own == {d \in {s} \X {1, 2} : change[d].stage = "inserted"}
           keepers == assignments \cup {KeeperRow(c) : c \in own}
<1>1. /\ EndSeed(s, "done") /\ rows' = rows \cup inserted[s] /\ seed[s].stage = "lookup"
      /\ Len(seed[s].found) = 10 /\ assignments' = keepers /\ call' = call /\ write' = write
      /\ SeedInv(s) /\ SeedTypes(s) /\ SeedFound(s) /\ SeedRows(s) /\ SeedKeepers(s)
  BY StepTable DEF CommitSeed, ReferenceInv, SeedInv
<1>2. /\ DOMAIN seed' = Seeds /\ DOMAIN inserted' = Registrations \cup Seeds
      /\ DOMAIN change' = DOMAIN change /\ inserted'[s] = {}
      /\ \A t \in (Registrations \cup Seeds) \ {s} : inserted'[t] = inserted[t]
      /\ \A d \in Changes : change'[d] = change[d]
  BY <1>1, EndOfSeed
<1>3. \A row \in rows' \ rows : row.by = s
  BY <1>1 DEF SeedRows
<1>4. \A t \in Seeds : SeedInv(t)'
  BY <1>1, <1>3, SeedsAfterEnd
<1>5. Domains'
  BY <1>1, <1>2 DEF ReferenceInv, Domains
<1>6. RefInv'
  <2> DEFINE new == inserted[s]
  <2>1. ASSUME NEW m \in RowsIn("matches", new)
        PROVE  /\ \A i \in 1..3 : m.key[i] \in rows'
               /\ m.by \in Seeds => Find("match_state", <<m>>, new) # {}
    <3>1. Row("match_state", <<m>>, s) \in new /\ \A i \in 1..3 : m.key[i] \in rows'
      BY <1>1 DEF SeedRows
    <3>2. Row("match_state", <<m>>, s) \in Find("match_state", <<m>>, new)
      BY <3>1 DEF Find, RowsIn, Row
    <3> QED
      BY <3>1, <3>2
  <2>2. ASSUME NEW st \in RowsIn("match_state", new)
        PROVE  /\ \E m \in RowsIn("matches", rows') : st.key = <<m>>
               /\ \A other \in RowsIn("match_state", rows') : other.key = st.key => other = st
    <3>1. PICK m \in RowsIn("matches", new) : st = Row("match_state", <<m>>, s)
      BY <1>1 DEF SeedRows
    <3>2. m \in RowsIn("matches", rows') /\ st.key = <<m>> /\ m \in new /\ m.by = s
      BY <1>1, <3>1 DEF RowsIn, Row, SeedRows
    <3>3. ASSUME NEW other \in RowsIn("match_state", rows'), other.key = st.key PROVE other = st
      <4>1. CASE other \in new
        <5>1. PICK n \in RowsIn("matches", new) : other = Row("match_state", <<n>>, s)
          BY <1>1, <3>3, <4>1 DEF SeedRows, RowsIn
        <5>2. <<n>> = <<m>>
          BY <3>2, <3>3, <5>1 DEF Row
        <5> QED
          BY <3>1, <5>1, <5>2
      <4>2. CASE other \in rows
        <5>1. PICK n \in Matches : other.key = <<n>>
          BY <3>3, <4>2 DEF ReferenceInv, RefInv, RowsIn
        <5>2. n = m
          BY <3>2, <3>3, <5>1, OneTuple
        <5> QED
          BY <1>1, <3>2, <5>2 DEF SeedRows, Matches, RowsIn
      <4> QED
        BY <1>1, <3>3, <4>1, <4>2 DEF RowsIn
    <3> QED
      BY <3>2, <3>3
  <2> QED
    BY <1>1, <2>1, <2>2, RefGrows DEF ReferenceInv
<1>7. UserInv'
  <2>1. \A u \in Held' : u \in Held
    <3> SUFFICES ASSUME NEW u \in Held' PROVE u \in Held
      OBVIOUS
    <3>1. u \in rows' \/ \E t \in Registrations \cup Seeds : u \in inserted'[t]
      BY DEF Held
    <3>2. \A t \in Registrations \cup Seeds : inserted'[t] \subseteq inserted[t]
      BY <1>2
    <3> QED
      BY <1>1, <3>1, <3>2, HeldRows
  <2> QED
    BY <2>1, UserKept DEF ReferenceInv
<1>8. \A g \in Registrations : RegInv(g)'
  <2>1. \A g \in Registrations : g # s
    BY TablesAssumption
  <2> QED
    BY <1>1, <1>2, <2>1, RegKept DEF ReferenceInv
<1>9. KeeperInv' /\ OneScorekeeper'
  BY <1>1, CommitKeepers DEF Matches
<1>10. \A w \in Writes : WriteInv(w)'
  BY <1>1, WriteKept DEF ReferenceInv
<1>11. OnceInv'
  BY CommitOnce
<1>12. DemoMatchReady'
  <2> SUFFICES ASSUME NEW m \in Matches', m.by \in Seeds
               PROVE  \/ RowsOf(m)' # {}
                      \/ \E c \in Changes : change'[c].stage = "confirmed" /\ change'[c].match = m
    BY <1>6 DEF DemoMatchReady, RefInv
  <2>1. CASE m \in Matches
    <3>1. RowsOf(m) \subseteq RowsOf(m)'
      BY <1>1 DEF RowsOf
    <3> QED
      BY <1>2, <2>1, <3>1 DEF ReferenceInv, DemoMatchReady
  <2>2. CASE m \notin Matches
    <3>1. m \in RowsIn("matches", inserted[s])
      BY <1>1, <2>2 DEF Matches, RowsIn
    <3>2. Len(seed[s].found) \notin {5, 9}
      BY <1>1
    <3>3. PICK i \in {1, 2} : change[<<s, i>>].stage = "inserted" /\ change[<<s, i>>].match = m
      BY <1>1, <3>1, <3>2 DEF SeedKeepers, Assigned
    <3>4. <<s, i>> \in own
      BY <3>3
    <3>5. KeeperRow(<<s, i>>) \in assignments' /\ KeeperRow(<<s, i>>).match = m
      BY <1>1, <3>3, <3>4 DEF KeeperRow
    <3> QED
      BY <3>5 DEF RowsOf
  <2> QED
    BY <2>1, <2>2
<1> QED
  BY <1>4, <1>5, <1>6, <1>7, <1>8, <1>9, <1>10, <1>11, <1>12 DEF ReferenceInv

-----------------------------------------------------------------------------
(* What follows.                                                           *)

\* ReferenceInv holds throughout.
THEOREM ReferenceInvariant == Spec => []ReferenceInv
<1>1. Init => ReferenceInv
  <2> SUFFICES ASSUME Init PROVE ReferenceInv
    OBVIOUS
  <2>1. /\ rows = {} /\ assignments = {}
        /\ inserted = [t \in Registrations \cup Seeds |-> {}]
        /\ call = [c \in Registrations \cup Creations |-> [stage |-> "idle"]]
        /\ change = [c \in Changes \cup SeedChanges |-> NoChange]
        /\ write = [w \in Writes |-> [stage |-> "idle"]]
        /\ seed = [s \in Seeds |-> [stage |-> "idle", found |-> <<>>]]
    BY DEF Init, TablesInit, AssignInit
  <2>2. Domains
    BY <2>1 DEF Domains
  <2>3. \A c \in DOMAIN change : change[c].stage = "idle"
    BY <2>1 DEF NoChange
  <2>4. ASSUME NEW s \in Seeds PROVE SeedInv(s)
    <3>1. /\ seed[s] = [stage |-> "idle", found |-> <<>>] /\ inserted[s] = {}
          /\ \A i \in {1, 2} : change[<<s, i>>].stage = "idle"
      BY <2>1, <2>3 DEF SeedChanges, NoChange
    <3>2. SeedTypes(s) /\ SeedFound(s)
      BY <3>1 DEF SeedTypes, SeedFound, Active
    <3>3. SeedRows(s) /\ SeedKeepers(s)
      BY <2>1, <3>1 DEF SeedRows, SeedKeepers, RowsIn
    <3> QED
      BY <3>2, <3>3 DEF SeedInv
  <2>5. RefInv /\ DemoMatchReady
    BY <2>1 DEF RefInv, DemoMatchReady, Matches, RowsIn
  <2>6. UserInv
    BY <2>1 DEF UserInv, Held, RowsIn
  <2>7. \A g \in Registrations : RegInv(g)
    BY <2>1 DEF RegInv
  <2>8. KeeperInv /\ OneScorekeeper
    BY <2>1, <2>3 DEF KeeperInv, OneScorekeeper
  <2>9. \A w \in Writes : WriteInv(w)
    BY <2>1 DEF WriteInv
  <2>10. OnceInv
    <3>1. Pending
      BY <2>1 DEF Pending, Find, RowsIn, Unique
    <3> QED
      BY <3>1 DEF OnceInv
  <2> QED
    BY <2>2, <2>4, <2>5, <2>6, <2>7, <2>8, <2>9, <2>10 DEF ReferenceInv
<1>2. ReferenceInv /\ [Next]_vars => ReferenceInv'
  <2> SUFFICES ASSUME ReferenceInv, [Next]_vars PROVE ReferenceInv'
    OBVIOUS
  <2>1. ASSUME NEW s \in Seeds, StartSeed(s) \/ SeedProgress(s) \/ CrashSeed(s) PROVE ReferenceInv'
    <3>1. CASE Ambiguous(s) \/ UserTaken(s) \/ CrashSeed(s)
      BY <3>1, FailStep DEF Ambiguous, UserTaken, CrashSeed, At, Active
    <3> QED
      BY <2>1, <3>1, StartSeedStep, FoundStep, NotFoundStep, InsertEntityStep, AssignDemoUserStep,
         CommitSeedStep DEF SeedProgress
  <2>2. ASSUME NEW g \in Registrations,
               TablesProgress(g) \/ RollbackUser(g) \/ \E email \in Emails : Register(g, email),
               UNCHANGED <<assignVars, seed>>
        PROVE  ReferenceInv'
    BY <2>2, RegisterStep, RefuseUserStep, InsertUserStep, EndUserStep DEF TablesProgress
  <2>3. ASSUME NEW c \in Changes,
               StartSomeChange(c) \/ ChangeProgress(c) \/ RollbackChange(c),
               UNCHANGED <<tablesVars, seed>>
        PROVE  ReferenceInv'
    BY <2>3, ChangeStep, CommitChangeStep DEF ChangeProgress
  <2>4. ASSUME NEW w \in Writes,
               \E m \in Matches, user \in Users \cup {Admin} : StartWrite(w, m, user),
               UNCHANGED <<tablesVars, seed>>
        PROVE  ReferenceInv'
    <3>1. UNCHANGED <<assignments, change>>
      BY <2>4 DEF StartWrite
    <3>2. \E m \in Matches : \E user : StartWrite(w, m, user)
      BY <2>4
    <3> QED
      BY <2>4, <3>1, <3>2, AskStep
  <2>5. ASSUME NEW w \in Writes, Check(w) \/ WriteEvent(w), UNCHANGED <<inserted, call, seed>>
        PROVE  ReferenceInv'
    <3>1. CASE Check(w)
      <4>1. UNCHANGED <<tablesVars, seed, assignments, change>>
        BY <2>5, <3>1 DEF Check, tablesVars
      <4> QED
        BY <3>1, <4>1, AskStep
    <3> QED
      BY <2>5, <3>1, WriteEventStep
  <2>6. ASSUME Receive PROVE ReferenceInv'
    BY <2>2, <2>3, <2>4, <2>6, CreateStep DEF Receive
  <2>7. CASE UNCHANGED vars
    <3>1. UNCHANGED <<rows, inserted, assignVars, seed>> /\ call' = call
      BY <2>7 DEF vars, tablesVars
    <3>2. \A g \in Registrations : RegInv(g)'
      BY <3>1, RegKept DEF ReferenceInv
    <3> QED
      BY <3>1, <3>2, CallStep
  <2> QED
    BY <2>1, <2>2, <2>3, <2>5, <2>6, <2>7 DEF Next, Finished
<1> QED
  BY <1>1, <1>2, PTL DEF Spec

\* An address has one account, and a registration is refused only if it has one.
THEOREM AccountsUnique == Spec => []OneAccount
<1>1. ReferenceInv => OneAccount
  <2> SUFFICES ASSUME ReferenceInv PROVE OneAccount
    OBVIOUS
  <2>1. \A email : \A u, v \in Find("users", email, rows) : u = v
    BY HeldRows DEF ReferenceInv, UserInv, Find, RowsIn
  <2>2. ASSUME NEW email PROVE Cardinality(Find("users", email, rows)) <= 1
    <3>1. CASE Find("users", email, rows) = {}
      BY <3>1, FS_EmptySet
    <3>2. CASE Find("users", email, rows) # {}
      <4>1. PICK u \in Find("users", email, rows) : TRUE
        BY <3>2
      <4>2. Find("users", email, rows) = {u}
        BY <2>1, <4>1
      <4> QED
        BY <4>2, FS_Singleton
    <3> QED
      BY <3>1, <3>2
  <2>3. ASSUME NEW g \in Registrations, call[g].stage = "created"
        PROVE  Find("users", call[g].email, rows) = {Row("users", call[g].email, g)}
    <3>1. Row("users", call[g].email, g) \in rows
      BY <2>3 DEF ReferenceInv, RegInv
    <3>2. Row("users", call[g].email, g) \in Find("users", call[g].email, rows)
      BY <3>1 DEF Find, RowsIn, Row
    <3> QED
      BY <2>1, <3>2
  <2>4. \A g \in Registrations : call[g].stage = "refused" => EmailTaken(call[g].email)
    BY DEF ReferenceInv, RegInv
  <2> QED
    BY <2>2, <2>3, <2>4 DEF OneAccount
<1> QED
  BY <1>1, ReferenceInvariant, PTL

\* The match list shows every committed match once.
THEOREM ListedOnce == Spec => []EveryMatchListed
<1>1. ReferenceInv => EveryMatchListed
  <2> SUFFICES ASSUME ReferenceInv, NEW match \in Matches
               PROVE  Cardinality({entry \in ListMatches : entry[1] = match}) = 1
    BY DEF EveryMatchListed
  <2> DEFINE found == Find("match_state", <<match>>, rows)
             entries == {entry \in ListMatches : entry[1] = match}
  <2>1. \A i \in 1..3 : match.key[i] \in rows
    BY DEF ReferenceInv, RefInv
  <2>2. PICK state \in RowsIn("match_state", rows) \cup {Missing} : StatesOf(match) = {state}
    <3>1. CASE found = {}
      BY <3>1 DEF StatesOf
    <3>2. CASE found # {}
      <4>1. PICK st \in found : TRUE
        BY <3>2
      <4>2. found = {st}
        BY <4>1 DEF ReferenceInv, RefInv, Find, RowsIn
      <4> QED
        BY <4>1, <4>2 DEF StatesOf, Find
    <3> QED
      BY <3>1, <3>2
  <2>3. \A entry : entry \in entries <=> entry = <<match, state>>
    <3>1. <<match, state>> \in entries
      BY <2>1, <2>2 DEF ListMatches
    <3>2. ASSUME NEW entry \in entries PROVE entry = <<match, state>>
      <4>1. /\ entry \in Matches \X (RowsIn("match_state", rows) \cup {Missing})
            /\ entry[1] = match /\ entry[2] \in StatesOf(match)
        BY DEF ListMatches
      <4> QED
        BY <2>2, <4>1
    <3> QED
      BY <3>1, <3>2
  <2>4. entries = {<<match, state>>}
    BY <2>3
  <2> QED
    BY <2>4, FS_Singleton
<1> QED
  BY <1>1, ReferenceInvariant, PTL

\* A match never has two scorekeepers.
THEOREM ScorekeeperUnique == Spec => []OneScorekeeper
<1>1. ReferenceInv => OneScorekeeper
  BY DEF ReferenceInv
<1> QED
  BY <1>1, ReferenceInvariant, PTL

\* Runs of the seed that made the demo account insert no demo row twice.
THEOREM SeededOnce == Spec => []DemoOnce
<1>1. ReferenceInv => DemoOnce
  <2> SUFFICES ASSUME ReferenceInv PROVE DemoOnce
    OBVIOUS
  <2>1. CASE DemoRegistered
    BY <2>1 DEF DemoOnce
  <2>2. CASE Pending
    BY <2>2 DEF Pending, DemoOnce
  <2>3. CASE Settled
    BY <2>3 DEF Settled, Unique, DemoOnce
  <2> QED
    BY <2>1, <2>2, <2>3 DEF ReferenceInv, OnceInv
<1> QED
  BY <1>1, ReferenceInvariant, PTL

\* A match of the seed is never seen half made.
THEOREM SeededWhole == Spec => []DemoMatchReady
<1>1. ReferenceInv => DemoMatchReady
  BY DEF ReferenceInv
<1> QED
  BY <1>1, ReferenceInvariant, PTL
=============================================================================
