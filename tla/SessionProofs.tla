---------------------------- MODULE SessionProofs ----------------------------
(***************************************************************************)
(* Proofs about the refresh tokens of the server (RefreshTokens) and then  *)
(* about the session of the extension over them (ExtensionSession).        *)
(*                                                                         *)
(* The tokens, for every number of calls, tokens and open transactions:    *)
(* TokensInv is inductive, so the chain ascends and an exchanged token is  *)
(* dead.                                                                   *)
(*                                                                         *)
(* The session, for every number of clicks, sign-ins, sign-outs and views: *)
(* what the tasks ask of the server are steps of the token store, and      *)
(* SessionInv is inductive, so a session that no tasks overlap in stays    *)
(* usable and capped, or is gone.                                          *)
(***************************************************************************)
EXTENDS ExtensionSession, WellFoundedInduction, TLAPS

-----------------------------------------------------------------------------
(* The token store: its inductive invariant.                               *)

Rows == [parent : Nat, replaced_by : Nat, revoked : BOOLEAN]

CallRecords ==
    [stage : Open \cup Over \cup {"idle"}, op : {"none", "rotate", "logout"},
     token : Nat, new : Nat, targets : SUBSET Nat, saw : SUBSET Nat]

TokenTypes ==
    /\ next_id \in 0 .. MaxTokens
    /\ DOMAIN rows \subseteq 1 .. next_id
    /\ rows \in [DOMAIN rows -> Rows]
    /\ expired \subseteq DOMAIN rows
    /\ known \subseteq DOMAIN rows
    /\ call \in [Calls -> CallRecords]

Rotation == {"inserted", "replaced", "rotated"}

\* A rotation's successor is later than its token, is no other rotation's, and is in
\* the table once the rotation has committed.
CallInv(c) ==
    /\ Stage(c) # "idle" => call[c].token \in DOMAIN rows
    /\ Stage(c) \in Rotation =>
         /\ call[c].new \in call[c].token + 1 .. next_id
         /\ \A d \in Calls : Stage(d) \in Rotation /\ call[d].new = call[c].new => d = c
    /\ Stage(c) \in {"inserted", "replaced"} => call[c].new \notin DOMAIN rows
    /\ Stage(c) = "rotated" =>
         /\ call[c].new \in DOMAIN rows
         /\ rows[call[c].new].parent = call[c].token
         /\ rows[call[c].token].replaced_by # 0

\* replaced_by and parent are inverse to each other but for the rotations that
\* another one overwrote.
RowInv(t) ==
    /\ rows[t].replaced_by # 0 =>
         /\ rows[t].replaced_by \in DOMAIN rows
         /\ rows[t].replaced_by > t
         /\ rows[rows[t].replaced_by].parent = t
    /\ rows[t].parent # 0 =>
         /\ rows[t].parent \in DOMAIN rows
         /\ rows[t].parent < t
         /\ rows[rows[t].parent].revoked
         /\ rows[rows[t].parent].replaced_by # 0
         /\ \E c \in Calls : /\ Stage(c) = "rotated"
                             /\ call[c].token = rows[t].parent /\ call[c].new = t

TokensInv ==
    /\ TokenTypes
    /\ \A c \in Calls : CallInv(c)
    /\ \A t \in DOMAIN rows : RowInv(t)

-----------------------------------------------------------------------------
(* Steps.                                                                  *)

\* The empty table satisfies the invariant.
LEMMA TokensInvInit == TokensInit => TokensInv
<1> SUFFICES ASSUME TokensInit PROVE TokensInv
  OBVIOUS
<1> USE TokensAssumption DEF TokensInit
<1>1. \A c \in Calls : Stage(c) = "idle"
  BY DEF Stage, NoCall
<1>2. DOMAIN rows = {}
  OBVIOUS
<1>3. TokenTypes
  BY <1>2 DEF TokenTypes, CallRecords, NoCall
<1>4. \A c \in Calls : CallInv(c)
  BY <1>1 DEF CallInv, Rotation
<1> QED
  BY <1>2, <1>3, <1>4 DEF TokensInv

\* The rows stay as they are while no rotation that has committed is forgotten.
LEMMA RowsKept ==
  ASSUME \A t \in DOMAIN rows : RowInv(t), rows' = rows,
         \A c \in Calls : Stage(c) = "rotated" => call'[c] = call[c]
  PROVE  \A t \in DOMAIN rows' : RowInv(t)'
  BY DEF RowInv, Stage

\* The other calls do not notice a step of one that leaves the rows alone.
LEMMA OthersKept ==
  ASSUME TokensInv, NEW c \in Calls, rows' = rows, next_id' \in Nat, next_id <= next_id',
         \A d \in Calls \ {c} : call'[d] = call[d], CallInv(c)'
  PROVE  \A d \in Calls : CallInv(d)'
<1> SUFFICES ASSUME NEW d \in Calls \ {c} PROVE CallInv(d)'
  OBVIOUS
<1>1. CallInv(d) /\ call[d].token \in Nat /\ next_id \in Nat
  BY DEF TokensInv, TokenTypes, CallRecords
<1>2. Stage(d)' = Stage(d) /\ call'[d] = call[d]
  BY DEF Stage
<1>3. Stage(d) \in Rotation =>
        \A e \in Calls : Stage(e)' \in Rotation /\ call'[e].new = call[d].new => e = d
  BY <1>1, <1>2 DEF CallInv, Stage
<1> QED
  BY <1>1, <1>2, <1>3 DEF CallInv, Rotation

\* The steps that only time or a client takes.
LEMMA OutsideStep ==
  ASSUME TokensInv,
         (\E t \in DOMAIN rows : Expire(t)) \/ (\E c \in Calls : TakeToken(c))
  PROVE  TokensInv'
<1>1. rows' = rows /\ next_id' = next_id /\ call' = call
  BY DEF Expire, TakeToken
<1>2. TokenTypes'
  <2>1. CASE \E t \in DOMAIN rows : Expire(t)
    BY <2>1 DEF TokensInv, TokenTypes, Expire
  <2>2. ASSUME NEW c \in Calls, TakeToken(c) PROVE TokenTypes'
    BY <2>2 DEF TokensInv, TokenTypes, TakeToken, CallInv, Stage
  <2> QED
    BY <2>1, <2>2
<1>3. \A c \in Calls : CallInv(c)'
  BY <1>1 DEF TokensInv, CallInv, Stage
<1>4. \A t \in DOMAIN rows' : RowInv(t)'
  BY <1>1, RowsKept DEF TokensInv
<1> QED
  BY <1>2, <1>3, <1>4 DEF TokensInv

\* A login adds a row that nothing refers to.
LEMMA LoginStep == TokensInv /\ Login => TokensInv'
<1> SUFFICES ASSUME TokensInv, Login PROVE TokensInv'
  OBVIOUS
<1> USE TokensAssumption
<1>1. /\ next_id' = next_id + 1 /\ next_id' \in 0 .. MaxTokens /\ next_id \in Nat
      /\ next_id' \notin DOMAIN rows /\ call' = call
      /\ DOMAIN rows' = DOMAIN rows \cup {next_id'}
      /\ rows'[next_id'] = NewRow(0)
      /\ \A t \in DOMAIN rows : rows'[t] = rows[t]
  BY DEF TokensInv, TokenTypes, Login, WithRow
<1>2. TokenTypes'
  <2>1. rows' \in [DOMAIN rows' -> Rows]
    BY <1>1 DEF TokensInv, TokenTypes, Login, WithRow, NewRow, Rows
  <2> QED
    BY <1>1, <2>1 DEF TokensInv, TokenTypes, Login
<1>3. ASSUME NEW c \in Calls PROVE CallInv(c)'
  <2>1. CallInv(c) /\ call[c].new \in Nat /\ call[c].token \in Nat
    BY DEF TokensInv, TokenTypes, CallRecords
  <2>2. Stage(c) \in Rotation => call[c].new # next_id'
    BY <1>1, <2>1 DEF CallInv
  <2> QED
    BY <1>1, <2>1, <2>2 DEF CallInv, Stage, Rotation
<1>4. ASSUME NEW t \in DOMAIN rows' PROVE RowInv(t)'
  <2>1. CASE t = next_id'
    BY <1>1, <2>1 DEF RowInv, NewRow
  <2>2. CASE t \in DOMAIN rows
    BY <1>1, <2>2 DEF TokensInv, RowInv, Stage
  <2> QED
    BY <1>1, <2>1, <2>2
<1> QED
  BY <1>2, <1>3, <1>4 DEF TokensInv

\* A rotation or a revocation opens, and has written nothing yet.
LEMMA SelectTokenStep ==
  ASSUME TokensInv, NEW c \in Calls, NEW t \in known, SelectToken(c, t)
  PROVE  TokensInv'
<1> USE TokensAssumption
<1>1. /\ rows' = rows /\ next_id' = next_id /\ next_id \in Nat /\ Stage(c) = "idle"
      /\ t \in DOMAIN rows /\ t \in Nat
      /\ call'[c].stage = Branch(t) /\ call'[c].token = t /\ call'[c].new = 0
      /\ \A d \in Calls \ {c} : call'[d] = call[d]
  <2>1. next_id \in Nat /\ t \in DOMAIN rows /\ t \in Nat /\ DOMAIN call = Calls
    BY DEF TokensInv, TokenTypes
  <2> QED
    BY <2>1 DEF SelectToken, NoCall, MayOpen
<1>2. Branch(t) \in {"reuse", "valid", "rejected"}
  BY DEF Branch
<1>3. TokenTypes'
  <2>1. call' \in [Calls -> CallRecords]
    BY <1>1, <1>2 DEF TokensInv, TokenTypes, SelectToken, CallRecords, Open, Over, NoCall
  <2> QED
    BY <1>1, <2>1 DEF TokensInv, TokenTypes, SelectToken
<1>4. \A d \in Calls : CallInv(d)'
  <2>1. CallInv(c)'
    BY <1>1, <1>2 DEF CallInv, Stage, Rotation
  <2> QED
    BY <1>1, <2>1, OthersKept
<1>5. \A u \in DOMAIN rows' : RowInv(u)'
  BY <1>1, RowsKept DEF TokensInv, Stage
<1> QED
  BY <1>3, <1>4, <1>5 DEF TokensInv

\* The successor of a rotation is a row that no one else has.
LEMMA InsertSuccessorStep ==
  ASSUME TokensInv, NEW c \in Calls, InsertSuccessor(c)
  PROVE  TokensInv'
<1> USE TokensAssumption
<1>1. /\ rows' = rows /\ next_id \in Nat /\ next_id' = next_id + 1 /\ next_id' \in 0 .. MaxTokens
      /\ Stage(c) = "valid" /\ call'[c].stage = "inserted" /\ call'[c].new = next_id'
      /\ call'[c].token = call[c].token
      /\ call[c].token \in DOMAIN rows /\ call[c].token \in 1 .. next_id
      /\ DOMAIN rows \subseteq 1 .. next_id
      /\ \A d \in Calls \ {c} : call'[d] = call[d]
  <2>1. next_id \in 0 .. MaxTokens /\ DOMAIN rows \subseteq 1 .. next_id /\ DOMAIN call = Calls
    BY DEF TokensInv, TokenTypes
  <2>2. call[c].token \in DOMAIN rows
    BY DEF TokensInv, CallInv, InsertSuccessor
  <2> QED
    BY <2>1, <2>2 DEF InsertSuccessor
<1>2. TokenTypes'
  <2>1. call[c] \in CallRecords
    BY DEF TokensInv, TokenTypes
  <2>2. call'[c] = [call[c] EXCEPT !.stage = "inserted", !.new = next_id']
    BY DEF TokensInv, TokenTypes, InsertSuccessor
  <2>3. call'[c] \in CallRecords
    <3>1. next_id' \in Nat
      BY <1>1
    <3> QED
      BY <2>1, <2>2, <3>1 DEF CallRecords, Open
  <2>4. call' \in [Calls -> CallRecords]
    BY <2>3 DEF TokensInv, TokenTypes, InsertSuccessor
  <2> QED
    BY <1>1, <2>4 DEF TokensInv, TokenTypes, InsertSuccessor
<1>3. \A d \in Calls : CallInv(d)'
  <2>1. ASSUME NEW d \in Calls, d # c, Stage(d)' \in Rotation PROVE call'[d].new # next_id'
    BY <1>1, <2>1 DEF TokensInv, CallInv, Stage
  <2>2. CallInv(c)'
    BY <1>1, <2>1 DEF CallInv, Stage, Rotation
  <2> QED
    BY <1>1, <2>2, OthersKept
<1>4. \A t \in DOMAIN rows' : RowInv(t)'
  BY <1>1, RowsKept DEF TokensInv, Stage
<1> QED
  BY <1>2, <1>3, <1>4 DEF TokensInv

\* An open call that goes on to a stage where it has written nothing, or that has locked
\* the row that it will write.
LEMMA GoOnStep ==
  ASSUME TokensInv, NEW c \in Calls, Stage(c) \in Open, UNCHANGED <<rows, expired, next_id, known>>,
         call'[c].token = call[c].token, call'[c].new = call[c].new,
         \A d \in Calls \ {c} : call'[d] = call[d],
         TokenTypes',
         \/ Stage(c)' \in {"chain", "revoking", "failed"}
         \/ Stage(c) = "inserted" /\ Stage(c)' = "replaced"
  PROVE  TokensInv'
<1>1. \A d \in Calls : CallInv(d)'
  <2>1. next_id \in Nat /\ CallInv(c)
    BY DEF TokensInv, TokenTypes
  <2>2. CallInv(c)'
    BY <2>1 DEF CallInv, Stage, Rotation, Open
  <2> QED
    BY <2>1, <2>2, OthersKept
<1>2. \A t \in DOMAIN rows' : RowInv(t)'
  BY RowsKept DEF TokensInv, Stage, Open
<1> QED
  BY <1>1, <1>2 DEF TokensInv

\* The UPDATE of a rotation, the snapshot and the locks of a revocation, and an
\* interruption.
LEMMA InsideStep ==
  ASSUME TokensInv, NEW c \in Calls,
         ReplaceOld(c) \/ SelectChain(c) \/ LockTargets(c) \/ Rollback(c)
  PROVE  TokensInv'
<1>1. DOMAIN call = Calls /\ DOMAIN rows \subseteq Nat
  BY DEF TokensInv, TokenTypes
<1>2. CASE ReplaceOld(c)
  <2>1. TokenTypes'
    BY <1>2 DEF TokensInv, TokenTypes, ReplaceOld, Goto, CallRecords, Open
  <2>2. /\ call'[c].token = call[c].token /\ call'[c].new = call[c].new
        /\ Stage(c) = "inserted" /\ Stage(c)' = "replaced"
        /\ \A d \in Calls \ {c} : call'[d] = call[d]
    BY <1>1, <1>2 DEF ReplaceOld, Goto, Stage
  <2> QED
    BY <1>2, <2>1, <2>2, GoOnStep DEF ReplaceOld, Open
<1>3. CASE SelectChain(c)
  <2>1. TokenTypes'
    <3>1. Unrevoked(Chain(call[c].token)) \in SUBSET Nat
      BY <1>1 DEF Unrevoked
    <3>2. call[c] \in CallRecords
      BY DEF TokensInv, TokenTypes
    <3>3. call'[c] = [call[c] EXCEPT !.stage = "chain", !.saw = DOMAIN rows,
                                     !.targets = Unrevoked(Chain(call[c].token))]
      BY <1>1, <1>3 DEF SelectChain
    <3>4. call'[c] \in CallRecords
      BY <1>1, <3>1, <3>2, <3>3 DEF CallRecords, Open
    <3>5. call' \in [Calls -> CallRecords]
      BY <1>3, <3>4 DEF TokensInv, TokenTypes, SelectChain
    <3> QED
      BY <1>3, <3>5 DEF TokensInv, TokenTypes, SelectChain
  <2>2. /\ call'[c].token = call[c].token /\ call'[c].new = call[c].new
        /\ Stage(c) = "reuse" /\ Stage(c)' = "chain"
        /\ \A d \in Calls \ {c} : call'[d] = call[d]
    BY <1>1, <1>3 DEF SelectChain, Stage
  <2> QED
    BY <1>3, <2>1, <2>2, GoOnStep DEF SelectChain, Open
<1>4. CASE LockTargets(c)
  <2>1. TokenTypes'
    <3>1. Unrevoked(call[c].targets) \in SUBSET Nat
      BY <1>1 DEF Unrevoked
    <3>2. call[c] \in CallRecords
      BY DEF TokensInv, TokenTypes
    <3>3. call'[c] = [call[c] EXCEPT !.stage = "revoking", !.targets = Unrevoked(@)]
      BY <1>1, <1>4 DEF LockTargets
    <3>4. call'[c] \in CallRecords
      BY <3>1, <3>2, <3>3 DEF CallRecords, Open
    <3>5. call' \in [Calls -> CallRecords]
      BY <1>4, <3>4 DEF TokensInv, TokenTypes, LockTargets
    <3> QED
      BY <1>4, <3>5 DEF TokensInv, TokenTypes, LockTargets
  <2>2. /\ call'[c].token = call[c].token /\ call'[c].new = call[c].new
        /\ Stage(c) = "chain" /\ Stage(c)' = "revoking"
        /\ \A d \in Calls \ {c} : call'[d] = call[d]
    BY <1>1, <1>4 DEF LockTargets, Stage
  <2> QED
    BY <1>4, <2>1, <2>2, GoOnStep DEF LockTargets, Open
<1>5. CASE Rollback(c)
  <2>1. TokenTypes'
    BY <1>5 DEF TokensInv, TokenTypes, Rollback, CallRecords, Over
  <2>2. /\ call'[c].token = call[c].token /\ call'[c].new = call[c].new
        /\ Stage(c) \in Open /\ Stage(c)' = "failed"
        /\ \A d \in Calls \ {c} : call'[d] = call[d]
    BY <1>1, <1>5 DEF Rollback, Stage
  <2> QED
    BY <1>5, <2>1, <2>2, GoOnStep DEF Rollback
<1> QED
  BY <1>2, <1>3, <1>4, <1>5

\* A logout opens a transaction that writes no successor.
LEMMA SelectLogoutStep ==
  ASSUME TokensInv, NEW c \in Calls, NEW t \in known, SelectLogout(c, t)
  PROVE  TokensInv'
<1>1. /\ rows' = rows /\ next_id' = next_id /\ next_id \in Nat /\ Stage(c) = "idle"
      /\ t \in DOMAIN rows /\ t \in Nat
      /\ call'[c].stage = "chain" /\ call'[c].token = t
      /\ \A d \in Calls \ {c} : call'[d] = call[d]
  <2>1. next_id \in Nat /\ t \in DOMAIN rows /\ t \in Nat /\ DOMAIN call = Calls
    BY DEF TokensInv, TokenTypes
  <2> QED
    BY <2>1 DEF SelectLogout, NoCall, MayOpen
<1>2. TokenTypes'
  <2>1. Unrevoked({t}) \in SUBSET Nat
    BY DEF TokensInv, TokenTypes, Unrevoked
  <2> QED
    BY <1>1, <2>1 DEF TokensInv, TokenTypes, SelectLogout, CallRecords, Open, NoCall
<1>3. \A d \in Calls : CallInv(d)'
  <2>1. CallInv(c)'
    BY <1>1 DEF CallInv, Stage, Rotation
  <2> QED
    BY <1>1, <2>1, OthersKept
<1>4. \A u \in DOMAIN rows' : RowInv(u)'
  BY <1>1, RowsKept DEF TokensInv, Stage
<1> QED
  BY <1>2, <1>3, <1>4 DEF TokensInv

\* A rotation commits: the token, which another rotation may have exchanged before, leads
\* to the later row of this one.
LEMMA CommitRotationStep ==
  ASSUME TokensInv, NEW c \in Calls, CommitRotation(c)
  PROVE  TokensInv'
<1> DEFINE old == call[c].token
           new == call[c].new
<1>1. /\ next_id' = next_id /\ next_id \in 0 .. MaxTokens /\ DOMAIN rows \subseteq 1 .. next_id
      /\ Stage(c) = "replaced" /\ CallInv(c)
      /\ old \in DOMAIN rows /\ new \notin DOMAIN rows /\ new \in 1 .. next_id /\ new > old
      /\ call'[c].stage = "rotated" /\ call'[c].token = old /\ call'[c].new = new
      /\ \A d \in Calls \ {c} : call'[d] = call[d]
  <2>1. /\ next_id \in 0 .. MaxTokens /\ DOMAIN rows \subseteq 1 .. next_id /\ DOMAIN call = Calls
        /\ CallInv(c) /\ old \in Nat
    BY DEF TokensInv, TokenTypes, CallRecords
  <2>2. Stage(c) = "replaced"
    BY DEF CommitRotation, Goto
  <2>3. old \in DOMAIN rows /\ new \notin DOMAIN rows /\ new \in old + 1 .. next_id
    BY <2>1, <2>2 DEF CallInv, Rotation
  <2>4. new \in 1 .. next_id /\ new > old
    BY <2>1, <2>3
  <2> QED
    BY <2>1, <2>2, <2>3, <2>4 DEF CommitRotation, Goto
<1>2. /\ DOMAIN rows' = DOMAIN rows \cup {new}
      /\ rows'[new] = [parent |-> old, replaced_by |-> 0, revoked |-> FALSE]
      /\ rows'[old] = [rows[old] EXCEPT !.replaced_by = new, !.revoked = TRUE]
      /\ \A t \in DOMAIN rows \ {old} : rows'[t] = rows[t]
  BY <1>1 DEF CommitRotation, Exchanged, WithRow, Replaced, NewRow
<1>3. rows[old] \in Rows /\ \A t \in DOMAIN rows : rows[t] \in Rows
  BY <1>1 DEF TokensInv, TokenTypes
<1>4. /\ rows'[old].parent = rows[old].parent /\ rows'[old].replaced_by = new
      /\ rows'[old].revoked /\ rows'[old] \in Rows
      /\ rows'[new].parent = old /\ rows'[new].replaced_by = 0 /\ rows'[new] \in Rows
  <2>1. old \in Nat /\ new \in Nat /\ old # new
    BY <1>1
  <2>2. rows'[new].parent = old /\ rows'[new].replaced_by = 0 /\ rows'[new] \in Rows
    BY <1>2, <2>1 DEF Rows
  <2>3. rows'[old].revoked = TRUE
    BY <1>2, <1>3 DEF Rows
  <2>4. rows'[old].parent = rows[old].parent /\ rows'[old].replaced_by = new
    BY <1>2, <1>3 DEF Rows
  <2>5. rows'[old] \in Rows
    BY <1>2, <1>3, <2>1 DEF Rows
  <2> QED
    BY <2>2, <2>3, <2>4, <2>5
<1> HIDE DEF old, new
<1>5. /\ DOMAIN rows' = DOMAIN rows \cup {new}
      /\ old \in Nat /\ new \in Nat /\ new # 0 /\ new # old /\ next_id \in Nat
      /\ \A t \in DOMAIN rows :
           /\ t \in Nat
           /\ rows'[t].parent = rows[t].parent
           /\ t # old => rows'[t].replaced_by = rows[t].replaced_by
           /\ rows[t].revoked => rows'[t].revoked
           /\ rows[t].replaced_by # 0 => rows'[t].replaced_by # 0
  <2>1. old \in Nat /\ new \in Nat /\ new # 0 /\ new # old /\ next_id \in Nat
    BY <1>1
  <2>2. DOMAIN rows' = DOMAIN rows \cup {new} /\ DOMAIN rows \subseteq Nat
    BY <1>1, <1>2
  <2>3. ASSUME NEW t \in DOMAIN rows
        PROVE  /\ rows'[t].parent = rows[t].parent
               /\ t # old => rows'[t].replaced_by = rows[t].replaced_by
               /\ rows[t].revoked => rows'[t].revoked
               /\ rows[t].replaced_by # 0 => rows'[t].replaced_by # 0
    <3>1. t = old \/ rows'[t] = rows[t]
      BY <1>2
    <3> QED
      BY <1>4, <2>1, <3>1
  <2> QED
    BY <2>1, <2>2, <2>3
<1>6. TokenTypes'
  <2>1. rows' \in [DOMAIN rows' -> Rows]
    <3>1. rows' = [t \in DOMAIN rows' |-> rows'[t]]
      BY DEF CommitRotation, Exchanged, WithRow
    <3> QED
      BY <3>1, <1>2, <1>3, <1>4
  <2>2. call' \in [Calls -> CallRecords]
    BY DEF TokensInv, TokenTypes, CommitRotation, Goto, CallRecords, Over
  <2> QED
    BY <1>1, <1>2, <2>1, <2>2 DEF TokensInv, TokenTypes, CommitRotation
<1>7. ASSUME NEW d \in Calls PROVE CallInv(d)'
  <2>1. CASE d = c
    <3>1. \A e \in Calls : Stage(e)' \in Rotation /\ call'[e].new = new => e = c
      BY <1>1 DEF CallInv, Stage, Rotation, new
    <3>2. new \in old + 1 .. next_id
      BY <1>1 DEF CallInv, Rotation, old, new
    <3> QED
      BY <1>1, <1>4, <1>5, <2>1, <3>1, <3>2 DEF CallInv, Stage, Rotation
  <2>2. CASE d # c
    <3>1. CallInv(d) /\ call'[d] = call[d] /\ Stage(d)' = Stage(d)
      BY <1>1, <2>2 DEF TokensInv, Stage
    <3>2. Stage(d) \in Rotation =>
            /\ call[d].new # new
            /\ \A e \in Calls : Stage(e)' \in Rotation /\ call'[e].new = call[d].new => e = d
      BY <1>1, <2>2, <3>1 DEF CallInv, Stage, Rotation, new
    <3>3. Stage(d) = "rotated" => rows'[call[d].token].replaced_by # 0
      BY <1>5, <3>1 DEF CallInv
    <3> QED
      BY <1>1, <1>5, <3>1, <3>2, <3>3 DEF CallInv, Rotation
  <2> QED
    BY <2>1, <2>2
<1>8. ASSUME NEW t \in DOMAIN rows' PROVE RowInv(t)'
  <2>1. CASE t = new
    BY <1>1, <1>4, <1>5, <2>1 DEF RowInv, Stage
  <2>2. CASE t \in DOMAIN rows
    <3>1. RowInv(t)
      BY <2>2 DEF TokensInv
    <3>2. \A d \in Calls : Stage(d) = "rotated" => call'[d] = call[d] /\ Stage(d)' = "rotated"
      BY <1>1 DEF Stage
    <3>3. rows'[t].replaced_by # 0 =>
            /\ rows'[t].replaced_by \in DOMAIN rows'
            /\ rows'[t].replaced_by > t
            /\ rows'[rows'[t].replaced_by].parent = t
      BY <1>1, <1>4, <1>5, <2>2, <3>1 DEF RowInv
    <3>4. rows[t].parent # 0 =>
            LET p == rows[t].parent
            IN  p \in DOMAIN rows' /\ rows'[p].revoked /\ rows'[p].replaced_by # 0
      BY <1>5, <2>2, <3>1 DEF RowInv
    <3> QED
      BY <1>5, <2>2, <3>1, <3>2, <3>3, <3>4 DEF RowInv
  <2> QED
    BY <1>5, <2>1, <2>2
<1> QED
  BY <1>6, <1>7, <1>8 DEF TokensInv

\* A revocation commits: what it does to a row, a rotation of the row does not undo.
LEMMA CommitRevocationStep ==
  ASSUME TokensInv, NEW c \in Calls, CommitRevocation(c)
  PROVE  TokensInv'
<1>1. /\ next_id' = next_id /\ next_id \in 0 .. MaxTokens
      /\ Stage(c) = "revoking" /\ call'[c].stage \in {"logged_out", "reused"}
      /\ call'[c].token = call[c].token /\ call'[c].new = call[c].new
      /\ \A d \in Calls \ {c} : call'[d] = call[d]
  BY DEF TokensInv, TokenTypes, CommitRevocation, Goto
<1>2. /\ DOMAIN rows' = DOMAIN rows
      /\ rows' = [t \in DOMAIN rows |-> rows'[t]]
      /\ \A t \in DOMAIN rows :
           /\ rows'[t].parent = rows[t].parent
           /\ rows'[t].replaced_by = rows[t].replaced_by
           /\ rows[t].revoked => rows'[t].revoked
           /\ rows'[t] \in Rows
  <2>1. \A t \in DOMAIN rows : rows[t] \in Rows
    BY DEF TokensInv, TokenTypes
  <2> QED
    BY <2>1 DEF CommitRevocation, Revoked, Rows
<1>3. TokenTypes'
  <2>1. call' \in [Calls -> CallRecords]
    BY DEF TokensInv, TokenTypes, CommitRevocation, Goto, CallRecords, Over
  <2>2. rows' \in [DOMAIN rows' -> Rows]
    BY <1>2
  <2> QED
    BY <1>1, <1>2, <2>1, <2>2 DEF TokensInv, TokenTypes, CommitRevocation
<1>4. ASSUME NEW d \in Calls PROVE CallInv(d)'
  <2>1. CallInv(d)
    BY DEF TokensInv
  <2>2. Stage(d) \in Rotation =>
          \A e \in Calls : Stage(e)' \in Rotation /\ call'[e].new = call[d].new => e = d
    BY <1>1, <2>1 DEF CallInv, Stage, Rotation
  <2> QED
    BY <1>1, <1>2, <2>1, <2>2 DEF CallInv, Stage, Rotation
<1>5. ASSUME NEW t \in DOMAIN rows' PROVE RowInv(t)'
  <2>1. RowInv(t)
    BY <1>2 DEF TokensInv
  <2>2. \A d \in Calls : Stage(d) = "rotated" => call'[d] = call[d] /\ Stage(d)' = "rotated"
    BY <1>1 DEF Stage
  <2> QED
    BY <1>2, <2>1, <2>2 DEF RowInv
<1> QED
  BY <1>3, <1>4, <1>5 DEF TokensInv

\* Every step keeps the invariant.
LEMMA TokensInvStep == TokensInv /\ [TokensNext]_tokenVars => TokensInv'
<1> SUFFICES ASSUME TokensInv, [TokensNext]_tokenVars PROVE TokensInv'
  OBVIOUS
<1>1. CASE UNCHANGED tokenVars
  BY <1>1 DEF tokenVars, TokensInv, TokenTypes, CallInv, RowInv, Stage
<1>2. CASE Login
  BY <1>2, LoginStep
<1>3. CASE \E t \in DOMAIN rows : Expire(t)
  BY <1>3, OutsideStep
<1>4. ASSUME NEW c \in Calls, Run(c) \/ Rollback(c) PROVE TokensInv'
  BY <1>4, InsertSuccessorStep, CommitRotationStep, CommitRevocationStep, InsideStep DEF Run
<1>5. ASSUME NEW c \in Calls, TakeToken(c) PROVE TokensInv'
  BY <1>5, OutsideStep
<1>6. ASSUME NEW c \in Calls, NEW t \in known, SelectToken(c, t) \/ SelectLogout(c, t)
      PROVE  TokensInv'
  BY <1>6, SelectTokenStep, SelectLogoutStep
<1> QED
  BY <1>1, <1>2, <1>3, <1>4, <1>5, <1>6 DEF TokensNext, TokensFinished

-----------------------------------------------------------------------------
(* What follows.                                                           *)

\* TokensInv holds throughout.
THEOREM TokensInvariant == TokensSpec => []TokensInv
<1>1. TokensInit => TokensInv
  BY TokensInvInit
<1>2. TokensInv /\ [TokensNext]_tokenVars => TokensInv'
  BY TokensInvStep
<1> QED
  BY <1>1, <1>2, PTL DEF TokensSpec

\* The chain that _revoke_chain() follows ascends, however many rotations of a token
\* commit over each other: its recursive query ends.
THEOREM ChainEnds == TokensSpec => []ChainAscends
<1>1. TokensInv => ChainAscends
  BY DEF TokensInv, RowInv, ChainAscends
<1> QED
  BY <1>1, TokensInvariant, PTL

\* A token that rotate() has exchanged is revoked, and no UPDATE of another transaction
\* makes it usable again.
THEOREM ExchangedStaysDead == TokensSpec => []ExchangedIsDead
<1>1. TokensInv => ExchangedIsDead
  BY DEF TokensInv, RowInv, ExchangedIsDead
<1> QED
  BY <1>1, TokensInvariant, PTL

-----------------------------------------------------------------------------
(* Logins.  "parent" leads every token to its login, since it descends.    *)

\* Parents are earlier rows.
Descending(table, last) ==
    \A x \in DOMAIN table :
        /\ x \in 1 .. last
        /\ table[x].parent # 0 => table[x].parent \in DOMAIN table /\ table[x].parent < x

LoginTable(table) ==
    LET root[x \in DOMAIN table] ==
          IF table[x].parent = 0 THEN x ELSE root[table[x].parent]
    IN  root

\* Rows of a set of tokens have an earliest one.
LEMMA EarliestToken ==
  ASSUME NEW T, T \subseteq Nat, T # {}
  PROVE  \E x \in T : \A y \in T : x <= y
<1> DEFINE R == OpToRel(<, Nat)
<1>1. \E x \in T : \A y \in T : ~ (<<y, x>> \in R)
  <2>1. IsWellFoundedOn(R, Nat)
    BY NatLessThanWellFounded
  <2> HIDE DEF R
  <2> QED
    BY <2>1, WFMin
<1>2. \A x, y \in Nat : <<y, x>> \in R <=> y < x
  BY DEF OpToRel
<1>3. \E x \in T : \A y \in T : ~ (y < x)
  <2> HIDE DEF R
  <2> QED
    BY <1>1, <1>2, Zenon
<1> QED
  BY <1>3

\* The recursion of LoginOf has a solution: one that holds for the rows up to k - 1
\* extends to row k.
LEMMA LoginTableExists ==
  ASSUME NEW table, NEW last \in Nat, Descending(table, last)
  PROVE  \E f : f = [x \in DOMAIN table |->
                       IF table[x].parent = 0 THEN x ELSE f[table[x].parent]]
<1> DEFINE Step(f, x) == IF table[x].parent = 0 THEN x ELSE f[table[x].parent]
           Solves(f, k) == /\ f = [x \in DOMAIN table |-> f[x]]
                           /\ \A x \in DOMAIN table : x <= k => f[x] = Step(f, x)
           Stuck == {k \in Nat : ~ \E f : Solves(f, k)}
<1>1. \A k \in Nat : \E f : Solves(f, k)
  <2> SUFFICES ASSUME Stuck # {} PROVE FALSE
    OBVIOUS
  <2>1. PICK k \in Stuck : \A j \in Stuck : k <= j
    <3>1. Stuck \subseteq Nat
      OBVIOUS
    <3> HIDE DEF Stuck
    <3> QED
      BY <3>1, EarliestToken
  <2>2. k # 0
    <3>1. Solves([x \in DOMAIN table |-> x], 0)
      BY DEF Descending
    <3> QED
      BY <2>1, <3>1
  <2>3. PICK f : Solves(f, k - 1)
    <3> HIDE DEF Solves
    <3>1. k - 1 \in Nat /\ ~ (k <= k - 1)
      BY <2>1, <2>2
    <3>2. k - 1 \notin Stuck
      <4> HIDE DEF Stuck
      <4> QED
        BY <2>1, <3>1
    <3> QED
      BY <3>1, <3>2
  <2> DEFINE g == [x \in DOMAIN table |-> IF x = k THEN Step(f, k) ELSE f[x]]
  <2>4. ASSUME NEW x \in DOMAIN table, x <= k PROVE g[x] = Step(g, x)
    <3>1. \A y \in DOMAIN table : y < x => g[y] = f[y]
      BY <2>1, <2>4 DEF Descending
    <3>2. Step(g, x) = Step(f, x)
      BY <3>1 DEF Descending
    <3>3. x # k => f[x] = Step(f, x)
      BY <2>1, <2>3, <2>4 DEF Descending
    <3> QED
      BY <3>2, <3>3
  <2>5. g = [x \in DOMAIN table |-> g[x]]
    OBVIOUS
  <2> HIDE DEF g
  <2>6. Solves(g, k)
    BY <2>4, <2>5
  <2> QED
    BY <2>1, <2>6
<1>2. PICK f : Solves(f, last)
  BY <1>1
<1>3. \A x \in DOMAIN table : f[x] = Step(f, x)
  BY <1>2 DEF Descending
<1> QED
  BY <1>2, <1>3

\* The table of logins is defined by following parent to a token that has none.
LEMMA LoginTableIs ==
  ASSUME NEW table, NEW last \in Nat, Descending(table, last)
  PROVE  \A x \in DOMAIN table :
           LoginTable(table)[x] = IF table[x].parent = 0 THEN x
                                  ELSE LoginTable(table)[table[x].parent]
<1> DEFINE IsTable(f) ==
      f = [x \in DOMAIN table |-> IF table[x].parent = 0 THEN x ELSE f[table[x].parent]]
<1>1. \E f : IsTable(f)
  BY LoginTableExists
<1>2. LoginTable(table) = CHOOSE f : IsTable(f)
  BY DEF LoginTable
<1>3. IsTable(LoginTable(table))
  <2> HIDE DEF IsTable
  <2> QED
    BY <1>1, <1>2, Zenon
<1> QED
  BY <1>3

\* A row keeps its login while rows are added and none changes its parent.
LEMMA LoginStays ==
  ASSUME NEW table, NEW later, NEW last \in Nat,
         Descending(table, last), Descending(later, last),
         DOMAIN table \subseteq DOMAIN later,
         \A x \in DOMAIN table : later[x].parent = table[x].parent
  PROVE  \A x \in DOMAIN table : LoginTable(later)[x] = LoginTable(table)[x]
<1> DEFINE Moved == {x \in DOMAIN table : LoginTable(later)[x] # LoginTable(table)[x]}
<1> SUFFICES ASSUME Moved # {} PROVE FALSE
  OBVIOUS
<1>1. Moved \subseteq Nat /\ Moved \subseteq DOMAIN table
  BY DEF Descending
<1>2. PICK x \in Moved : \A y \in Moved : x <= y
  <2> HIDE DEF Moved
  <2> QED
    BY <1>1, EarliestToken
<1>3. /\ LoginTable(table)[x] =
           IF table[x].parent = 0 THEN x ELSE LoginTable(table)[table[x].parent]
      /\ LoginTable(later)[x] =
           IF table[x].parent = 0 THEN x ELSE LoginTable(later)[table[x].parent]
  BY <1>2, LoginTableIs
<1>4. /\ table[x].parent # 0
      /\ table[x].parent \in DOMAIN table /\ table[x].parent < x /\ table[x].parent \in Nat
      /\ x \in Nat
  BY <1>2, <1>3 DEF Descending
<1>5. table[x].parent \in Moved
  BY <1>2, <1>3, <1>4
<1> HIDE DEF Moved
<1> QED
  BY <1>2, <1>4, <1>5

\* A set that leads from a token back to its login, a token at a time.
Lineage(table, A, x) ==
    /\ A \subseteq DOMAIN table
    /\ x \in A
    /\ LoginTable(table)[x] \in A
    /\ \A a \in A : LoginTable(table)[a] = LoginTable(table)[x]
    /\ \A a \in A \ {x} : \E b \in A : table[b].parent = a

\* Every token has a lineage: that of its parent and itself.
LEMMA LineageExists ==
  ASSUME NEW table, NEW last \in Nat, Descending(table, last)
  PROVE  \A x \in DOMAIN table : \E A : Lineage(table, A, x)
<1> DEFINE Bare == {x \in DOMAIN table : ~ \E A : Lineage(table, A, x)}
<1> SUFFICES ASSUME Bare # {} PROVE FALSE
  OBVIOUS
<1>1. Bare \subseteq Nat
  BY DEF Descending
<1>2. PICK x \in Bare : \A y \in Bare : x <= y
  <2> HIDE DEF Bare
  <2> QED
    BY <1>1, EarliestToken
<1>3. LoginTable(table)[x] =
        IF table[x].parent = 0 THEN x ELSE LoginTable(table)[table[x].parent]
  BY <1>2, LoginTableIs
<1>4. CASE table[x].parent = 0
  <2>1. Lineage(table, {x}, x)
    BY <1>2, <1>3, <1>4 DEF Lineage
  <2> QED
    BY <1>2, <2>1
<1>5. CASE table[x].parent # 0
  <2> DEFINE p == table[x].parent
  <2>1. p \in DOMAIN table /\ p < x /\ p \in Nat /\ x \in Nat
    BY <1>2, <1>5 DEF Descending
  <2>2. p \notin Bare
    <3> HIDE DEF Bare, p
    <3> QED
      BY <1>2, <2>1
  <2>3. PICK A : Lineage(table, A, p)
    BY <2>1, <2>2
  <2>4. Lineage(table, A \cup {x}, x)
    BY <1>2, <1>3, <1>5, <2>3 DEF Lineage
  <2> QED
    BY <1>2, <2>4
<1> QED
  BY <1>4, <1>5

\* The tokens of a login of which each has been exchanged at most once.
SingleLine(table, x) ==
    \A y, z \in DOMAIN table :
        /\ LoginTable(table)[y] = LoginTable(table)[x]
        /\ LoginTable(table)[z] = LoginTable(table)[x]
        /\ table[y].parent = table[z].parent
        /\ table[y].parent # 0
        => y = z

\* Then the lineage of a token without successors is all that came of the login: the
\* earliest token outside would be a second successor of its parent.
LEMMA LoginIsLineage ==
  ASSUME NEW table, NEW last \in Nat, Descending(table, last),
         NEW x \in DOMAIN table, \A y \in DOMAIN table : table[y].parent # x,
         SingleLine(table, x), NEW A, Lineage(table, A, x),
         NEW y \in DOMAIN table, LoginTable(table)[y] = LoginTable(table)[x]
  PROVE  y \in A
<1> DEFINE Outside == {z \in DOMAIN table : /\ LoginTable(table)[z] = LoginTable(table)[x]
                                            /\ z \notin A}
<1> SUFFICES ASSUME Outside # {} PROVE FALSE
  OBVIOUS
<1>1. Outside \subseteq Nat
  BY DEF Descending
<1>2. PICK z \in Outside : \A w \in Outside : z <= w
  <2> HIDE DEF Outside
  <2> QED
    BY <1>1, EarliestToken
<1>3. LoginTable(table)[z] =
        IF table[z].parent = 0 THEN z ELSE LoginTable(table)[table[z].parent]
  BY <1>2, LoginTableIs
<1>4. table[z].parent # 0
  BY <1>2, <1>3 DEF Lineage
<1> DEFINE p == table[z].parent
<1>5. p \in DOMAIN table /\ p < z /\ p \in Nat /\ z \in Nat
  BY <1>2, <1>4 DEF Descending
<1>6. p \in A
  <2>1. p \notin Outside
    <3> HIDE DEF Outside, p
    <3> QED
      BY <1>2, <1>5
  <2> QED
    BY <2>1, <1>2, <1>3, <1>4, <1>5
<1>7. PICK b \in A : table[b].parent = p
  BY <1>2, <1>6 DEF Lineage
<1> QED
  BY <1>2, <1>4, <1>7 DEF Lineage, SingleLine

\* LoginOf is the table above, and ExchangedOnce says that the login is a single line.
LEMMA LoginOfIs ==
  ASSUME TokensInv
  PROVE  /\ next_id \in Nat /\ Descending(rows, next_id)
         /\ \A x \in DOMAIN rows : LoginOf(x) = LoginTable(rows)[x]
         /\ \A x \in DOMAIN rows : ExchangedOnce(x) <=> SingleLine(rows, x)
<1>1. next_id \in Nat /\ Descending(rows, next_id)
  BY DEF TokensInv, TokenTypes, RowInv, Descending
<1>2. \A x \in DOMAIN rows : LoginOf(x) = LoginTable(rows)[x]
  BY DEF LoginOf, LoginTable
<1>3. ASSUME NEW x \in DOMAIN rows PROVE ExchangedOnce(x) <=> SingleLine(rows, x)
  BY <1>2 DEF ExchangedOnce, SingleLine, Family
<1> QED
  BY <1>1, <1>2, <1>3

\* What came of the login of an unrevoked token, if each token was exchanged at most once,
\* is a line that ends in it.
LEMMA LoginIsLine ==
  ASSUME TokensInv, NEW x \in DOMAIN rows, ~ rows[x].revoked, ExchangedOnce(x)
  PROVE  \E A \in SUBSET DOMAIN rows :
           /\ x \in A /\ Family(x) = A
           /\ \A a \in A \ {x} : \E b \in A : rows[b].parent = a
<1>1. \A y \in DOMAIN rows : rows[y].parent # x
  <2> SUFFICES ASSUME NEW y \in DOMAIN rows, rows[y].parent = x PROVE FALSE
    OBVIOUS
  <2>1. x # 0
    BY DEF TokensInv, TokenTypes
  <2> QED
    BY <2>1 DEF TokensInv, RowInv
<1>2. PICK A : Lineage(rows, A, x)
  BY LoginOfIs, LineageExists
<1>3. \A y \in Family(x) : y \in A
  BY <1>1, <1>2, LoginOfIs, LoginIsLineage DEF Family
<1>4. \A y \in A : y \in Family(x)
  BY <1>2, LoginOfIs DEF Family, Lineage
<1> QED
  BY <1>2, <1>3, <1>4 DEF Lineage

\* Of all that came of a login at most one token is usable, however many answers were lost
\* and retried, unless rotations of one token overlapped.
THEOREM OneUsable == TokensSpec => []OneUsablePerLogin
<1>1. ASSUME TokensInv, NEW x \in DOMAIN rows, NEW y \in DOMAIN rows,
             Usable(x), Usable(y), LoginOf(x) = LoginOf(y), ExchangedOnce(x)
      PROVE  x = y
  <2>1. PICK A \in SUBSET DOMAIN rows :
           /\ x \in A /\ Family(x) = A
           /\ \A a \in A \ {x} : \E b \in A : rows[b].parent = a
    BY <1>1, LoginIsLine DEF Usable
  <2>2. y \in A
    BY <1>1, <2>1 DEF Family
  <2>3. ASSUME NEW b \in A, rows[b].parent = y PROVE FALSE
    <3>1. y # 0 /\ RowInv(b)
      BY <1>1, <2>1 DEF TokensInv, TokenTypes
    <3> QED
      BY <1>1, <2>3, <3>1 DEF RowInv, Usable
  <2> QED
    BY <2>1, <2>2, <2>3
<1>2. TokensInv => OneUsablePerLogin
  BY <1>1 DEF OneUsablePerLogin
<1> QED
  BY <1>2, TokensInvariant, PTL

-----------------------------------------------------------------------------
(* Reuse.                                                                  *)

\* A revocation that is under way has, of the tokens of a login that it saw, those that
\* are not revoked among its targets.
ReuseInv ==
    \A c \in Calls :
        Stage(c) \in {"chain", "revoking"} /\ call[c].op # "logout" =>
            /\ call[c].saw \subseteq DOMAIN rows
            /\ ExchangedOnce(call[c].token) =>
                 \A x \in Family(call[c].token) \cap call[c].saw :
                     x \in call[c].targets \/ rows[x].revoked

\* Rows are never removed, keep their parent and stay revoked.
LEMMA RowsGrow ==
  ASSUME TokensInv, [TokensNext]_tokenVars
  PROVE  /\ next_id \in Nat /\ next_id' \in Nat /\ next_id <= next_id'
         /\ DOMAIN rows \subseteq DOMAIN rows'
         /\ \A t \in DOMAIN rows : /\ rows'[t].parent = rows[t].parent
                                   /\ rows[t].revoked => rows'[t].revoked
<1>1. /\ next_id \in Nat
      /\ \A t \in DOMAIN rows : t \in 1 .. next_id /\ rows[t] \in Rows
  BY DEF TokensInv, TokenTypes
<1>2. CASE UNCHANGED <<rows, next_id>>
  BY <1>1, <1>2
<1>3. CASE Login
  BY <1>1, <1>3 DEF Login, WithRow
<1>4. ASSUME NEW c \in Calls, InsertSuccessor(c)
      PROVE  next_id' = next_id + 1 /\ rows' = rows
  BY <1>4 DEF InsertSuccessor
<1>5. ASSUME NEW c \in Calls, CommitRotation(c)
      PROVE  /\ next_id' = next_id /\ DOMAIN rows \subseteq DOMAIN rows'
             /\ \A t \in DOMAIN rows : /\ rows'[t].parent = rows[t].parent
                                       /\ rows[t].revoked => rows'[t].revoked
  <2> DEFINE old == call[c].token
             new == call[c].new
  <2>1. old \in DOMAIN rows /\ new \notin DOMAIN rows
    BY <1>5 DEF TokensInv, CallInv, CommitRotation, Goto
  <2>2. DOMAIN rows \subseteq DOMAIN rows'
    BY <1>5 DEF CommitRotation, Exchanged, WithRow
  <2>3. ASSUME NEW t \in DOMAIN rows
        PROVE  rows'[t] \in {rows[t], Replaced(rows[t], new)}
    BY <1>5, <2>1 DEF CommitRotation, Exchanged, WithRow
  <2>4. ASSUME NEW t \in DOMAIN rows
        PROVE  rows'[t].parent = rows[t].parent /\ (rows[t].revoked => rows'[t].revoked)
    <3>1. CASE rows'[t] = rows[t]
      BY <3>1
    <3>2. CASE rows'[t] = Replaced(rows[t], new)
      <4>1. rows[t] \in Rows
        BY <1>1
      <4>2. rows'[t].parent = rows[t].parent
        BY <3>2, <4>1 DEF Replaced, Rows
      <4>3. rows'[t].revoked = TRUE
        BY <3>2, <4>1 DEF Replaced, Rows
      <4> QED
        BY <4>2, <4>3
    <3> QED
      BY <2>3, <3>1, <3>2
  <2> QED
    BY <1>5, <2>2, <2>4 DEF CommitRotation
<1>6. ASSUME NEW c \in Calls, CommitRevocation(c)
      PROVE  /\ next_id' = next_id /\ DOMAIN rows' = DOMAIN rows
             /\ \A t \in DOMAIN rows : /\ rows'[t].parent = rows[t].parent
                                       /\ rows[t].revoked => rows'[t].revoked
  BY <1>1, <1>6 DEF CommitRevocation, Revoked, Rows
<1>7. CASE \E c \in Calls : InsertSuccessor(c) \/ CommitRotation(c) \/ CommitRevocation(c)
  BY <1>1, <1>4, <1>5, <1>6, <1>7
<1> QED
  BY <1>2, <1>3, <1>7 DEF TokensNext, TokensFinished, tokenVars, Run, Expire, TakeToken,
       SelectToken, SelectLogout, ReplaceOld, SelectChain, LockTargets, Rollback

\* So the tokens of a login are, but for new ones, the same after a step.
LEMMA FamilyStays ==
  ASSUME TokensInv, TokensInv', [TokensNext]_tokenVars, NEW t \in DOMAIN rows
  PROVE  /\ Family(t)' \cap DOMAIN rows = Family(t)
         /\ ExchangedOnce(t)' => ExchangedOnce(t)
<1>1. Descending(rows, next_id') /\ Descending(rows', next_id')
  BY RowsGrow DEF TokensInv, TokenTypes, RowInv, Descending
<1>2. \A x \in DOMAIN rows : LoginTable(rows')[x] = LoginTable(rows)[x]
  BY <1>1, RowsGrow, LoginStays
<1>3. \A x : LoginOf(x) = LoginTable(rows)[x] /\ LoginOf(x)' = LoginTable(rows')[x]
  BY DEF LoginOf, LoginTable
<1>4. Family(t)' \cap DOMAIN rows = Family(t)
  BY <1>2, <1>3, RowsGrow DEF Family
<1>5. ASSUME ExchangedOnce(t)' PROVE ExchangedOnce(t)
  <2>1. Family(t) \subseteq Family(t)' /\ Family(t) \subseteq DOMAIN rows
    BY <1>4
  <2> QED
    BY <1>5, <2>1, RowsGrow DEF ExchangedOnce
<1> QED
  BY <1>4, <1>5

\* A solution of the recursive query: what n steps along replaced_by lead to.
IsQuery(g, t) ==
    g = [n \in 0 .. MaxTokens |->
           IF n = 0 THEN {t}
           ELSE g[n - 1] \cup ({rows[x].replaced_by : x \in g[n - 1]} \ {0})]

\* The recursion has a solution: one for n steps extends to n + 1.
LEMMA QueryExists ==
  ASSUME NEW t
  PROVE  \E g : IsQuery(g, t)
<1> DEFINE Further(S) == S \cup ({rows[x].replaced_by : x \in S} \ {0})
           Upto(g, k) == /\ g = [n \in 0 .. MaxTokens |-> g[n]]
                         /\ \A n \in 0 .. MaxTokens :
                              n <= k => g[n] = IF n = 0 THEN {t} ELSE Further(g[n - 1])
           Stuck == {k \in Nat : ~ \E g : Upto(g, k)}
<1> USE TokensAssumption
<1> HIDE DEF Further
<1>1. \A k \in Nat : \E g : Upto(g, k)
  <2> SUFFICES ASSUME Stuck # {} PROVE FALSE
    OBVIOUS
  <2>1. PICK k \in Stuck : \A j \in Stuck : k <= j
    <3>1. Stuck \subseteq Nat
      OBVIOUS
    <3> HIDE DEF Stuck
    <3> QED
      BY <3>1, EarliestToken
  <2>2. k # 0
    <3>1. Upto([n \in 0 .. MaxTokens |-> {t}], 0)
      OBVIOUS
    <3> QED
      BY <2>1, <3>1
  <2>3. PICK g : Upto(g, k - 1)
    <3> HIDE DEF Upto
    <3>1. k - 1 \in Nat /\ ~ (k <= k - 1)
      BY <2>1, <2>2
    <3>2. k - 1 \notin Stuck
      <4> HIDE DEF Stuck
      <4> QED
        BY <2>1, <3>1
    <3> QED
      BY <3>1, <3>2
  <2> DEFINE h == [n \in 0 .. MaxTokens |-> IF n = k THEN Further(g[k - 1]) ELSE g[n]]
  <2>4. ASSUME NEW n \in 0 .. MaxTokens, n <= k
        PROVE  h[n] = IF n = 0 THEN {t} ELSE Further(h[n - 1])
    <3>1. n # 0 => n - 1 \in 0 .. MaxTokens /\ h[n - 1] = g[n - 1]
      BY <2>1, <2>4
    <3>2. n # k => n <= k - 1
      BY <2>1, <2>4
    <3>3. n # k => g[n] = IF n = 0 THEN {t} ELSE Further(g[n - 1])
      BY <2>3, <3>2
    <3> QED
      BY <2>1, <2>2, <3>1, <3>3
  <2>5. h = [n \in 0 .. MaxTokens |-> h[n]]
    OBVIOUS
  <2> HIDE DEF h
  <2>6. Upto(h, k)
    BY <2>4, <2>5
  <2> QED
    BY <2>1, <2>6
<1>2. PICK g : Upto(g, MaxTokens)
  BY <1>1
<1>3. g = [n \in 0 .. MaxTokens |-> IF n = 0 THEN {t} ELSE Further(g[n - 1])]
  <2> DEFINE E(n) == IF n = 0 THEN {t} ELSE Further(g[n - 1])
  <2>1. g = [n \in 0 .. MaxTokens |-> g[n]]
    BY <1>2, Zenon
  <2>2. \A n \in 0 .. MaxTokens : n <= MaxTokens
    OBVIOUS
  <2>3. \A n \in 0 .. MaxTokens : g[n] = E(n)
    BY <1>2, <2>2, Zenon
  <2> HIDE DEF E
  <2>4. g = [n \in 0 .. MaxTokens |-> E(n)]
    BY <2>1, <2>3, Zenon
  <2> QED
    BY <2>4 DEF E
<1> QED
  BY <1>3 DEF IsQuery, Further

\* Chain is what MaxTokens steps of a solution lead to.
LEMMA ChainIsQuery ==
  ASSUME NEW t
  PROVE  \E g : IsQuery(g, t) /\ Chain(t) = g[MaxTokens]
<1> DEFINE g == CHOOSE h : IsQuery(h, t)
<1>1. Chain(t) = g[MaxTokens]
  BY DEF Chain, IsQuery
<1>2. IsQuery(g, t)
  BY QueryExists
<1> HIDE DEF g
<1> QED
  BY <1>1, <1>2

\* From any token of a login, each exchanged at most once, the recursive query reaches the
\* one that is not revoked: as long as it has not, every step leads to a later token of the
\* line, and there are MaxTokens tokens at most.
LEMMA ChainReaches ==
  ASSUME TokensInv, NEW t \in DOMAIN rows, ExchangedOnce(t),
         NEW x \in Family(t), ~ rows[x].revoked
  PROVE  x \in Chain(t)
<1> USE TokensAssumption
<1>1. x \in DOMAIN rows /\ Family(x) = Family(t) /\ ExchangedOnce(x) /\ t \in Family(x)
  BY DEF Family, ExchangedOnce
<1>2. PICK A \in SUBSET DOMAIN rows :
         /\ x \in A /\ Family(x) = A
         /\ \A a \in A \ {x} : \E b \in A : rows[b].parent = a
  BY <1>1, LoginIsLine
<1>3. DOMAIN rows \subseteq 1 .. MaxTokens
  BY DEF TokensInv, TokenTypes
<1>4. ASSUME NEW a \in A \ {x}
      PROVE  /\ rows[a].replaced_by # 0 /\ rows[a].replaced_by \in A
             /\ rows[a].replaced_by > a
  <2>1. PICK b \in A : rows[b].parent = a
    BY <1>2, <1>4
  <2>2. a \in DOMAIN rows /\ a # 0 /\ RowInv(a) /\ RowInv(b)
    BY <1>2, <1>3 DEF TokensInv
  <2> DEFINE r == rows[a].replaced_by
  <2>3. r # 0 /\ r \in DOMAIN rows /\ r > a /\ rows[r].parent = a
    BY <2>1, <2>2 DEF RowInv
  <2>4. LoginOf(r) = LoginOf(a)
    BY <2>2, <2>3, LoginOfIs, LoginTableIs
  <2>5. r \in A
    BY <1>2, <2>3, <2>4 DEF Family
  <2> QED
    BY <2>3, <2>5
<1>5. PICK g : IsQuery(g, t) /\ Chain(t) = g[MaxTokens]
  BY ChainIsQuery
<1>6. /\ g[0] = {t}
      /\ \A n \in 0 .. MaxTokens :
           n # 0 => g[n] = g[n - 1] \cup ({rows[y].replaced_by : y \in g[n - 1]} \ {0})
  <2> DEFINE E(n) == IF n = 0 THEN {t}
                     ELSE g[n - 1] \cup ({rows[y].replaced_by : y \in g[n - 1]} \ {0})
  <2>1. g = [n \in 0 .. MaxTokens |-> E(n)]
    BY <1>5 DEF IsQuery
  <2>2. \A n \in 0 .. MaxTokens : g[n] = E(n)
    <3> HIDE DEF E
    <3> QED
      BY <2>1, Zenon
  <2>3. 0 \in 0 .. MaxTokens
    OBVIOUS
  <2> QED
    BY <2>2, <2>3
<1> DEFINE Reached(n) == \E a \in A : a \in g[n] /\ (a = x \/ a >= t + n)
           Late == {n \in 0 .. MaxTokens : ~ Reached(n)}
<1>7. Late = {}
  <2> SUFFICES ASSUME Late # {} PROVE FALSE
    OBVIOUS
  <2>1. PICK n \in Late : \A m \in Late : n <= m
    <3>1. Late \subseteq Nat
      OBVIOUS
    <3> HIDE DEF Late
    <3> QED
      BY <3>1, EarliestToken
  <2>2. n # 0
    <3>1. t \in A /\ t \in g[0] /\ t >= t + 0
      BY <1>1, <1>2, <1>3, <1>6
    <3>2. Reached(0)
      BY <3>1
    <3> QED
      BY <2>1, <3>2
  <2>3. n - 1 \in 0 .. MaxTokens /\ ~ (n <= n - 1)
    BY <2>1, <2>2
  <2>4. Reached(n - 1)
    <3> HIDE DEF Reached
    <3>1. n - 1 \notin Late
      <4> HIDE DEF Late
      <4> QED
        BY <2>1, <2>3
    <3> QED
      BY <2>3, <3>1
  <2>5. PICK a \in A : a \in g[n - 1] /\ (a = x \/ a >= t + (n - 1))
    BY <2>4
  <2>6. g[n] = g[n - 1] \cup ({rows[y].replaced_by : y \in g[n - 1]} \ {0})
    BY <1>6, <2>1, <2>2
  <2>7. CASE a = x
    BY <2>1, <2>5, <2>6, <2>7
  <2>8. CASE a # x
    <3>1. /\ rows[a].replaced_by \in g[n] /\ rows[a].replaced_by \in A
          /\ rows[a].replaced_by > a
      BY <1>4, <2>5, <2>6, <2>8
    <3>2. a \in Nat /\ rows[a].replaced_by \in Nat /\ t \in Nat /\ n \in Nat
      BY <1>2, <1>3, <2>1, <3>1
    <3>3. rows[a].replaced_by >= t + n
      BY <2>5, <2>8, <3>1, <3>2
    <3> QED
      BY <2>1, <3>1, <3>3
  <2> QED
    BY <2>7, <2>8
<1>8. Reached(MaxTokens)
  BY <1>7
<1> HIDE DEF Late
<1>9. PICK a \in A : a \in g[MaxTokens] /\ (a = x \/ a >= t + MaxTokens)
  BY <1>8
<1>10. a \in 1 .. MaxTokens /\ t \in 1 .. MaxTokens
  BY <1>2, <1>3
<1>11. a = x
  BY <1>9, <1>10
<1> QED
  BY <1>5, <1>9, <1>11

\* Where an action leaves its call.
LEMMA StageAfter ==
  ASSUME TokensInv, NEW c \in Calls
  PROVE  /\ InsertSuccessor(c) => Stage(c)' = "inserted"
         /\ ReplaceOld(c) => Stage(c)' = "replaced"
         /\ CommitRotation(c) => Stage(c)' = "rotated"
         /\ SelectChain(c) => Stage(c)' = "chain"
         /\ LockTargets(c) => Stage(c)' = "revoking"
         /\ Rollback(c) => Stage(c)' = "failed"
         /\ CommitRevocation(c) =>
              Stage(c)' = IF call[c].op = "logout" THEN "logged_out" ELSE "reused"
         /\ \A u : SelectToken(c, u) => Stage(c)' \in {"reuse", "valid", "rejected"}
         /\ \A u : SelectLogout(c, u) => Stage(c)' = "chain" /\ call'[c].op = "logout"
<1>0. DOMAIN call = Calls
  BY DEF TokensInv, TokenTypes
<1>1. InsertSuccessor(c) => Stage(c)' = "inserted"
  BY <1>0 DEF InsertSuccessor, Stage
<1>2. ReplaceOld(c) => Stage(c)' = "replaced"
  BY <1>0 DEF ReplaceOld, Goto, Stage
<1>3. CommitRotation(c) => Stage(c)' = "rotated"
  BY <1>0 DEF CommitRotation, Goto, Stage
<1>4. SelectChain(c) => Stage(c)' = "chain"
  BY <1>0 DEF SelectChain, Stage
<1>5. LockTargets(c) => Stage(c)' = "revoking"
  BY <1>0 DEF LockTargets, Stage
<1>6. Rollback(c) => Stage(c)' = "failed"
  BY <1>0 DEF Rollback, Stage
<1>7. CommitRevocation(c) =>
        Stage(c)' = IF call[c].op = "logout" THEN "logged_out" ELSE "reused"
  BY <1>0 DEF CommitRevocation, Goto, Stage
<1>8. ASSUME NEW u, SelectToken(c, u)
      PROVE  Stage(c)' \in {"reuse", "valid", "rejected"}
  <2>1. Branch(u) \in {"reuse", "valid", "rejected"}
    BY DEF Branch
  <2>2. Stage(c)' = Branch(u)
    BY <1>0, <1>8 DEF SelectToken, NoCall, Stage
  <2> QED
    BY <2>1, <2>2
<1>9. ASSUME NEW u, SelectLogout(c, u)
      PROVE  Stage(c)' = "chain" /\ call'[c].op = "logout"
  BY <1>0, <1>9 DEF SelectLogout, NoCall, Stage
<1> QED
  BY <1>1, <1>2, <1>3, <1>4, <1>5, <1>6, <1>7, <1>8, <1>9

\* A step changes a call only as one of its actions.
LEMMA OwnStep ==
  ASSUME TokensInv, [TokensNext]_tokenVars, NEW c \in Calls, call'[c] # call[c]
  PROVE  \/ Run(c) \/ Rollback(c)
         \/ \E u \in known : SelectToken(c, u) \/ SelectLogout(c, u)
<1>1. DOMAIN call = Calls
  BY DEF TokensInv, TokenTypes
<1>2. ASSUME NEW d \in Calls, d # c,
             \/ Run(d) \/ Rollback(d)
             \/ \E u \in known : SelectToken(d, u) \/ SelectLogout(d, u)
      PROVE  call'[c] = call[c]
  BY <1>1, <1>2 DEF Run, InsertSuccessor, ReplaceOld, CommitRotation, SelectChain, LockTargets,
                    CommitRevocation, Goto, Rollback, SelectToken, SelectLogout
<1>3. (\/ Login \/ (\E u \in DOMAIN rows : Expire(u)) \/ (\E d \in Calls : TakeToken(d))
       \/ UNCHANGED tokenVars) => call' = call
  BY DEF Login, Expire, TakeToken, tokenVars
<1> QED
  BY <1>2, <1>3 DEF TokensNext, TokensFinished

\* The revocations that are under way keep hold of the tokens that they saw.
LEMMA ReuseInvStep ==
  ASSUME TokensInv, TokensInv', ReuseInv, [TokensNext]_tokenVars
  PROVE  ReuseInv'
<1> SUFFICES ASSUME NEW c \in Calls, NEW t,
                    Stage(c)' \in {"chain", "revoking"}, call'[c].op # "logout",
                    t = call'[c].token
             PROVE  /\ call'[c].saw \subseteq DOMAIN rows'
                    /\ ExchangedOnce(t)' =>
                         \A x \in Family(t)' \cap call'[c].saw :
                             x \in call'[c].targets \/ rows'[x].revoked
  BY DEF ReuseInv, Family, ExchangedOnce, LoginOf
<1>1. CASE call'[c] = call[c]
  <2>1. /\ Stage(c) \in {"chain", "revoking"} /\ call[c].op # "logout"
        /\ t \in DOMAIN rows /\ t = call[c].token
    BY <1>1 DEF Stage, TokensInv, CallInv
  <2>2. /\ call[c].saw \subseteq DOMAIN rows
        /\ ExchangedOnce(t) =>
             \A x \in Family(t) \cap call[c].saw : x \in call[c].targets \/ rows[x].revoked
    BY <2>1 DEF ReuseInv
  <2>3. Family(t)' \cap DOMAIN rows = Family(t) /\ (ExchangedOnce(t)' => ExchangedOnce(t))
    BY <2>1, FamilyStays
  <2>4. ASSUME ExchangedOnce(t)', NEW x \in Family(t)' \cap call'[c].saw
        PROVE  x \in call'[c].targets \/ rows'[x].revoked
    BY <1>1, <2>2, <2>3, <2>4, RowsGrow
  <2> QED
    BY <1>1, <2>2, <2>4, RowsGrow
<1>2. CASE SelectChain(c)
  <2>1. /\ rows' = rows /\ t \in DOMAIN rows
        /\ call'[c].saw = DOMAIN rows /\ call'[c].targets = Unrevoked(Chain(t))
    BY <1>2 DEF SelectChain, TokensInv, TokenTypes, CallInv
  <2>2. Family(t)' = Family(t) /\ (ExchangedOnce(t)' <=> ExchangedOnce(t))
    BY <2>1 DEF Family, ExchangedOnce, LoginOf
  <2>3. ASSUME ExchangedOnce(t), NEW x \in Family(t), ~ rows[x].revoked
        PROVE  x \in call'[c].targets
    <3>1. x \in Chain(t)
      BY <2>1, <2>3, ChainReaches
    <3> QED
      BY <2>1, <2>3, <3>1 DEF Unrevoked, Family
  <2> QED
    BY <2>1, <2>2, <2>3
<1>3. CASE LockTargets(c)
  <2>1. /\ rows' = rows /\ t = call[c].token /\ call'[c].saw = call[c].saw
        /\ Stage(c) = "chain" /\ call[c].op # "logout"
        /\ call'[c].targets = Unrevoked(call[c].targets)
    BY <1>3 DEF LockTargets, TokensInv, TokenTypes
  <2>2. Family(t)' = Family(t) /\ (ExchangedOnce(t)' <=> ExchangedOnce(t))
    BY <2>1 DEF Family, ExchangedOnce, LoginOf
  <2>3. /\ call[c].saw \subseteq DOMAIN rows
        /\ ExchangedOnce(t) =>
             \A x \in Family(t) \cap call[c].saw : x \in call[c].targets \/ rows[x].revoked
    BY <2>1 DEF ReuseInv
  <2>4. ASSUME ExchangedOnce(t), NEW x \in Family(t) \cap call[c].saw
        PROVE  x \in call'[c].targets \/ rows[x].revoked
    BY <2>1, <2>3, <2>4 DEF Unrevoked
  <2> QED
    BY <2>1, <2>2, <2>3, <2>4
<1>4. call'[c] = call[c] \/ SelectChain(c) \/ LockTargets(c)
  BY OwnStep, StageAfter DEF Run
<1> QED
  BY <1>1, <1>2, <1>3, <1>4

\* Presenting a replaced token leaves none of the tokens usable that came of its login and
\* that the revocation saw, unless rotations of one token overlapped.
THEOREM ReuseEnds == TokensSpec => ReuseEndsLogin
<1>1. TokensInit => ReuseInv
  BY DEF TokensInit, ReuseInv, Stage, NoCall
<1>2. TokensInv /\ TokensInv' /\ ReuseInv /\ [TokensNext]_tokenVars => ReuseInv'
  BY ReuseInvStep
<1> DEFINE Ends ==
      \A c \in Calls :
         Stage(c) = "revoking" /\ Stage(c)' = "reused" /\ ExchangedOnce(call[c].token) =>
            \A x \in Family(call[c].token) \cap call[c].saw : rows'[x].revoked
<1>3. ASSUME TokensInv, ReuseInv, [TokensNext]_tokenVars PROVE Ends
  <2> SUFFICES ASSUME NEW c \in Calls, Stage(c) = "revoking", Stage(c)' = "reused",
                      ExchangedOnce(call[c].token),
                      NEW x \in Family(call[c].token) \cap call[c].saw
               PROVE  rows'[x].revoked
    OBVIOUS
  <2>1. CommitRevocation(c) /\ call[c].op # "logout"
    <3>1. call'[c] # call[c]
      BY DEF Stage
    <3>2. CommitRevocation(c)
      BY <1>3, <3>1, OwnStep, StageAfter DEF Run, SelectToken, MayOpen
    <3> QED
      BY <1>3, <3>2, StageAfter
  <2>2. x \in call[c].targets \/ rows[x].revoked
    BY <1>3, <2>1 DEF ReuseInv
  <2>3. x \in DOMAIN rows /\ rows[x] \in Rows
    BY <1>3 DEF Family, TokensInv, TokenTypes
  <2>4. rows' = Revoked(call[c].targets)
    BY <2>1 DEF CommitRevocation
  <2> QED
    BY <2>2, <2>3, <2>4 DEF Revoked, Rows
<1>4. TokensInv /\ ReuseInv /\ [TokensNext]_tokenVars => [Ends]_tokenVars
  BY <1>3
<1> QED
  BY <1>1, <1>2, <1>4, TokensInvariant, PTL DEF TokensSpec, ReuseEndsLogin

-----------------------------------------------------------------------------
(* The session: its inductive invariant.                                   *)

TaskStages ==
    {"idle", "logged_in", "sending", "unauthorised", "refreshing", "signing_out",
     "logging_out", "clearing", "done"}

\* The stages of signOut().
SigningOut(t) == task[t].stage \in {"signing_out", "logging_out", "clearing"}

TaskRecords == [stage : TaskStages, access : Nat, refresh : Nat]

SessionTypes ==
    /\ storage \in [access : Nat, refresh : Nat, expires_at : Nat]
    /\ task \in [Tasks -> TaskRecords]
    /\ storage.refresh \in known \cup {0}
    /\ \A t \in Tasks : task[t].refresh \in known \cup {0}
    /\ expired = {}
    /\ known # {} => Tasks # {}

\* A task makes its calls in the order of the code, each with the token it has read.
TaskInv(t) ==
    /\ task[t].stage \in {"logged_in", "refreshing", "logging_out"} => task[t].refresh # 0
    /\ Stage(RefreshCall(t)) # "idle" =>
         /\ task[t].stage \notin {"idle", "logged_in", "sending", "unauthorised"}
         /\ At(t, "refreshing") => call[RefreshCall(t)].token = task[t].refresh
         /\ call[RefreshCall(t)].op = "rotate"
    /\ Stage(LogoutCall(t)) # "idle" =>
         /\ task[t].stage \in {"logging_out", "clearing", "done"}
         /\ At(t, "logging_out") => call[LogoutCall(t)].token = task[t].refresh
         /\ call[LogoutCall(t)].op = "logout"

\* A logout ends with its token revoked; without overlapping tasks no call is a reuse,
\* and none changes another token than its own.
RequestInv(c) ==
    /\ Stage(c) # "idle" => call[c].token \in known /\ call[c].op \in {"rotate", "logout"}
    /\ Stage(c) = "failed" => failed
    /\ call[c].op = "logout" =>
         /\ Stage(c) \in {"chain", "revoking", "logged_out", "failed"}
         /\ Stage(c) \in {"chain", "revoking"} =>
              call[c].token \in call[c].targets \/ rows[call[c].token].revoked
         /\ Stage(c) = "logged_out" => rows[call[c].token].revoked
    /\ ~ overlap =>
         /\ call[c].targets \subseteq {call[c].token}
         /\ call[c].op = "rotate" =>
              Stage(c) \notin {"reuse", "chain", "revoking", "reused", "rejected"}

\* A token that works and that no call has been given.
Spare(x) ==
    /\ x \in DOMAIN rows /\ ~ rows[x].revoked /\ rows[x].replaced_by = 0
    /\ \A c \in Calls : Stage(c) # "idle" => call[c].token # x

\* The stored token works, until the one task that is busy presents it.
StorageFor(t) ==
    storage.refresh # 0 =>
        /\ storage.expires_at # 0
        /\ Spare(storage.refresh) \/ At(t, "refreshing") \/ SigningOut(t)

SerialTask(t) ==
    /\ At(t, "logged_in") => Spare(task[t].refresh)
    /\ At(t, "refreshing") =>
         /\ task[t].refresh = storage.refresh
         /\ Stage(RefreshCall(t)) = "idle" => Spare(task[t].refresh)
    /\ At(t, "logging_out") => task[t].refresh = storage.refresh

\* Without a failure, only a sign-out or the cap ends a session; the stored token is the
\* only one that works, and a session is removed when its token no longer does.
AloneTask(t) ==
    /\ SigningOut(t) /\ t \notin SignOuts => storage.refresh = 0 \/ PastCap
    /\ \A x \in known \ left :
         Usable(x) => x = storage.refresh \/ (At(t, "logged_in") /\ task[t].refresh = x)
    /\ At(t, "clearing") /\ storage.refresh # 0 => ~ Usable(storage.refresh)

\* The task that runs, if one does.
Runs(t) == t \in Busy \/ Busy = {}

SerialInv ==
    ~ overlap =>
        /\ \A t, u \in Busy : t = u
        /\ \A x \in DOMAIN rows \ known : Spare(x)
        /\ \A t \in Tasks : Runs(t) => /\ StorageFor(t) /\ SerialTask(t)
                                       /\ ~ failed => AloneTask(t)

SessionInv ==
    /\ SessionTypes
    /\ \A t \in Tasks : TaskInv(t)
    /\ \A c \in Calls : RequestInv(c)
    /\ SerialInv

-----------------------------------------------------------------------------
(* The server's side.                                                      *)

\* The calls are those of the tasks.
LEMMA CallsAre ==
  /\ \A t \in Tasks : RefreshCall(t) \in Calls /\ LogoutCall(t) \in Calls
  /\ \A c \in Calls : \E t \in Tasks : c = RefreshCall(t) \/ c = LogoutCall(t)
  /\ \A t, u \in Tasks : RefreshCall(t) # LogoutCall(u)
  /\ \A t, u \in Tasks : RefreshCall(t) = RefreshCall(u) => t = u
  /\ \A t, u \in Tasks : LogoutCall(t) = LogoutCall(u) => t = u
BY SessionAssumption DEF RefreshCall, LogoutCall

\* A browser without a session, before the first task.
LEMMA SessionInvInit == Init => SessionInv
<1> SUFFICES ASSUME Init PROVE SessionInv
  OBVIOUS
<1>1. \A c \in Calls : Stage(c) = "idle" /\ call[c].op = "none" /\ call[c].targets = {}
  BY DEF Init, TokensInit, Stage, NoCall
<1>2. \A t \in Tasks : task[t] = [stage |-> "idle", access |-> 0, refresh |-> 0]
  BY DEF Init
<1>3. SessionTypes
  BY DEF Init, TokensInit, SessionTypes, NoSession, TaskRecords, TaskStages
<1>4. \A t \in Tasks : TaskInv(t)
  BY <1>1, <1>2, CallsAre DEF TaskInv
<1>5. \A c \in Calls : RequestInv(c)
  BY <1>1 DEF RequestInv
<1>6. SerialInv
  <2>1. \A t \in Tasks : t \notin Busy
    BY <1>2 DEF Busy, At
  <2>2. DOMAIN rows = {} /\ known = {} /\ storage.refresh = 0
    BY DEF Init, TokensInit, NoSession
  <2>3. ASSUME NEW t \in Tasks PROVE StorageFor(t) /\ SerialTask(t) /\ AloneTask(t)
    BY <1>2, <2>2 DEF StorageFor, SerialTask, AloneTask, At, SigningOut
  <2>4. Busy \subseteq Tasks
    BY DEF Busy
  <2> QED
    BY <2>1, <2>2, <2>3, <2>4 DEF SerialInv
<1> QED
  BY <1>3, <1>4, <1>5, <1>6 DEF SessionInv

\* What every step of the browser or the server does to the tokens, the token store
\* allows: a task only presents a token that the browser was given.
LEMMA SessionOfTokens ==
  ASSUME SessionInv, [Next]_vars
  PROVE  [TokensNext]_tokenVars
<1>1. CASE UNCHANGED vars
  BY <1>1 DEF vars, tokenVars
<1>2. ASSUME NEW t \in Tasks, Continue(t) PROVE [TokensNext]_tokenVars
  <2>1. CASE PostRefresh(t)
    <3>1. task[t].refresh \in known
      BY <2>1 DEF PostRefresh, SessionInv, SessionTypes, TaskInv, At
    <3> QED
      BY <2>1, <3>1, CallsAre DEF PostRefresh, TokensNext
  <2>2. CASE PostLogout(t)
    <3>1. task[t].refresh \in known
      BY <2>2 DEF PostLogout, SessionInv, SessionTypes, TaskInv, At
    <3> QED
      BY <2>2, <3>1, CallsAre DEF PostLogout, TokensNext
  <2>3. CASE StoreTokens(t)
    BY <2>3, CallsAre DEF StoreTokens, TokensNext
  <2>4. CASE \/ StoreLogin(t) \/ Response(t) \/ ReadSession(t) \/ RefreshFails(t)
             \/ ReadRefreshToken(t) \/ LogoutEnds(t) \/ Clear(t)
    BY <2>4 DEF StoreLogin, Response, ReadSession, RefreshFails, ReadRefreshToken, LogoutEnds, Clear
  <2> QED
    BY <1>2, <2>1, <2>2, <2>3, <2>4 DEF Continue
<1>3. ASSUME NEW t \in Tasks, LogIn(t) PROVE [TokensNext]_tokenVars
  BY <1>3 DEF LogIn, TokensNext
<1>4. ASSUME NEW t \in Tasks, Click(t) \/ ClickSignOut(t) \/ View(t) \/ NoAnswer(t)
      PROVE  [TokensNext]_tokenVars
  BY <1>4 DEF Click, ClickSignOut, View, NoAnswer
<1>5. ASSUME NEW c \in Calls, Serve(c) \/ ServerFails(c) PROVE [TokensNext]_tokenVars
  BY <1>5 DEF Serve, ServerFails, TokensNext
<1>6. CASE (\E t \in InUse : AccessExpires(t)) \/ CapPasses
  BY <1>6 DEF AccessExpires, CapPasses
<1>7. CASE Finished
  BY <1>7 DEF Finished, vars, tokenVars
<1> QED
  BY <1>1, <1>2, <1>3, <1>4, <1>5, <1>6, <1>7 DEF Next

\* What TokensInv and SessionInv say of a call.
LEMMA CallFacts ==
  ASSUME TokensInv, SessionInv, NEW c \in Calls
  PROVE  /\ RequestInv(c) /\ CallInv(c) /\ call[c] \in CallRecords /\ DOMAIN call = Calls
         /\ known \subseteq DOMAIN rows /\ DOMAIN rows \subseteq 1 .. next_id
         /\ 0 \notin known /\ next_id \in Nat
         /\ Stage(c) # "idle" => /\ call[c].token \in known
                                 /\ call[c].token \in DOMAIN rows /\ call[c].token # 0
BY DEF TokensInv, TokenTypes, SessionInv, RequestInv

\* A step of the server moves one call on.
LEMMA ServerMoves ==
  ASSUME TokensInv, SessionInv, NEW c \in Calls, Run(c) \/ Rollback(c)
  PROVE  /\ \A d \in Calls \ {c} : call'[d] = call[d] /\ Stage(d)' = Stage(d)
         /\ call'[c].token = call[c].token /\ call'[c].op = call[c].op
         /\ Stage(c) # "idle" /\ Stage(c)' # "idle"
         /\ known' = known /\ expired' = expired
<1> USE CallFacts DEF Stage
<1>1. CASE InsertSuccessor(c)
  BY <1>1 DEF InsertSuccessor, CallRecords
<1>2. CASE ReplaceOld(c) \/ CommitRotation(c)
  BY <1>2 DEF ReplaceOld, CommitRotation, Goto, CallRecords
<1>3. CASE SelectChain(c) \/ LockTargets(c)
  BY <1>3 DEF SelectChain, LockTargets, CallRecords
<1>4. CASE CommitRevocation(c)
  BY <1>4 DEF CommitRevocation, Goto, CallRecords
<1>5. CASE Rollback(c)
  BY <1>5 DEF Rollback, Open, CallRecords
<1> QED
  BY <1>1, <1>2, <1>3, <1>4, <1>5 DEF Run

\* Without overlapping tasks it changes no row but that of the call's token; a row that
\* it adds works.
LEMMA ServerRows ==
  ASSUME TokensInv, SessionInv, ~ overlap, NEW c \in Calls, Run(c) \/ Rollback(c)
  PROVE  /\ \A x \in DOMAIN rows : /\ x \in DOMAIN rows'
                                   /\ x # call[c].token => rows'[x] = rows[x]
         /\ \A x \in DOMAIN rows' \ DOMAIN rows :
              ~ rows'[x].revoked /\ rows'[x].replaced_by = 0
<1>1. CASE CommitRotation(c)
  <2> DEFINE old == call[c].token
             new == call[c].new
  <2>1. /\ old \in DOMAIN rows /\ new \notin DOMAIN rows
        /\ rows' = WithRow([rows EXCEPT ![old] = Replaced(@, new)], new, NewRow(old))
    BY <1>1, CallFacts DEF CommitRotation, Exchanged, Goto, CallInv
  <2> HIDE DEF old, new
  <2>2. /\ DOMAIN rows' = DOMAIN rows \cup {new}
        /\ rows'[new] = NewRow(old)
        /\ \A x \in DOMAIN rows : x # old => rows'[x] = rows[x]
    BY <2>1 DEF WithRow
  <2> QED
    BY <2>2 DEF NewRow, old, new
<1>2. CASE CommitRevocation(c)
  <2>1. RequestInv(c) /\ Stage(c) = "revoking"
    BY <1>2, CallFacts DEF CommitRevocation, Goto
  <2>2. call[c].targets \subseteq {call[c].token}
    BY <2>1 DEF RequestInv
  <2>3. rows' = Revoked(call[c].targets)
    BY <1>2 DEF CommitRevocation
  <2> QED
    BY <2>2, <2>3 DEF Revoked
<1>3. CASE InsertSuccessor(c) \/ ReplaceOld(c) \/ SelectChain(c) \/ LockTargets(c) \/ Rollback(c)
  BY <1>3 DEF InsertSuccessor, ReplaceOld, SelectChain, LockTargets, Rollback
<1> QED
  BY <1>1, <1>2, <1>3 DEF Run

\* So it keeps what other calls rely on.
LEMMA SpareKept ==
  ASSUME TokensInv, SessionInv, ~ overlap, NEW c \in Calls, Run(c) \/ Rollback(c)
  PROVE  /\ \A x : Spare(x) => Spare(x)'
         /\ \A x \in DOMAIN rows' \ known : Spare(x)'
<1>1. ASSUME NEW x, Spare(x) PROVE Spare(x)'
  <2>1. x # call[c].token /\ x \in DOMAIN rows
    BY <1>1, ServerMoves DEF Spare
  <2>2. x \in DOMAIN rows' /\ rows'[x] = rows[x]
    BY <2>1, ServerRows
  <2> QED
    BY <1>1, <2>1, <2>2, ServerMoves DEF Spare
<1>2. ASSUME NEW x \in DOMAIN rows' \ known PROVE Spare(x)'
  <2>1. CASE x \in DOMAIN rows
    BY <1>1, <1>2, <2>1 DEF SessionInv, SerialInv
  <2>2. CASE x \notin DOMAIN rows
    <3>1. ~ rows'[x].revoked /\ rows'[x].replaced_by = 0
      BY <1>2, <2>2, ServerRows
    <3>2. \A d \in Calls : Stage(d)' # "idle" => call'[d].token \in known
      BY ServerMoves, CallFacts
    <3> QED
      BY <1>2, <3>1, <3>2 DEF Spare
  <2> QED
    BY <2>1, <2>2
<1> QED
  BY <1>1, <1>2

\* A logout leaves its token revoked.
LEMMA RequestMoves ==
  ASSUME TokensInv, SessionInv, NEW c \in Calls, UNCHANGED <<overlap, left>>,
         \/ Run(c) /\ failed' = failed
         \/ Rollback(c) /\ failed' = TRUE
  PROVE  RequestInv(c)'
<1>1. /\ RequestInv(c) /\ call[c] \in CallRecords /\ DOMAIN call = Calls
      /\ call[c].token \in known /\ call[c].token \in DOMAIN rows
      /\ call'[c].token = call[c].token /\ call'[c].op = call[c].op
      /\ known' = known
  BY CallFacts, ServerMoves
<1>2. rows[call[c].token].revoked => rows'[call[c].token].revoked
  <2>1. [TokensNext]_tokenVars
    BY DEF TokensNext
  <2> QED
    BY <1>1, <2>1, RowsGrow
<1> USE <1>1 DEF Stage
<1>3. CASE InsertSuccessor(c) /\ failed' = failed
  BY <1>3 DEF InsertSuccessor, RequestInv, CallRecords
<1>4. CASE (ReplaceOld(c) \/ CommitRotation(c)) /\ failed' = failed
  BY <1>4 DEF ReplaceOld, CommitRotation, Goto, RequestInv, CallRecords
<1>5. CASE SelectChain(c) /\ failed' = failed
  BY <1>5 DEF SelectChain, RequestInv, CallRecords
<1>6. CASE LockTargets(c) /\ failed' = failed
  <2>1. /\ Stage(c) = "chain" /\ call'[c].stage = "revoking" /\ rows' = rows
        /\ call'[c].targets = Unrevoked(call[c].targets)
    BY <1>6 DEF LockTargets, CallRecords
  <2>2. /\ call'[c].targets \subseteq call[c].targets
        /\ call[c].token \in call[c].targets /\ ~ rows[call[c].token].revoked =>
             call[c].token \in call'[c].targets
    BY <2>1 DEF Unrevoked
  <2> QED
    BY <1>6, <2>1, <2>2 DEF RequestInv
<1>7. CASE CommitRevocation(c) /\ failed' = failed
  <2>1. /\ Stage(c) = "revoking" /\ call'[c].targets = call[c].targets
        /\ call'[c].stage = IF call[c].op = "logout" THEN "logged_out" ELSE "reused"
        /\ rows' = Revoked(call[c].targets)
    BY <1>7 DEF CommitRevocation, Goto, CallRecords
  <2>2. call[c].token \in call[c].targets => rows'[call[c].token].revoked
    <3>1. rows[call[c].token] \in Rows
      BY DEF TokensInv, TokenTypes
    <3> QED
      BY <2>1, <3>1 DEF Revoked, Rows
  <2> QED
    BY <1>2, <1>7, <2>1, <2>2 DEF RequestInv
<1>8. CASE Rollback(c) /\ failed' = TRUE
  BY <1>8 DEF Rollback, Open, RequestInv, CallRecords
<1> QED
  BY <1>3, <1>4, <1>5, <1>6, <1>7, <1>8 DEF Run

\* What a call says stays true as rows are only ever revoked.
LEMMA RequestKept ==
  ASSUME TokensInv, SessionInv, [TokensNext]_tokenVars, NEW c \in Calls, call'[c] = call[c],
         known \subseteq known', failed => failed', overlap => overlap'
  PROVE  RequestInv(c)'
<1>1. RequestInv(c) /\ (Stage(c) # "idle" => call[c].token \in DOMAIN rows)
  BY CallFacts
<1>2. \A t \in DOMAIN rows : rows[t].revoked => rows'[t].revoked
  BY RowsGrow
<1>3. Stage(c)' = Stage(c)
  BY DEF Stage
<1> QED
  BY <1>1, <1>2, <1>3 DEF RequestInv

\* The server works for the tasks without touching what only the browser knows.
LEMMA ServerStep ==
  ASSUME TokensInv, SessionInv, NEW c \in Calls, Serve(c) \/ ServerFails(c)
  PROVE  SessionInv'
<1>1. /\ Run(c) \/ Rollback(c)
      /\ UNCHANGED <<storage, stale, past_cap, task, overlap, left>>
      /\ \/ Run(c) /\ failed' = failed
         \/ Rollback(c) /\ failed' = TRUE
  BY DEF Serve, ServerFails, clientVars, history
<1>2. [TokensNext]_tokenVars
  BY <1>1 DEF TokensNext
<1>3. /\ \A d \in Calls \ {c} : call'[d] = call[d] /\ Stage(d)' = Stage(d)
      /\ call'[c].token = call[c].token /\ call'[c].op = call[c].op
      /\ Stage(c) # "idle" /\ Stage(c)' # "idle"
      /\ known' = known /\ expired' = expired
  BY <1>1, ServerMoves
<1>4. SessionTypes'
  BY <1>1, <1>3 DEF SessionInv, SessionTypes
<1>5. ASSUME NEW t \in Tasks PROVE TaskInv(t)'
  <2>1. RefreshCall(t) \in Calls /\ LogoutCall(t) \in Calls /\ TaskInv(t)
    BY CallsAre DEF SessionInv
  <2>2. \A d \in {RefreshCall(t), LogoutCall(t)} :
          /\ call'[d].token = call[d].token /\ call'[d].op = call[d].op
          /\ Stage(d)' # "idle" => Stage(d) # "idle"
    BY <1>3, <2>1
  <2> QED
    BY <1>1, <2>1, <2>2 DEF TaskInv, At, RefreshCall, LogoutCall
<1>6. ASSUME NEW d \in Calls PROVE RequestInv(d)'
  <2>1. CASE d = c
    BY <1>1, <2>1, RequestMoves
  <2>2. CASE d # c
    BY <1>1, <1>2, <1>3, <2>2, RequestKept
  <2> QED
    BY <2>1, <2>2
<1>7. ASSUME ~ overlap PROVE SerialInv'
  <2>1. /\ \A x : Spare(x) => Spare(x)'
        /\ \A x \in DOMAIN rows' \ known : Spare(x)'
    BY <1>1, <1>7, SpareKept
  <2>2. \A t : /\ At(t, "refreshing")' <=> At(t, "refreshing")
               /\ At(t, "logging_out")' <=> At(t, "logging_out")
               /\ At(t, "logged_in")' <=> At(t, "logged_in")
               /\ At(t, "clearing")' <=> At(t, "clearing")
               /\ SigningOut(t)' <=> SigningOut(t)
    BY <1>1 DEF At, SigningOut
  <2>3. Busy' = Busy /\ (PastCap' <=> PastCap)
    BY <1>1 DEF Busy, At, PastCap
  <2>4. \A x \in known : Usable(x)' => Usable(x)
    BY <1>2, <1>3, RowsGrow, CallFacts DEF Usable
  <2>5. ASSUME NEW t \in Tasks, Runs(t)' PROVE StorageFor(t)' /\ SerialTask(t)'
    <3>1. StorageFor(t) /\ SerialTask(t)
      BY <1>7, <2>3, <2>5 DEF SessionInv, SerialInv, Runs
    <3>2. StorageFor(t)'
      BY <1>1, <2>1, <2>2, <3>1 DEF StorageFor
    <3>3. Stage(RefreshCall(t))' = "idle" => Stage(RefreshCall(t)) = "idle"
      BY <1>3, CallsAre
    <3>4. SerialTask(t)'
      BY <1>1, <2>1, <2>2, <3>1, <3>3 DEF SerialTask, RefreshCall
    <3> QED
      BY <3>2, <3>4
  <2>6. ASSUME NEW t \in Tasks, Runs(t)', ~ failed' PROVE AloneTask(t)'
    <3>1. AloneTask(t)
      BY <1>1, <1>7, <2>3, <2>6 DEF SessionInv, SerialInv, Runs
    <3>2. storage.refresh \in known \cup {0}
      BY DEF SessionInv, SessionTypes
    <3>3. storage' = storage /\ left' = left /\ known' = known /\ task' = task
      BY <1>1, <1>3
    <3>4. SigningOut(t)' /\ t \notin SignOuts => (storage.refresh = 0 \/ PastCap)'
      BY <2>2, <2>3, <3>1, <3>3 DEF AloneTask
    <3>5. ASSUME NEW x \in known \ left, Usable(x)'
          PROVE  x = storage.refresh \/ (At(t, "logged_in")' /\ task[t].refresh = x)
      BY <2>2, <2>4, <3>1, <3>5 DEF AloneTask
    <3>6. At(t, "clearing")' /\ storage.refresh # 0 => ~ Usable(storage.refresh)'
      BY <2>2, <2>4, <3>1, <3>2, <3>3 DEF AloneTask
    <3> QED
      BY <3>3, <3>4, <3>5, <3>6 DEF AloneTask
  <2> QED
    BY <1>3, <1>7, <2>1, <2>3, <2>5, <2>6 DEF SessionInv, SerialInv
<1> QED
  BY <1>1, <1>4, <1>5, <1>6, <1>7 DEF SessionInv, SerialInv

-----------------------------------------------------------------------------
(* The browser's side.                                                     *)

\* Without overlapping tasks, all others are idle or done while one runs.
LEMMA OthersRest ==
  ASSUME SessionInv, ~ overlap, NEW t \in Tasks, Runs(t)
  PROVE  /\ StorageFor(t) /\ SerialTask(t)
         /\ ~ failed => AloneTask(t)
         /\ \A u \in Tasks \ {t} : u \notin Busy
         /\ \A x \in DOMAIN rows \ known : Spare(x)
BY DEF SessionInv, SerialInv, Runs

\* So the next step is as good as what it leaves to its own task.
LEMMA SerialStep ==
  ASSUME SessionInv, NEW t \in Tasks, overlap => overlap',
         \A u \in Tasks \ {t} : task'[u] = task[u],
         ~ overlap' => Runs(t),
         ~ overlap' => \A x \in DOMAIN rows' \ known' : Spare(x)',
         ~ overlap' => StorageFor(t)' /\ SerialTask(t)',
         ~ overlap' /\ ~ failed' => AloneTask(t)'
  PROVE  SerialInv'
<1> SUFFICES ASSUME ~ overlap' PROVE SerialInv'
  BY DEF SerialInv
<1>1. \A u \in Tasks \ {t} : u \notin Busy
  BY OthersRest
<1>2. \A u \in Tasks \ {t} : u \notin Busy'
  BY <1>1 DEF Busy, At
<1>3. Busy' \subseteq {t}
  BY <1>2 DEF Busy
<1>4. ASSUME NEW u \in Tasks, Runs(u)', u # t
      PROVE  /\ StorageFor(u)' /\ SerialTask(u)'
             /\ ~ failed' => AloneTask(u)'
  <2>1. Busy' = {}
    BY <1>2, <1>3, <1>4 DEF Runs
  <2>2. \A w \in Tasks : task'[w].stage \in {"idle", "done"}
    BY <2>1 DEF Busy, At
  <2>3. SerialTask(u)'
    BY <2>2 DEF SerialTask, At
  <2>4. StorageFor(u)'
    BY <2>2 DEF StorageFor, At, SigningOut
  <2>5. ASSUME ~ failed' PROVE AloneTask(u)'
    BY <2>2, <2>5 DEF AloneTask, At, SigningOut
  <2> QED
    BY <2>3, <2>4, <2>5
<1> QED
  BY <1>3, <1>4 DEF SerialInv

\* A step of one task that leaves the token store alone.
LEMMA ClientStep ==
  ASSUME TokensInv, SessionInv, NEW t \in Tasks, UNCHANGED tokenVars,
         storage' \in [access : Nat, refresh : Nat, expires_at : Nat],
         storage'.refresh \in known \cup {0},
         task' \in [Tasks -> TaskRecords], \A u \in Tasks \ {t} : task'[u] = task[u],
         task'[t].refresh \in known \cup {0},
         TaskInv(t)', failed => failed', overlap => overlap',
         ~ overlap' => Runs(t),
         ~ overlap' => StorageFor(t)' /\ SerialTask(t)',
         ~ overlap' /\ ~ failed' => AloneTask(t)'
  PROVE  SessionInv'
<1>1. UNCHANGED <<rows, expired, next_id, known, call>>
  BY DEF tokenVars
<1>2. SessionTypes'
  BY <1>1 DEF SessionInv, SessionTypes
<1>3. ASSUME NEW u \in Tasks PROVE TaskInv(u)'
  <2>1. CASE u # t
    <3>1. task'[u] = task[u] /\ TaskInv(u)
      BY <2>1 DEF SessionInv
    <3> QED
      BY <1>1, <3>1 DEF TaskInv, At, Stage, RefreshCall, LogoutCall
  <2> QED
    BY <2>1
<1>4. ASSUME NEW c \in Calls PROVE RequestInv(c)'
  BY <1>1, RequestKept
<1>5. ~ overlap' => \A x \in DOMAIN rows' \ known' : Spare(x)'
  BY <1>1, OthersRest DEF Spare, Stage
<1>6. SerialInv'
  BY <1>5, SerialStep
<1> QED
  BY <1>2, <1>3, <1>4, <1>6 DEF SessionInv

\* What a step that leaves the token store alone leaves true of it.
LEMMA StoreStays ==
  ASSUME UNCHANGED tokenVars
  PROVE  /\ \A x : (Spare(x)' <=> Spare(x)) /\ (Usable(x)' <=> Usable(x))
         /\ \A c : Stage(c)' = Stage(c) /\ call'[c] = call[c]
         /\ known' = known /\ rows' = rows
BY DEF tokenVars, Spare, Usable, Stage

\* A task that starts finds the others at rest, or overlaps.
LEMMA TaskStarts ==
  ASSUME TokensInv, SessionInv, NEW t \in Tasks, Starts(t)
  PROVE  /\ At(t, "idle") /\ failed' = failed /\ left' = left
         /\ overlap => overlap'
         /\ ~ overlap' => /\ Busy = {} /\ Runs(t)
                          /\ storage.refresh # 0 =>
                               storage.expires_at # 0 /\ Spare(storage.refresh)
                          /\ ~ failed => \A x \in known \ left :
                                           Usable(x) => x = storage.refresh
<1>1. /\ At(t, "idle") /\ failed' = failed /\ left' = left
      /\ overlap' = (overlap \/ Busy # {})
  BY DEF Starts
<1>2. ASSUME ~ overlap'
      PROVE  /\ storage.refresh # 0 => storage.expires_at # 0 /\ Spare(storage.refresh)
             /\ ~ failed => \A x \in known \ left : Usable(x) => x = storage.refresh
  <2>1. ~ overlap /\ Runs(t)
    BY <1>1, <1>2 DEF Runs
  <2>2. StorageFor(t) /\ (~ failed => AloneTask(t))
    BY <2>1, OthersRest
  <2> QED
    BY <1>1, <2>2 DEF StorageFor, AloneTask, At, SigningOut
<1> QED
  BY <1>1, <1>2 DEF Runs

\* What is known of a task that has started.
LEMMA TaskFacts ==
  ASSUME TokensInv, SessionInv, NEW t \in Tasks
  PROVE  /\ TaskInv(t) /\ task[t] \in TaskRecords /\ DOMAIN task = Tasks
         /\ task[t].refresh \in known \cup {0}
         /\ storage \in [access : Nat, refresh : Nat, expires_at : Nat]
         /\ storage.refresh \in known \cup {0} /\ 0 \notin known
         /\ expired = {}
         /\ task[t].stage \notin {"idle", "done"} => t \in Busy /\ Runs(t)
BY DEF SessionInv, SessionTypes, Busy, At, Runs, TokensInv, TokenTypes

\* A click reads the access token; a view looks at the age of the session; a click on
\* "sign out" begins to.
LEMMA StartStep ==
  ASSUME TokensInv, SessionInv, NEW t \in Tasks, Click(t) \/ ClickSignOut(t) \/ View(t)
  PROVE  SessionInv'
<1>1. Starts(t) /\ UNCHANGED <<tokenVars, storage, stale, past_cap>>
  BY DEF Click, ClickSignOut, View
<1>2. PICK to \in {"done", "sending", "signing_out"} :
        /\ task' \in [Tasks -> TaskRecords] /\ \A u \in Tasks \ {t} : task'[u] = task[u]
        /\ task'[t].stage = to /\ task'[t].refresh = task[t].refresh
        /\ to = "signing_out" => t \in SignOuts \/ PastCap
  <2>1. CASE Click(t)
    BY <2>1, TaskFacts DEF Click, TaskRecords, TaskStages, SessionInv, SessionTypes
  <2>2. CASE ClickSignOut(t)
    BY <2>2, TaskFacts DEF ClickSignOut, Move, TaskRecords, TaskStages, SessionInv, SessionTypes
  <2>3. CASE View(t)
    BY <2>3, TaskFacts DEF View, Move, TaskRecords, TaskStages, SessionInv, SessionTypes
  <2> QED
    BY <2>1, <2>2, <2>3
<1>3. TaskInv(t)'
  BY <1>1, <1>2, TaskFacts, TaskStarts, StoreStays DEF TaskInv, At
<1>4. ~ overlap' => StorageFor(t)' /\ SerialTask(t)'
  BY <1>1, <1>2, TaskStarts, StoreStays DEF StorageFor, SerialTask, At
<1>5. ~ overlap' /\ ~ failed' => AloneTask(t)'
  BY <1>1, <1>2, TaskStarts, StoreStays DEF AloneTask, At, SigningOut, PastCap
<1> QED
  BY <1>1, <1>2, <1>3, <1>4, <1>5, TaskFacts, TaskStarts, ClientStep

\* A step of a running task that writes no storage and moves its clock alone.
LEMMA GoOnTask ==
  ASSUME TokensInv, SessionInv, NEW t \in Tasks, UNCHANGED <<tokenVars, storage, past_cap, overlap, left>>,
         t \in Busy, failed => failed',
         task' \in [Tasks -> TaskRecords], \A u \in Tasks \ {t} : task'[u] = task[u],
         task'[t].refresh \in known \cup {0},
         TaskInv(t)',
         ~ overlap => StorageFor(t)' /\ SerialTask(t)',
         ~ overlap /\ ~ failed' => AloneTask(t)'
  PROVE  SessionInv'
BY TaskFacts, ClientStep DEF Runs

\* The answer to a scoring request, and the look at the session after a 401.
LEMMA ScoringStep ==
  ASSUME TokensInv, SessionInv, NEW t \in Tasks, Response(t) \/ ReadSession(t)
  PROVE  SessionInv'
<1>1. /\ UNCHANGED <<tokenVars, storage, past_cap, failed, overlap, left>>
      /\ task[t].stage \in {"sending", "unauthorised"}
  BY DEF Response, ReadSession, history, At
<1>2. PICK to \in {"done", "unauthorised", "signing_out", "refreshing"} :
        /\ task' \in [Tasks -> TaskRecords] /\ \A u \in Tasks \ {t} : task'[u] = task[u]
        /\ task'[t].stage = to
        /\ task'[t].refresh \in {task[t].refresh, storage.refresh}
        /\ to = "signing_out" => storage.refresh = 0 \/ PastCap
        /\ to = "refreshing" => storage.refresh # 0 /\ task'[t].refresh = storage.refresh
  <2>1. CASE Response(t)
    BY <2>1, TaskFacts DEF Response, Move, TaskRecords, TaskStages, SessionInv, SessionTypes
  <2>2. CASE ReadSession(t)
    BY <2>2, TaskFacts DEF ReadSession, TaskRecords, TaskStages, SessionInv, SessionTypes
  <2> QED
    BY <2>1, <2>2
<1>3. Stage(RefreshCall(t)) = "idle" /\ Stage(LogoutCall(t)) = "idle"
  BY <1>1, TaskFacts DEF TaskInv
<1>4. TaskInv(t)'
  BY <1>1, <1>2, <1>3, StoreStays DEF TaskInv, At, RefreshCall, LogoutCall
<1>5. t \in Busy /\ Runs(t)
  BY <1>1, TaskFacts
<1>6. ~ overlap => StorageFor(t)' /\ SerialTask(t)'
  <2>1. ~ overlap /\ storage.refresh # 0 => storage.expires_at # 0 /\ Spare(storage.refresh)
    BY <1>1, <1>5, OthersRest DEF StorageFor, At, SigningOut
  <2> QED
    BY <1>1, <1>2, <2>1, StoreStays DEF StorageFor, SerialTask, At
<1>7. ~ overlap /\ ~ failed' => AloneTask(t)'
  <2>1. ~ overlap /\ ~ failed => \A x \in known \ left : Usable(x) => x = storage.refresh
    BY <1>1, <1>5, OthersRest DEF AloneTask, At
  <2> QED
    BY <1>1, <1>2, <2>1, StoreStays DEF AloneTask, At, SigningOut, PastCap
<1> QED
  BY <1>1, <1>2, <1>4, <1>5, <1>6, <1>7, TaskFacts, GoOnTask

\* A refused refresh begins to sign out: without overlapping tasks, only a failure can
\* have refused it.
LEMMA RefreshFailsStep ==
  ASSUME TokensInv, SessionInv, NEW t \in Tasks, RefreshFails(t)
  PROVE  SessionInv'
<1>1. /\ UNCHANGED <<tokenVars, storage, past_cap, failed, overlap, left>>
      /\ task[t].stage = "refreshing" /\ Stage(RefreshCall(t)) \in Refused
  BY DEF RefreshFails, history, At
<1>2. /\ task' \in [Tasks -> TaskRecords] /\ \A u \in Tasks \ {t} : task'[u] = task[u]
      /\ task'[t].stage = "signing_out" /\ task'[t].refresh = task[t].refresh
  BY TaskFacts DEF RefreshFails, Move, TaskRecords, TaskStages, SessionInv, SessionTypes
<1>3. TaskInv(t)'
  BY <1>1, <1>2, TaskFacts, StoreStays DEF TaskInv, At, RefreshCall, LogoutCall
<1>4. t \in Busy /\ Runs(t)
  BY <1>1, TaskFacts
<1>5. ~ overlap => StorageFor(t)' /\ SerialTask(t)'
  BY <1>1, <1>2, <1>4, OthersRest, StoreStays DEF StorageFor, SerialTask, At, SigningOut
<1>6. ~ overlap => failed
  <2>1. RequestInv(RefreshCall(t)) /\ call[RefreshCall(t)].op = "rotate"
    BY <1>1, CallsAre, TaskFacts DEF SessionInv, TaskInv, Refused
  <2> QED
    BY <1>1, <2>1 DEF RequestInv, Refused
<1> QED
  BY <1>1, <1>2, <1>3, <1>4, <1>5, <1>6, TaskFacts, GoOnTask

\* signOut() reads the refresh token.
LEMMA ReadRefreshTokenStep ==
  ASSUME TokensInv, SessionInv, NEW t \in Tasks, ReadRefreshToken(t)
  PROVE  SessionInv'
<1>1. /\ UNCHANGED <<tokenVars, storage, past_cap, failed, overlap, left>>
      /\ task[t].stage = "signing_out"
  BY DEF ReadRefreshToken, history, At
<1>2. /\ task' \in [Tasks -> TaskRecords] /\ \A u \in Tasks \ {t} : task'[u] = task[u]
      /\ task'[t].stage = IF storage.refresh = 0 THEN "clearing" ELSE "logging_out"
      /\ task'[t].refresh = storage.refresh
  BY TaskFacts DEF ReadRefreshToken, TaskRecords, TaskStages, SessionInv, SessionTypes
<1>3. TaskInv(t)'
  BY <1>1, <1>2, TaskFacts, StoreStays DEF TaskInv, At, RefreshCall, LogoutCall
<1>4. t \in Busy /\ Runs(t)
  BY <1>1, TaskFacts
<1>5. ~ overlap => StorageFor(t)' /\ SerialTask(t)'
  BY <1>1, <1>2, <1>4, OthersRest, StoreStays DEF StorageFor, SerialTask, At, SigningOut
<1>6. ~ overlap /\ ~ failed' => AloneTask(t)'
  BY <1>1, <1>2, <1>4, OthersRest, StoreStays DEF AloneTask, At, SigningOut, PastCap
<1> QED
  BY <1>1, <1>2, <1>3, <1>4, <1>5, <1>6, TaskFacts, GoOnTask

\* A logout that was answered has revoked the token in the storage.
LEMMA LogoutEndsStep ==
  ASSUME TokensInv, SessionInv, NEW t \in Tasks, LogoutEnds(t)
  PROVE  SessionInv'
<1>1. /\ UNCHANGED <<tokenVars, storage, past_cap, failed, overlap, left>>
      /\ task[t].stage = "logging_out" /\ Stage(LogoutCall(t)) \in Over
  BY DEF LogoutEnds, LogoutAwaited, history, At
<1>2. /\ task' \in [Tasks -> TaskRecords] /\ \A u \in Tasks \ {t} : task'[u] = task[u]
      /\ task'[t].stage = "clearing" /\ task'[t].refresh = task[t].refresh
  BY TaskFacts DEF LogoutEnds, Move, TaskRecords, TaskStages, SessionInv, SessionTypes
<1>3. TaskInv(t)'
  BY <1>1, <1>2, TaskFacts, StoreStays DEF TaskInv, At, RefreshCall, LogoutCall
<1>4. t \in Busy /\ Runs(t)
  BY <1>1, TaskFacts
<1>5. ~ overlap => StorageFor(t)' /\ SerialTask(t)'
  BY <1>1, <1>2, <1>4, OthersRest, StoreStays DEF StorageFor, SerialTask, At, SigningOut
<1>6. ~ overlap /\ ~ failed => ~ Usable(storage.refresh)
  <2>1. /\ RequestInv(LogoutCall(t)) /\ call[LogoutCall(t)].op = "logout"
        /\ call[LogoutCall(t)].token = task[t].refresh
    BY <1>1, CallsAre, TaskFacts DEF SessionInv, TaskInv, Over, At
  <2>2. ~ failed => rows[task[t].refresh].revoked
    BY <1>1, <2>1 DEF RequestInv, Over
  <2>3. ~ overlap => task[t].refresh = storage.refresh
    BY <1>1, <1>4, OthersRest DEF SerialTask, At
  <2> QED
    BY <2>2, <2>3 DEF Usable
<1>7. ~ overlap /\ ~ failed' => AloneTask(t)'
  BY <1>1, <1>2, <1>4, <1>6, OthersRest, StoreStays DEF AloneTask, At, SigningOut, PastCap
<1> QED
  BY <1>1, <1>2, <1>3, <1>4, <1>5, <1>7, TaskFacts, GoOnTask

\* A request that is not answered: score() and signIn() are over, refresh() and signOut()
\* go on.
LEMMA NoAnswerStep ==
  ASSUME TokensInv, SessionInv, NEW t \in Tasks, NoAnswer(t)
  PROVE  SessionInv'
<1>1. /\ UNCHANGED <<tokenVars, storage, past_cap, overlap, left>> /\ failed' = TRUE
      /\ task[t].stage \in {"sending", "logged_in", "refreshing", "logging_out"}
  BY DEF NoAnswer, At
<1>2. /\ task' \in [Tasks -> TaskRecords] /\ \A u \in Tasks \ {t} : task'[u] = task[u]
      /\ task'[t].refresh = task[t].refresh
      /\ \/ task[t].stage \in {"sending", "logged_in"} /\ task'[t].stage = "done"
         \/ task[t].stage = "refreshing" /\ task'[t].stage = "signing_out"
         \/ task[t].stage = "logging_out" /\ task'[t].stage = "clearing"
  BY TaskFacts DEF NoAnswer, Move, At, TaskRecords, TaskStages, SessionInv, SessionTypes
<1>3. TaskInv(t)'
  BY <1>1, <1>2, TaskFacts, StoreStays DEF TaskInv, At, RefreshCall, LogoutCall
<1>4. t \in Busy /\ Runs(t)
  BY <1>1, TaskFacts
<1>5. ~ overlap => StorageFor(t)' /\ SerialTask(t)'
  BY <1>1, <1>2, <1>4, OthersRest, StoreStays DEF StorageFor, SerialTask, At, SigningOut
<1> QED
  BY <1>1, <1>2, <1>3, <1>4, <1>5, TaskFacts, GoOnTask

\* The storage is cleared of a session whose token no longer works.
LEMMA ClearStep ==
  ASSUME TokensInv, SessionInv, NEW t \in Tasks, Clear(t)
  PROVE  SessionInv'
<1>1. /\ UNCHANGED <<tokenVars, past_cap, failed, overlap, left>> /\ storage' = NoSession
      /\ task[t].stage = "clearing"
  BY DEF Clear, history, At
<1>2. /\ task' \in [Tasks -> TaskRecords] /\ \A u \in Tasks \ {t} : task'[u] = task[u]
      /\ task'[t].stage = "done" /\ task'[t].refresh = task[t].refresh
  BY TaskFacts DEF Clear, Move, TaskRecords, TaskStages, SessionInv, SessionTypes
<1>3. TaskInv(t)'
  BY <1>1, <1>2, TaskFacts, StoreStays DEF TaskInv, At, RefreshCall, LogoutCall
<1>4. t \in Busy /\ Runs(t)
  BY <1>1, TaskFacts
<1>5. /\ storage' \in [access : Nat, refresh : Nat, expires_at : Nat]
      /\ storage'.refresh = 0
  BY <1>1 DEF NoSession
<1>6. ~ overlap => StorageFor(t)' /\ SerialTask(t)'
  BY <1>2, <1>5 DEF StorageFor, SerialTask, At
<1>7. ~ overlap /\ ~ failed' => AloneTask(t)'
  <2>1. ~ overlap /\ ~ failed => \A x \in known \ left : Usable(x) => x = storage.refresh
    BY <1>1, <1>4, OthersRest DEF AloneTask, At
  <2>2. ~ overlap /\ ~ failed /\ storage.refresh # 0 => ~ Usable(storage.refresh)
    BY <1>1, <1>4, OthersRest DEF AloneTask, At
  <2>3. ~ overlap /\ ~ failed => \A x \in known \ left : ~ Usable(x)
    BY <2>1, <2>2, TaskFacts
  <2> QED
    BY <1>1, <1>2, <1>5, <2>3, StoreStays DEF AloneTask, At, SigningOut
<1> QED
  BY <1>1, <1>2, <1>3, <1>4, <1>5, <1>6, <1>7, TaskFacts, ClientStep

\* A sign-in stores its tokens, over those of another session maybe.
LEMMA StoreLoginStep ==
  ASSUME TokensInv, SessionInv, NEW t \in Tasks, StoreLogin(t)
  PROVE  SessionInv'
<1> DEFINE x == task[t].refresh
<1>1. /\ UNCHANGED <<tokenVars, past_cap, failed, overlap>>
      /\ task[t].stage = "logged_in"
      /\ storage' = [access |-> x, refresh |-> x, expires_at |-> x]
      /\ left' = left \cup {storage.refresh}
  BY DEF StoreLogin, At
<1>2. /\ task' \in [Tasks -> TaskRecords] /\ \A u \in Tasks \ {t} : task'[u] = task[u]
      /\ task'[t].stage = "done" /\ task'[t].refresh = x
  BY TaskFacts DEF StoreLogin, Move, TaskRecords, TaskStages, SessionInv, SessionTypes
<1>3. TaskInv(t)'
  BY <1>1, <1>2, TaskFacts, StoreStays DEF TaskInv, At, RefreshCall, LogoutCall
<1>4. t \in Busy /\ Runs(t)
  BY <1>1, TaskFacts
<1>5. x \in Nat /\ x # 0 /\ x \in known
  BY <1>1, TaskFacts DEF TaskInv, TaskRecords
<1>6. /\ storage' \in [access : Nat, refresh : Nat, expires_at : Nat]
      /\ storage'.refresh = x /\ storage'.expires_at = x
  BY <1>1, <1>5
<1>7. ~ overlap => Spare(x)
  BY <1>1, <1>4, OthersRest DEF SerialTask, At
<1> HIDE DEF x
<1>8. ~ overlap => StorageFor(t)' /\ SerialTask(t)'
  BY <1>1, <1>2, <1>5, <1>6, <1>7, StoreStays DEF StorageFor, SerialTask, At
<1>9. ~ overlap /\ ~ failed' => AloneTask(t)'
  <2>1. ~ overlap /\ ~ failed =>
          \A y \in known \ left' : Usable(y) => y = x
    BY <1>1, <1>4, OthersRest DEF AloneTask, At, x
  <2> QED
    BY <1>1, <1>2, <1>6, <2>1, StoreStays DEF AloneTask, At, SigningOut
<1> QED
  BY <1>1, <1>2, <1>3, <1>4, <1>5, <1>6, <1>8, <1>9, TaskFacts, ClientStep

\* Time passes: access tokens expire, and the session reaches its cap.
LEMMA ClockStep ==
  ASSUME TokensInv, SessionInv, (\E x \in InUse : AccessExpires(x)) \/ CapPasses
  PROVE  SessionInv'
<1>1. /\ UNCHANGED <<tokenVars, storage, task, failed, overlap, left>>
      /\ past_cap \subseteq past_cap'
  BY DEF AccessExpires, CapPasses, history
<1>2. UNCHANGED <<rows, expired, next_id, known, call>>
  BY <1>1 DEF tokenVars
<1>3. SessionTypes'
  BY <1>1, <1>2 DEF SessionInv, SessionTypes
<1>4. \A t \in Tasks : TaskInv(t)'
  BY <1>1, <1>2 DEF SessionInv, TaskInv, At, Stage, RefreshCall, LogoutCall
<1>5. \A c \in Calls : RequestInv(c)'
  BY <1>1, <1>2 DEF SessionInv, RequestInv, Stage
<1>6. SerialInv'
  <2>1. \A t : /\ StorageFor(t)' <=> StorageFor(t)
               /\ SerialTask(t)' <=> SerialTask(t)
               /\ Runs(t)' <=> Runs(t)
    BY <1>1, <1>2 DEF StorageFor, SerialTask, Spare, Stage, At, SigningOut, RefreshCall, Runs, Busy
  <2>2. \A t : AloneTask(t) => AloneTask(t)'
    BY <1>1, <1>2 DEF AloneTask, Usable, At, SigningOut, PastCap
  <2>3. Busy' = Busy /\ \A x : Spare(x)' <=> Spare(x)
    BY <1>1, <1>2 DEF Busy, At, Spare, Stage
  <2> QED
    BY <1>1, <1>2, <2>1, <2>2, <2>3 DEF SessionInv, SerialInv
<1> QED
  BY <1>3, <1>4, <1>5, <1>6 DEF SessionInv

-----------------------------------------------------------------------------
(* Where the browser and the server meet.                                  *)

\* The refresh request arrives: without overlapping tasks its token is a spare one, so
\* that it is exchanged.
LEMMA PostRefreshStep ==
  ASSUME TokensInv, SessionInv, NEW t \in Tasks, PostRefresh(t)
  PROVE  SessionInv'
<1> DEFINE c == RefreshCall(t)
           x == task[t].refresh
<1>1. /\ UNCHANGED <<storage, stale, past_cap, task, failed, overlap, left>>
      /\ task[t].stage = "refreshing" /\ SelectToken(c, x)
  BY DEF PostRefresh, clientVars, history, At
<1>2. /\ c \in Calls /\ x \in known /\ x # 0 /\ TaskInv(t) /\ t \in Busy /\ Runs(t)
      /\ x \in DOMAIN rows /\ DOMAIN call = Calls /\ expired = {}
  BY <1>1, CallsAre, TaskFacts, CallFacts DEF TaskInv
<1>3. /\ UNCHANGED <<rows, expired, next_id, known>>
      /\ Stage(c) = "idle"
      /\ call'[c] = [stage |-> Branch(x), op |-> "rotate", token |-> x, new |-> 0,
                     targets |-> {}, saw |-> {}]
      /\ \A d \in Calls \ {c} : call'[d] = call[d]
  BY <1>1, <1>2 DEF SelectToken, MayOpen, NoCall
<1>4. /\ Branch(x) \in {"reuse", "valid", "rejected"}
      /\ Spare(x) => Branch(x) = "valid"
  BY <1>2 DEF Branch, Spare, Usable
<1>5. ~ overlap => Spare(x) /\ x = storage.refresh
  BY <1>1, <1>2, <1>3, OthersRest DEF SerialTask, At
<1> HIDE DEF c, x
<1>6. /\ Stage(c)' = Branch(x) /\ call'[c].token = x /\ call'[c].op = "rotate"
      /\ call'[c].targets = {}
      /\ \A d \in Calls \ {c} : Stage(d)' = Stage(d)
  BY <1>3 DEF Stage
<1>7. SessionTypes'
  BY <1>1, <1>3 DEF SessionInv, SessionTypes
<1>8. ASSUME NEW u \in Tasks PROVE TaskInv(u)'
  <2>1. TaskInv(u) /\ RefreshCall(u) \in Calls /\ LogoutCall(u) \in Calls /\ LogoutCall(u) # c
    BY CallsAre DEF SessionInv, c
  <2>2. /\ call'[LogoutCall(u)] = call[LogoutCall(u)]
        /\ Stage(LogoutCall(u))' = Stage(LogoutCall(u))
    BY <1>3, <1>6, <2>1
  <2>3. CASE u = t
    <3>1. RefreshCall(u) = c /\ task[u].refresh = x /\ task[u].stage = "refreshing"
      BY <1>1, <2>3 DEF c, x
    <3>2. task' = task
      BY <1>1
    <3> QED
      BY <1>6, <2>1, <2>2, <3>1, <3>2 DEF TaskInv, At, RefreshCall, LogoutCall
  <2>4. CASE u # t
    <3>1. RefreshCall(u) # c
      BY <2>4, CallsAre DEF c
    <3>2. /\ call'[RefreshCall(u)] = call[RefreshCall(u)]
          /\ Stage(RefreshCall(u))' = Stage(RefreshCall(u))
      BY <1>3, <1>6, <2>1, <3>1
    <3>3. task' = task
      BY <1>1
    <3> QED
      BY <2>1, <2>2, <3>2, <3>3 DEF TaskInv, At, RefreshCall, LogoutCall
  <2> QED
    BY <2>3, <2>4
<1>9. ASSUME NEW d \in Calls PROVE RequestInv(d)'
  <2>1. CASE d = c
    BY <1>1, <1>2, <1>3, <1>4, <1>5, <1>6, <2>1 DEF RequestInv
  <2>2. CASE d # c
    <3>1. call'[d] = call[d] /\ Stage(d)' = Stage(d) /\ RequestInv(d)
      BY <1>3, <1>6, <2>2 DEF SessionInv
    <3> QED
      BY <1>1, <1>3, <3>1 DEF RequestInv
  <2> QED
    BY <2>1, <2>2
<1>10. SerialInv'
  <2> SUFFICES ASSUME ~ overlap PROVE SerialInv'
    BY <1>1 DEF SerialInv
  <2>1. /\ StorageFor(t) /\ SerialTask(t) /\ (~ failed => AloneTask(t))
        /\ \A y \in DOMAIN rows \ known : Spare(y)
    BY <1>2, OthersRest
  <2>2. \A y \in DOMAIN rows' \ known' : Spare(y)'
    <3>1. \A y : Spare(y) /\ y # x => Spare(y)'
      BY <1>3, <1>6 DEF Spare
    <3> QED
      BY <1>2, <1>3, <2>1, <3>1
  <2>3. StorageFor(t)'
    BY <1>1, <2>1 DEF StorageFor, At, SigningOut
  <2>4. SerialTask(t)'
    BY <1>1, <1>4, <1>5, <1>6 DEF SerialTask, At, c, x
  <2>5. AloneTask(t) => AloneTask(t)'
    BY <1>1, <1>3 DEF AloneTask, Usable, At, SigningOut, PastCap
  <2> QED
    BY <1>1, <1>2, <2>1, <2>2, <2>3, <2>4, <2>5, SerialStep
<1> QED
  BY <1>7, <1>8, <1>9, <1>10 DEF SessionInv

\* The logout request arrives, with the token in the storage.
LEMMA PostLogoutStep ==
  ASSUME TokensInv, SessionInv, NEW t \in Tasks, PostLogout(t)
  PROVE  SessionInv'
<1> DEFINE c == LogoutCall(t)
           x == task[t].refresh
<1>1. /\ UNCHANGED <<storage, stale, past_cap, task, failed, overlap, left>>
      /\ task[t].stage = "logging_out" /\ SelectLogout(c, x)
  BY DEF PostLogout, clientVars, history, At
<1>2. /\ c \in Calls /\ x \in known /\ x # 0 /\ TaskInv(t) /\ t \in Busy /\ Runs(t)
      /\ x \in DOMAIN rows /\ DOMAIN call = Calls /\ expired = {}
  BY <1>1, CallsAre, TaskFacts, CallFacts DEF TaskInv
<1>3. /\ UNCHANGED <<rows, expired, next_id, known>>
      /\ Stage(c) = "idle"
      /\ call'[c] = [stage |-> "chain", op |-> "logout", token |-> x, new |-> 0,
                     targets |-> Unrevoked({x}), saw |-> {}]
      /\ \A d \in Calls \ {c} : call'[d] = call[d]
  BY <1>1, <1>2 DEF SelectLogout, MayOpen, NoCall
<1>4. Unrevoked({x}) \subseteq {x} /\ (x \in Unrevoked({x}) \/ rows[x].revoked)
  BY <1>2 DEF Unrevoked
<1>5. ~ overlap => x = storage.refresh
  BY <1>1, <1>2, OthersRest DEF SerialTask, At
<1> HIDE DEF c, x
<1>6. /\ Stage(c)' = "chain" /\ call'[c].token = x /\ call'[c].op = "logout"
      /\ call'[c].targets = Unrevoked({x})
      /\ \A d \in Calls \ {c} : Stage(d)' = Stage(d)
  BY <1>3 DEF Stage
<1>7. SessionTypes'
  BY <1>1, <1>3 DEF SessionInv, SessionTypes
<1>8. ASSUME NEW u \in Tasks PROVE TaskInv(u)'
  <2>1. TaskInv(u) /\ RefreshCall(u) \in Calls /\ LogoutCall(u) \in Calls /\ RefreshCall(u) # c
    BY CallsAre DEF SessionInv, c
  <2>2. /\ call'[RefreshCall(u)] = call[RefreshCall(u)]
        /\ Stage(RefreshCall(u))' = Stage(RefreshCall(u))
    BY <1>3, <1>6, <2>1
  <2>3. CASE u = t
    <3>1. LogoutCall(u) = c /\ task[u].refresh = x /\ task[u].stage = "logging_out"
      BY <1>1, <2>3 DEF c, x
    <3>2. task' = task
      BY <1>1
    <3> QED
      BY <1>6, <2>1, <2>2, <3>1, <3>2 DEF TaskInv, At, RefreshCall, LogoutCall
  <2>4. CASE u # t
    <3>1. LogoutCall(u) # c
      BY <2>4, CallsAre DEF c
    <3>2. /\ call'[LogoutCall(u)] = call[LogoutCall(u)]
          /\ Stage(LogoutCall(u))' = Stage(LogoutCall(u))
      BY <1>3, <1>6, <2>1, <3>1
    <3>3. task' = task
      BY <1>1
    <3> QED
      BY <2>1, <2>2, <3>2, <3>3 DEF TaskInv, At, RefreshCall, LogoutCall
  <2> QED
    BY <2>3, <2>4
<1>9. ASSUME NEW d \in Calls PROVE RequestInv(d)'
  <2>1. CASE d = c
    BY <1>1, <1>2, <1>3, <1>4, <1>6, <2>1 DEF RequestInv
  <2>2. CASE d # c
    <3>1. call'[d] = call[d] /\ Stage(d)' = Stage(d) /\ RequestInv(d)
      BY <1>3, <1>6, <2>2 DEF SessionInv
    <3> QED
      BY <1>1, <1>3, <3>1 DEF RequestInv
  <2> QED
    BY <2>1, <2>2
<1>10. SerialInv'
  <2> SUFFICES ASSUME ~ overlap PROVE SerialInv'
    BY <1>1 DEF SerialInv
  <2>1. /\ StorageFor(t) /\ SerialTask(t) /\ (~ failed => AloneTask(t))
        /\ \A y \in DOMAIN rows \ known : Spare(y)
    BY <1>2, OthersRest
  <2>2. \A y \in DOMAIN rows' \ known' : Spare(y)'
    <3>1. \A y : Spare(y) /\ y # x => Spare(y)'
      BY <1>3, <1>6 DEF Spare
    <3> QED
      BY <1>2, <1>3, <2>1, <3>1
  <2>3. StorageFor(t)'
    BY <1>1, <2>1 DEF StorageFor, At, SigningOut
  <2>4. SerialTask(t)'
    BY <1>1, <1>5 DEF SerialTask, At, x
  <2>5. AloneTask(t) => AloneTask(t)'
    BY <1>1, <1>3 DEF AloneTask, Usable, At, SigningOut, PastCap
  <2> QED
    BY <1>1, <1>2, <2>1, <2>2, <2>3, <2>4, <2>5, SerialStep
<1> QED
  BY <1>7, <1>8, <1>9, <1>10 DEF SessionInv

\* A sign-in gets a token of its own.
LEMMA LogInStep ==
  ASSUME TokensInv, SessionInv, NEW t \in Tasks, LogIn(t)
  PROVE  SessionInv'
<1>0. PICK n : n = next_id + 1
  OBVIOUS
<1>1. /\ UNCHANGED <<storage, stale, past_cap, expired, call>>
      /\ Starts(t) /\ Login
      /\ rows' = WithRow(rows, n, NewRow(0)) /\ known' = known \cup {n} /\ next_id' = n
      /\ task' = [task EXCEPT ![t].stage = "logged_in", ![t].refresh = next_id']
  BY <1>0 DEF LogIn, Login
<1>2. /\ n \in Nat /\ n # 0 /\ n \notin DOMAIN rows /\ n \notin known
      /\ known \subseteq DOMAIN rows
  BY <1>0 DEF TokensInv, TokenTypes
<1>3. /\ task' \in [Tasks -> TaskRecords] /\ \A u \in Tasks \ {t} : task'[u] = task[u]
      /\ task'[t].stage = "logged_in" /\ task'[t].refresh = n
  BY <1>1, <1>2, TaskFacts DEF TaskRecords, TaskStages, SessionInv, SessionTypes
<1>4. /\ DOMAIN rows' = DOMAIN rows \cup {n}
      /\ rows'[n] = NewRow(0)
      /\ \A x \in DOMAIN rows : rows'[x] = rows[x]
  BY <1>1, <1>2 DEF WithRow
<1>5. \A c \in Calls : Stage(c)' = Stage(c) /\ call'[c] = call[c]
  BY <1>1 DEF Stage
<1>6. SessionTypes'
  BY <1>1, <1>2, <1>3, TaskFacts DEF SessionInv, SessionTypes
<1>7. ASSUME NEW u \in Tasks PROVE TaskInv(u)'
  <2>1. TaskInv(u) /\ RefreshCall(u) \in Calls /\ LogoutCall(u) \in Calls
    BY CallsAre DEF SessionInv
  <2>2. CASE u = t
    <3>1. Stage(RefreshCall(u)) = "idle" /\ Stage(LogoutCall(u)) = "idle"
      BY <1>1, <2>1, <2>2, TaskStarts DEF TaskInv, At
    <3> QED
      BY <1>2, <1>3, <1>5, <2>1, <2>2, <3>1 DEF TaskInv, RefreshCall, LogoutCall
  <2>3. CASE u # t
    BY <1>3, <1>5, <2>1, <2>3 DEF TaskInv, At, RefreshCall, LogoutCall
  <2> QED
    BY <2>2, <2>3
<1>8. ASSUME NEW c \in Calls PROVE RequestInv(c)'
  <2>1. call'[c] = call[c] /\ known \subseteq known' /\ failed' = failed
    BY <1>1, <1>5, TaskStarts
  <2>2. (overlap => overlap') /\ [TokensNext]_tokenVars
    BY <1>1, TaskStarts DEF TokensNext
  <2> QED
    BY <2>1, <2>2, RequestKept
<1>9. /\ \A x : Spare(x) => Spare(x)'
      /\ Spare(n)'
  <2>1. \A c \in Calls : Stage(c) # "idle" => call[c].token \in known
    BY CallFacts
  <2>2. ASSUME NEW x, Spare(x) PROVE Spare(x)'
    <3>1. x \in DOMAIN rows' /\ rows'[x] = rows[x]
      BY <1>4, <2>2 DEF Spare
    <3> QED
      BY <1>5, <2>2, <3>1 DEF Spare
  <2>3. n \in DOMAIN rows' /\ ~ rows'[n].revoked /\ rows'[n].replaced_by = 0
    BY <1>4 DEF NewRow
  <2>4. \A c \in Calls : Stage(c)' # "idle" => call'[c].token # n
    BY <1>2, <1>5, <2>1
  <2>5. Spare(n)'
    BY <2>3, <2>4 DEF Spare
  <2> QED
    BY <2>2, <2>5
<1>10. \A x \in known : Usable(x)' => Usable(x)
  BY <1>1, <1>2, <1>4 DEF Usable
<1>11. ~ overlap' => \A x \in DOMAIN rows' \ known' : Spare(x)'
  <2>1. ~ overlap' => \A x \in DOMAIN rows \ known : Spare(x)
    BY <1>1, TaskStarts, OthersRest
  <2> QED
    BY <1>1, <1>4, <1>9, <2>1
<1>12. ~ overlap' => StorageFor(t)' /\ SerialTask(t)'
  <2>1. storage' = storage
    BY <1>1
  <2>2. ~ overlap' /\ storage.refresh # 0 => storage.expires_at # 0 /\ Spare(storage.refresh)'
    BY <1>1, <1>9, TaskStarts
  <2> QED
    BY <1>3, <1>9, <2>1, <2>2 DEF StorageFor, SerialTask, At
<1>13. ~ overlap' /\ ~ failed' => AloneTask(t)'
  <2> SUFFICES ASSUME ~ overlap', ~ failed' PROVE AloneTask(t)'
    OBVIOUS
  <2>1. \A x \in known \ left : Usable(x) => x = storage.refresh
    BY <1>1, TaskStarts
  <2>2. left' = left
    BY <1>1, TaskStarts
  <2> QED
    BY <1>1, <1>3, <1>10, <2>1, <2>2 DEF AloneTask, At, SigningOut
<1>14. (overlap => overlap') /\ (~ overlap' => Runs(t))
  BY <1>1, TaskStarts
<1>15. SerialInv'
  BY <1>3, <1>11, <1>12, <1>13, <1>14, SerialStep
<1> QED
  BY <1>6, <1>7, <1>8, <1>15 DEF SessionInv

\* The tokens of a refresh replace those it was made with, which no longer work; the cap
\* stays.
LEMMA StoreTokensStep ==
  ASSUME TokensInv, SessionInv, NEW t \in Tasks, StoreTokens(t)
  PROVE  SessionInv'
<1> DEFINE c == RefreshCall(t)
           old == call[c].token
           new == call[c].new
<1>1. /\ UNCHANGED <<rows, expired, next_id, call, stale, past_cap, failed, overlap, left>>
      /\ task[t].stage = "refreshing" /\ Stage(c) = "rotated" /\ new \notin known
      /\ known' = known \cup {new}
      /\ storage' = WithTokens(storage, new) /\ Move(t, "done")
  BY DEF StoreTokens, TakeToken, history, At
<1>2. /\ c \in Calls /\ TaskInv(t) /\ t \in Busy /\ Runs(t) /\ CallInv(c)
      /\ old \in DOMAIN rows /\ old = task[t].refresh /\ old # 0
      /\ call[c] \in CallRecords
  BY <1>1, CallsAre, TaskFacts, CallFacts DEF TaskInv, At
<1>3. /\ new \in DOMAIN rows /\ new \in Nat /\ new # 0
      /\ rows[new].parent = old /\ RowInv(new)
  BY <1>1, <1>2, CallFacts DEF CallInv, CallRecords, TokensInv
<1>4. rows[old].revoked
  BY <1>2, <1>3 DEF RowInv
<1>5. /\ task' \in [Tasks -> TaskRecords] /\ \A u \in Tasks \ {t} : task'[u] = task[u]
      /\ task'[t].stage = "done" /\ task'[t].refresh = task[t].refresh
  BY <1>1, TaskFacts DEF Move, TaskRecords, TaskStages, SessionInv, SessionTypes
<1> HIDE DEF c, old, new
<1>6. /\ storage' \in [access : Nat, refresh : Nat, expires_at : Nat]
      /\ storage'.refresh = new /\ storage'.expires_at = storage.expires_at
  BY <1>1, <1>3, TaskFacts DEF WithTokens
<1>7. SessionTypes'
  BY <1>1, <1>5, <1>6, TaskFacts DEF SessionInv, SessionTypes
<1>8. \A d \in Calls : Stage(d)' = Stage(d) /\ call'[d] = call[d]
  BY <1>1 DEF Stage
<1>9. ASSUME NEW u \in Tasks PROVE TaskInv(u)'
  <2>1. TaskInv(u) /\ RefreshCall(u) \in Calls /\ LogoutCall(u) \in Calls
    BY CallsAre DEF SessionInv
  <2>2. CASE u = t
    BY <1>1, <1>5, <1>8, <2>1, <2>2 DEF TaskInv, At, RefreshCall, LogoutCall
  <2>3. CASE u # t
    BY <1>5, <1>8, <2>1, <2>3 DEF TaskInv, At, RefreshCall, LogoutCall
  <2> QED
    BY <2>2, <2>3
<1>10. ASSUME NEW d \in Calls PROVE RequestInv(d)'
  BY <1>1, <1>8 DEF RequestInv, SessionInv
<1>11. SerialInv'
  <2> SUFFICES ASSUME ~ overlap PROVE SerialInv'
    BY <1>1 DEF SerialInv
  <2>1. /\ StorageFor(t) /\ SerialTask(t) /\ (~ failed => AloneTask(t))
        /\ \A y \in DOMAIN rows \ known : Spare(y)
    BY <1>2, OthersRest
  <2>2. \A y : Spare(y)' <=> Spare(y)
    BY <1>1, <1>8 DEF Spare
  <2>3. storage.refresh = old
    BY <1>1, <1>2, <2>1 DEF SerialTask, At
  <2>4. StorageFor(t)' /\ SerialTask(t)'
    BY <1>1, <1>2, <1>3, <1>5, <1>6, <2>1, <2>2, <2>3 DEF StorageFor, SerialTask, At
  <2>5. ASSUME ~ failed PROVE AloneTask(t)'
    <3>1. \A x : Usable(x)' <=> Usable(x)
      BY <1>1 DEF Usable
    <3>2. \A x \in known' \ left' : Usable(x) => x = new
      BY <1>1, <1>4, <2>1, <2>3, <2>5 DEF AloneTask, Usable, At
    <3> QED
      BY <1>5, <1>6, <3>1, <3>2 DEF AloneTask, At, SigningOut
  <2> QED
    BY <1>1, <1>2, <1>5, <2>1, <2>2, <2>4, <2>5, SerialStep
<1> QED
  BY <1>7, <1>9, <1>10, <1>11 DEF SessionInv

-----------------------------------------------------------------------------
(* The theorems.                                                           *)

\* Every step keeps the invariant.
LEMMA SessionInvStep == TokensInv /\ SessionInv /\ [Next]_vars => SessionInv'
<1> SUFFICES ASSUME TokensInv, SessionInv, [Next]_vars PROVE SessionInv'
  OBVIOUS
<1>1. CASE UNCHANGED vars
  <2>1. UNCHANGED <<rows, expired, next_id, known, call, storage, stale, past_cap, task,
                    failed, overlap, left>>
    BY <1>1 DEF vars, tokenVars, clientVars, history
  <2>2. SerialInv'
    BY <2>1 DEF SessionInv, SerialInv, StorageFor, SerialTask, AloneTask, Spare, Usable, Stage,
                At, SigningOut, RefreshCall, Runs, Busy, PastCap
  <2> QED
    BY <2>1, <2>2 DEF SessionInv, SessionTypes, TaskInv, RequestInv, Stage, At, RefreshCall,
                      LogoutCall
<1>2. ASSUME NEW t \in Tasks, Continue(t) PROVE SessionInv'
  BY <1>2, StoreLoginStep, ScoringStep, PostRefreshStep, StoreTokensStep, RefreshFailsStep,
     ReadRefreshTokenStep, PostLogoutStep, LogoutEndsStep, ClearStep DEF Continue
<1>3. ASSUME NEW t \in Tasks,
             LogIn(t) \/ Click(t) \/ ClickSignOut(t) \/ View(t) \/ NoAnswer(t)
      PROVE  SessionInv'
  BY <1>3, LogInStep, StartStep, NoAnswerStep
<1>4. ASSUME NEW c \in Calls, Serve(c) \/ ServerFails(c) PROVE SessionInv'
  BY <1>4, ServerStep
<1>5. CASE (\E x \in InUse : AccessExpires(x)) \/ CapPasses
  BY <1>5, ClockStep
<1>6. CASE Finished
  BY <1>1, <1>6 DEF Finished
<1> QED
  BY <1>1, <1>2, <1>3, <1>4, <1>5, <1>6 DEF Next

\* The token store never sees more of the extension than the calls it allows: all that
\* is proved of it holds of the session too.
THEOREM SessionUsesStore == Spec => TokensSpec
<1>1. Init => TokensInit /\ TokensInv /\ SessionInv
  BY TokensInvInit, SessionInvInit DEF Init
<1>2. TokensInv /\ SessionInv /\ [Next]_vars =>
        [TokensNext]_tokenVars /\ TokensInv' /\ SessionInv'
  BY SessionOfTokens, TokensInvStep, SessionInvStep
<1> QED
  BY <1>1, <1>2, PTL DEF Spec, TokensSpec

\* The invariant of the session.
THEOREM SessionInvariant == Spec => [](TokensInv /\ SessionInv)
<1>1. Init => TokensInv /\ SessionInv
  BY TokensInvInit, SessionInvInit DEF Init
<1>2. TokensInv /\ SessionInv /\ [Next]_vars => TokensInv' /\ SessionInv'
  BY SessionOfTokens, TokensInvStep, SessionInvStep
<1> QED
  BY <1>1, <1>2, PTL DEF Spec

\* Between tasks that did not overlap, the stored refresh token works and has its cap,
\* whatever failed.
THEOREM StoredUsable == Spec => []StoredTokenUsable
<1>1. TokensInv /\ SessionInv => StoredTokenUsable
  <2> SUFFICES ASSUME TokensInv, SessionInv, Busy = {}, ~ overlap, storage.refresh # 0
               PROVE  Usable(storage.refresh) /\ storage.expires_at # 0
    BY DEF StoredTokenUsable
  <2>1. PICK t \in Tasks : TRUE
    BY DEF SessionInv, SessionTypes
  <2>2. StorageFor(t) /\ task[t].stage \in {"idle", "done"} /\ expired = {}
    BY OthersRest, TaskFacts DEF Runs, Busy, At
  <2> QED
    BY <2>2 DEF StorageFor, Spare, Usable, At, SigningOut
<1> QED
  BY <1>1, SessionInvariant, PTL

\* When nothing failed and no tasks overlapped, no token that the browser was given works
\* once the storage is empty, but for those of a session that a sign-in wrote over.
THEOREM SignedOutRevoked == Spec => []SignedOutIsRevoked
<1>1. TokensInv /\ SessionInv => SignedOutIsRevoked
  <2> SUFFICES ASSUME TokensInv, SessionInv, Busy = {}, ~ failed, ~ overlap,
                      storage.refresh = 0, NEW x \in known \ left, Usable(x)
               PROVE  FALSE
    BY DEF SignedOutIsRevoked
  <2>1. PICK t \in Tasks : TRUE
    BY DEF SessionInv, SessionTypes
  <2>2. AloneTask(t) /\ task[t].stage \in {"idle", "done"} /\ 0 \notin known
    BY OthersRest, TaskFacts DEF Runs, Busy, At
  <2> QED
    BY <2>2 DEF AloneTask, At
<1> QED
  BY <1>1, SessionInvariant, PTL

\* When nothing failed and no tasks overlapped, no refresh ends a session: only a click on
\* "sign out" or the cap does.
THEOREM SessionKept == Spec => KeptUntilCap
<1>1. ASSUME TokensInv, SessionInv, [Next]_vars,
             storage.refresh # 0, storage'.refresh = 0, ~ PastCap, ~ failed, ~ overlap
      PROVE  \E t \in SignOuts : At(t, "clearing")
  <2>1. ASSUME NEW t \in Tasks, Clear(t) PROVE At(t, "clearing") /\ t \in SignOuts
    <3>1. task[t].stage = "clearing" /\ Runs(t)
      BY <1>1, <2>1, TaskFacts DEF Clear, At
    <3>2. AloneTask(t)
      BY <1>1, <3>1, OthersRest
    <3> QED
      BY <1>1, <3>1, <3>2 DEF AloneTask, At, SigningOut
  <2>2. ASSUME NEW t \in Tasks, StoreTokens(t) PROVE FALSE
    <3>1. /\ storage'.refresh = call[RefreshCall(t)].new /\ RefreshCall(t) \in Calls
          /\ Stage(RefreshCall(t)) = "rotated"
      BY <2>2, CallsAre, TaskFacts DEF StoreTokens, TakeToken, WithTokens
    <3>2. CallInv(RefreshCall(t)) /\ call[RefreshCall(t)].token \in Nat
      BY <1>1, <3>1, CallFacts DEF CallRecords
    <3> QED
      BY <1>1, <3>1, <3>2, CallFacts DEF CallInv, Rotation
  <2>3. ASSUME NEW t \in Tasks, StoreLogin(t) PROVE FALSE
    BY <1>1, <2>3, TaskFacts DEF StoreLogin, TaskInv, At
  <2>4. storage' # storage
    BY <1>1
  <2>5. \E t \in Tasks : Clear(t) \/ StoreTokens(t) \/ StoreLogin(t)
    <3>1. ASSUME NEW t \in Tasks, Continue(t)
          PROVE  Clear(t) \/ StoreTokens(t) \/ StoreLogin(t)
      BY <2>4, <3>1 DEF Continue, Response, ReadSession, PostRefresh, RefreshFails,
                        ReadRefreshToken, PostLogout, LogoutEnds, clientVars
    <3>2. ASSUME NEW t \in Tasks,
                 LogIn(t) \/ Click(t) \/ ClickSignOut(t) \/ View(t) \/ NoAnswer(t)
          PROVE  FALSE
      BY <2>4, <3>2 DEF LogIn, Click, ClickSignOut, View, NoAnswer
    <3>3. ASSUME NEW c \in Calls, Serve(c) \/ ServerFails(c) PROVE FALSE
      BY <2>4, <3>3 DEF Serve, ServerFails, clientVars
    <3>4. CASE (\E x \in InUse : AccessExpires(x)) \/ CapPasses \/ Finished \/ UNCHANGED vars
      BY <2>4, <3>4 DEF AccessExpires, CapPasses, Finished, vars, clientVars
    <3> QED
      BY <1>1, <3>1, <3>2, <3>3, <3>4 DEF Next
  <2> QED
    BY <2>1, <2>2, <2>3, <2>5
<1>2. TokensInv /\ SessionInv /\ [Next]_vars =>
        [storage.refresh # 0 /\ storage'.refresh = 0 =>
           \/ PastCap \/ failed \/ overlap
           \/ \E t \in SignOuts : At(t, "clearing")]_vars
  BY <1>1
<1> QED
  BY <1>2, SessionInvariant, PTL DEF Spec, KeptUntilCap
=============================================================================
