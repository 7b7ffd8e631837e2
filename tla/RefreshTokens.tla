--------------------------- MODULE RefreshTokens ---------------------------
(***************************************************************************)
(* RefreshTokenStore (app/auth/refresh.py): issue, rotate, revoke and the  *)
(* revocation of a chain, as transactions at READ COMMITTED that overlap.  *)
(*                                                                         *)
(* A token is the id of its row.  The uncommitted writes of a call stay in *)
(* the call until it commits.  A row also records the token that was       *)
(* exchanged for it ("parent", 0 for a login), which is no column: it is   *)
(* what the chain of replaced_by is meant to be the inverse of.            *)
(***************************************************************************)
EXTENDS Integers, FiniteSets

CONSTANTS Calls,      \* calls of rotate() and revoke(), one transaction each
          MaxTokens,  \* bound: ids that the identity column hands out
          Overlap     \* transactions that may be open at a time

ASSUME TokensAssumption == MaxTokens \in Nat /\ Overlap \in Nat

VARIABLES rows,     \* refresh_tokens: the committed rows, by id
          expired,  \* tokens whose expires_at has passed
          next_id,  \* the identity column: last id handed out
          known,    \* tokens whose raw value a client was given
          call      \* per call, where it is and what it has not committed

tokenVars == <<rows, expired, next_id, known, call>>

\* "saw", the rows that a revocation saw, is no state of the code: it is for
\* ReuseEndsLogin.
NoCall == [stage |-> "idle", op |-> "none", token |-> 0, new |-> 0, targets |-> {}, saw |-> {}]

\* Stages in which a transaction is open.
Open == {"valid", "inserted", "replaced", "reuse", "chain", "revoking"}

\* Stages in which a call has been answered.
Over == {"rotated", "reused", "logged_out", "rejected", "failed"}

TokensInit ==
    /\ rows = <<>>
    /\ expired = {}
    /\ next_id = 0
    /\ known = {}
    /\ call = [c \in Calls |-> NoCall]

Stage(c) == call[c].stage
Goto(c, from, to) == Stage(c) = from /\ call' = [call EXCEPT ![c].stage = to]

\* The row that the INSERT of _issue() makes.
NewRow(parent) == [parent |-> parent, replaced_by |-> 0, revoked |-> FALSE]

\* A table with a row more.
WithRow(table, id, row) ==
    [t \in DOMAIN table \cup {id} |-> IF t = id THEN row ELSE table[t]]

\* Mutant of Replaced: the old token is linked but stays usable.
LinkedOnly(row, new) == [row EXCEPT !.replaced_by = new]

Replaced(row, new) == [row EXCEPT !.replaced_by = new, !.revoked = TRUE]

Usable(t) == t \in DOMAIN rows /\ ~ rows[t].revoked /\ t \notin expired

\* issue(), for a login.
Login ==
    /\ next_id < MaxTokens
    /\ next_id' = next_id + 1
    /\ rows' = WithRow(rows, next_id', NewRow(0))
    /\ known' = known \cup {next_id'}
    /\ UNCHANGED <<expired, call>>

\* The time passes the expires_at of a token.
Expire(t) ==
    /\ t \in DOMAIN rows \ expired
    /\ expired' = expired \cup {t}
    /\ UNCHANGED <<rows, next_id, known, call>>

OpenCalls == {c \in Calls : Stage(c) \in Open}
MayOpen(c) == Stage(c) = "idle" /\ Cardinality(OpenCalls) < Overlap

\* An UPDATE waits for the open transactions that updated the same row.
LockedBy(t) ==
    {c \in Calls : \/ Stage(c) = "replaced" /\ call[c].token = t
                   \/ Stage(c) = "revoking" /\ t \in call[c].targets}

-----------------------------------------------------------------------------
(* rotate().                                                               *)

\* The branch that the selected row leads to.
Branch(t) ==
    CASE rows[t].replaced_by # 0 -> "reuse"
      [] rows[t].replaced_by = 0 /\ Usable(t) -> "valid"
      [] OTHER -> "rejected"

\* The SELECT by the hash of the token.
SelectToken(c, t) ==
    /\ MayOpen(c)
    /\ call' = [call EXCEPT ![c] =
                   [NoCall EXCEPT !.stage = Branch(t), !.op = "rotate", !.token = t]]
    /\ UNCHANGED <<rows, expired, next_id, known>>

\* _issue(): the identity value is used up even if the transaction rolls back.
InsertSuccessor(c) ==
    /\ Stage(c) = "valid"
    /\ next_id < MaxTokens
    /\ next_id' = next_id + 1
    /\ call' = [call EXCEPT ![c].stage = "inserted", ![c].new = next_id']
    /\ UNCHANGED <<rows, expired, known>>

\* UPDATE ... WHERE id = :old: after a wait it updates whatever the row is now.
ReplaceOld(c) ==
    /\ Goto(c, "inserted", "replaced")
    /\ LockedBy(call[c].token) = {}
    /\ UNCHANGED <<rows, expired, next_id, known>>

\* Mutant of Exchanged: replaced_by is set on the new row.
LinkedBack(old, new) ==
    WithRow([rows EXCEPT ![old].revoked = TRUE], new,
            [NewRow(old) EXCEPT !.replaced_by = old])

\* What a rotation commits.
Exchanged(old, new) ==
    WithRow([rows EXCEPT ![old] = Replaced(@, new)], new, NewRow(old))

\* COMMIT.
CommitRotation(c) ==
    /\ Goto(c, "replaced", "rotated")
    /\ rows' = Exchanged(call[c].token, call[c].new)
    /\ UNCHANGED <<expired, next_id, known>>

\* The client is given the new token; if the answer is lost it never is.
TakeToken(c) ==
    /\ Stage(c) = "rotated"
    /\ call[c].new \notin known
    /\ known' = known \cup {call[c].new}
    /\ UNCHANGED <<rows, expired, next_id, call>>

-----------------------------------------------------------------------------
(* _revoke_chain(), when rotate() is given a replaced token, and revoke(). *)

\* WITH RECURSIVE chain: the token and what replaced_by leads to.
Chain(t) ==
    LET upTo[n \in 0 .. MaxTokens] ==
          IF n = 0 THEN {t}
          ELSE upTo[n - 1] \cup ({rows[x].replaced_by : x \in upTo[n - 1]} \ {0})
    IN  upTo[MaxTokens]

\* WHERE id IN (...) AND revoked_at IS NULL.
Unrevoked(S) == {x \in DOMAIN rows : x \in S /\ ~ rows[x].revoked}

\* The snapshot of the UPDATE chooses the rows.
SelectChain(c) ==
    /\ Stage(c) = "reuse"
    /\ call' = [call EXCEPT ![c].stage = "chain",
                            ![c].targets = Unrevoked(Chain(call[c].token)),
                            ![c].saw = DOMAIN rows]
    /\ UNCHANGED <<rows, expired, next_id, known>>

\* revoke(), for a logout: the same UPDATE on one row.
SelectLogout(c, t) ==
    /\ MayOpen(c)
    /\ call' = [call EXCEPT ![c] =
                   [NoCall EXCEPT !.stage = "chain", !.op = "logout", !.token = t,
                                  !.targets = Unrevoked({t})]]
    /\ UNCHANGED <<rows, expired, next_id, known>>

\* It waits for the rows that are locked, and skips those revoked meanwhile.
LockTargets(c) ==
    /\ Stage(c) = "chain"
    /\ \A t \in call[c].targets : LockedBy(t) = {}
    /\ call' = [call EXCEPT ![c].stage = "revoking", ![c].targets = Unrevoked(@)]
    /\ UNCHANGED <<rows, expired, next_id, known>>

\* Mutant of Revoked: the revocation is rolled back by the error it raises.
NotRevoked(S) == rows

Revoked(S) == [x \in DOMAIN rows |->
                 IF x \in S THEN [rows[x] EXCEPT !.revoked = TRUE] ELSE rows[x]]

\* COMMIT; only then rotate() raises RefreshTokenReused.
CommitRevocation(c) ==
    /\ Goto(c, "revoking", IF call[c].op = "logout" THEN "logged_out" ELSE "reused")
    /\ rows' = Revoked(call[c].targets)
    /\ UNCHANGED <<expired, next_id, known>>

\* The connection or the task goes away inside the transaction.
Rollback(c) ==
    /\ Stage(c) \in Open
    /\ call' = [call EXCEPT ![c].stage = "failed"]
    /\ UNCHANGED <<rows, expired, next_id, known>>

-----------------------------------------------------------------------------
Run(c) ==
    \/ InsertSuccessor(c) \/ ReplaceOld(c) \/ CommitRotation(c)
    \/ SelectChain(c) \/ LockTargets(c) \/ CommitRevocation(c)

\* All calls are answered: the model, not the server, ends here.
TokensFinished == (\A c \in Calls : Stage(c) \in Over) /\ UNCHANGED tokenVars

\* A client presents a token that it was given.
TokensNext ==
    \/ Login
    \/ \E t \in DOMAIN rows : Expire(t)
    \/ \E c \in Calls :
         \/ Run(c) \/ Rollback(c) \/ TakeToken(c)
         \/ \E t \in known : SelectToken(c, t) \/ SelectLogout(c, t)
    \/ TokensFinished

TokensSpec == TokensInit /\ [][TokensNext]_tokenVars

-----------------------------------------------------------------------------
(* Properties.                                                             *)

\* replaced_by always leads to a later row, however rotations of one token
\* overwrite each other: the recursive query, which has no guard against
\* circles, ends.
ChainAscends ==
    \A t \in DOMAIN rows :
        rows[t].replaced_by # 0 =>
            rows[t].replaced_by \in DOMAIN rows /\ rows[t].replaced_by > t

\* A token that was exchanged is dead before its successor can be used, and
\* stays so: no late UPDATE of another call brings it back.
ExchangedIsDead ==
    \A t \in DOMAIN rows :
        LET p == rows[t].parent
        IN  p # 0 => p \in DOMAIN rows /\ rows[p].revoked /\ rows[p].replaced_by # 0

\* The login a token descends from.
LoginOf(t) ==
    LET root[x \in DOMAIN rows] == IF rows[x].parent = 0 THEN x ELSE root[rows[x].parent]
    IN  root[t]

Family(t) == {x \in DOMAIN rows : LoginOf(x) = LoginOf(t)}

\* No two rotations exchanged the same token of the login of t.
ExchangedOnce(t) ==
    \A x, y \in Family(t) : rows[x].parent = rows[y].parent /\ rows[x].parent # 0 => x = y

\* A login has at most one usable token, however many answers were lost and
\* retried, unless two rotations of one token overlapped.
OneUsablePerLogin ==
    \A x, y \in DOMAIN rows :
        Usable(x) /\ Usable(y) /\ LoginOf(x) = LoginOf(y) /\ ExchangedOnce(x) => x = y

\* Presenting a replaced token of whatever age leaves no usable token among
\* those of its login that the revocation saw: the forward chain reaches all
\* that are alive, unless two rotations of one token overlapped.  A rotation
\* that commits meanwhile escapes.
ReuseEndsLogin ==
    [][\A c \in Calls :
         Stage(c) = "revoking" /\ Stage(c)' = "reused" /\ ExchangedOnce(call[c].token) =>
            \A x \in Family(call[c].token) \cap call[c].saw : rows'[x].revoked]_tokenVars

-----------------------------------------------------------------------------
(* A property as documented, which rotations that overlap violate.         *)

\* "It is single-use: each refresh issues a new one and links the old": a token
\* is exchanged for one successor, however its rotations overlap.
SingleUse ==
    \A x, y \in DOMAIN rows :
        rows[x].parent # 0 /\ rows[x].parent = rows[y].parent => x = y
=============================================================================
