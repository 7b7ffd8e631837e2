-------------------------- MODULE ExtensionSession --------------------------
(***************************************************************************)
(* The session of the browser extension (extension/content.js): the tokens *)
(* in chrome.storage.local, which all tabs share, and the tasks that read  *)
(* and write them between awaits - clicks that score, clicks that sign     *)
(* out, sign-ins, and views that check the age of the session - over the   *)
(* server's RefreshTokens.                                                 *)
(*                                                                         *)
(* An access token is named by the refresh token that it was issued with.  *)
(* The two calls of a task are <<task, "refresh">> and <<task, "logout">>. *)
(***************************************************************************)
EXTENDS RefreshTokens

CONSTANTS Clicks,   \* clicks on a scoring button
          SignOuts, \* clicks on "sign out"
          SignIns,  \* submissions of the sign-in form
          Views,    \* views that ask for the current session
          MaxBusy   \* tasks that run at a time

Tasks == Clicks \cup SignOuts \cup SignIns \cup Views

ASSUME SessionAssumption == Calls = Tasks \X {"refresh", "logout"}

VARIABLES storage,  \* chrome.storage.local
          stale,    \* access tokens past their 15 minutes
          past_cap, \* sign-ins whose expires_at has passed
          task,     \* per task, where it is and the tokens it has read
          failed,   \* history: a request or a transaction has failed
          overlap,  \* history: two tasks have run at a time
          left      \* history: the refresh tokens that a sign-in has written over

history == <<failed, overlap, left>>
clientVars == <<storage, stale, past_cap, task, history>>
vars == <<tokenVars, clientVars>>

\* 0 stands for a key that is not there.
NoSession == [access |-> 0, refresh |-> 0, expires_at |-> 0]

Init ==
    /\ TokensInit
    /\ storage = NoSession
    /\ stale = {}
    /\ past_cap = {}
    /\ task = [t \in Tasks |-> [stage |-> "idle", access |-> 0, refresh |-> 0]]
    /\ failed = FALSE
    /\ overlap = FALSE
    /\ left = {}

At(t, stage) == task[t].stage = stage
Move(t, to) == task' = [task EXCEPT ![t].stage = to]

Busy == {t \in Tasks : ~ At(t, "idle") /\ ~ At(t, "done")}
Starts(t) ==
    /\ At(t, "idle")
    /\ Cardinality(Busy) < MaxBusy
    /\ overlap' = (overlap \/ Busy # {})
    /\ UNCHANGED <<failed, left>>

RefreshCall(t) == <<t, "refresh">>
LogoutCall(t) == <<t, "logout">>

\* past the absolute cap; without an expires_at there is none.
PastCap == storage.expires_at # 0 /\ storage.expires_at \in past_cap

-----------------------------------------------------------------------------
(* The clocks.                                                             *)

\* The access tokens that some task can still send.
InUse == ({storage.access} \cup {task[t].access : t \in Busy}) \ {0}

AccessExpires(t) ==
    /\ t \in InUse \ stale
    /\ stale' = stale \cup {t}
    /\ UNCHANGED <<tokenVars, storage, past_cap, task, history>>

CapPasses ==
    /\ storage.expires_at # 0
    /\ past_cap' = past_cap \cup {storage.expires_at}
    /\ UNCHANGED <<tokenVars, storage, stale, task, history>>

-----------------------------------------------------------------------------
(* signIn().                                                               *)

LogIn(t) ==
    /\ t \in SignIns
    /\ Starts(t)
    /\ Login
    /\ task' = [task EXCEPT ![t].stage = "logged_in", ![t].refresh = next_id']
    /\ UNCHANGED <<storage, stale, past_cap>>

StoreLogin(t) ==
    /\ At(t, "logged_in")
    /\ storage' = [access |-> task[t].refresh, refresh |-> task[t].refresh,
                   expires_at |-> task[t].refresh]
    /\ left' = left \cup {storage.refresh}
    /\ Move(t, "done")
    /\ UNCHANGED <<tokenVars, stale, past_cap, failed, overlap>>

-----------------------------------------------------------------------------
(* score() and refresh().                                                  *)

Click(t) ==
    /\ t \in Clicks
    /\ Starts(t)
    /\ task' = [task EXCEPT ![t].stage = IF storage.access = 0 THEN "done" ELSE "sending",
                            ![t].access = storage.access]
    /\ UNCHANGED <<tokenVars, storage, stale, past_cap>>

\* Mutant of Response: after a 401 the same token is sent again.
SentAgain(t) ==
    /\ At(t, "sending")
    /\ Move(t, IF task[t].access \in stale THEN "sending" ELSE "done")
    /\ UNCHANGED <<tokenVars, storage, stale, past_cap, history>>

\* A 401 leads to one refresh; any other answer ends the click.
Response(t) ==
    /\ At(t, "sending")
    /\ Move(t, IF task[t].access \in stale THEN "unauthorised" ELSE "done")
    /\ UNCHANGED <<tokenVars, storage, stale, past_cap, history>>

ReadSession(t) ==
    /\ At(t, "unauthorised")
    /\ task' = [task EXCEPT
           ![t].stage = IF storage.refresh = 0 \/ PastCap THEN "signing_out" ELSE "refreshing",
           ![t].refresh = storage.refresh]
    /\ UNCHANGED <<tokenVars, storage, stale, past_cap, history>>

PostRefresh(t) ==
    /\ At(t, "refreshing")
    /\ SelectToken(RefreshCall(t), task[t].refresh)
    /\ UNCHANGED clientVars

\* Mutants of WithTokens: the rotated refresh token is not kept; the session is
\* written anew, without its cap.
WithAccessOnly(s, new) == [s EXCEPT !.access = new]
WithoutCap(s, new) == [NoSession EXCEPT !.access = new, !.refresh = new]

\* set() of two keys: expires_at stays as it is.
WithTokens(s, new) == [s EXCEPT !.access = new, !.refresh = new]

\* The answer arrives and its tokens are stored; the second send ends the click.
StoreTokens(t) ==
    /\ At(t, "refreshing")
    /\ TakeToken(RefreshCall(t))
    /\ storage' = WithTokens(storage, call[RefreshCall(t)].new)
    /\ Move(t, "done")
    /\ UNCHANGED <<stale, past_cap, history>>

\* The answers that postJson() makes an exception of.
Refused == {"reused", "rejected", "failed"}

\* catch, after an error status.
RefreshFails(t) ==
    /\ At(t, "refreshing")
    /\ Stage(RefreshCall(t)) \in Refused
    /\ Move(t, "signing_out")
    /\ UNCHANGED <<tokenVars, storage, stale, past_cap, history>>

-----------------------------------------------------------------------------
(* signOut() and current().                                                *)

ClickSignOut(t) ==
    /\ t \in SignOuts
    /\ Starts(t)
    /\ Move(t, "signing_out")
    /\ UNCHANGED <<tokenVars, storage, stale, past_cap>>

View(t) ==
    /\ t \in Views
    /\ Starts(t)
    /\ Move(t, IF storage.access # 0 /\ PastCap THEN "signing_out" ELSE "done")
    /\ UNCHANGED <<tokenVars, storage, stale, past_cap>>

ReadRefreshToken(t) ==
    /\ At(t, "signing_out")
    /\ task' = [task EXCEPT
           ![t].stage = IF storage.refresh = 0 THEN "clearing" ELSE "logging_out",
           ![t].refresh = storage.refresh]
    /\ UNCHANGED <<tokenVars, storage, stale, past_cap, history>>

PostLogout(t) ==
    /\ At(t, "logging_out")
    /\ SelectLogout(LogoutCall(t), task[t].refresh)
    /\ UNCHANGED clientVars

\* Mutant of LogoutAwaited: the tokens are removed without waiting.
LogoutSent(t) == TRUE

LogoutAwaited(t) == Stage(LogoutCall(t)) \in Over

\* "best effort": whatever the answer is.
LogoutEnds(t) ==
    /\ At(t, "logging_out")
    /\ LogoutAwaited(t)
    /\ Move(t, "clearing")
    /\ UNCHANGED <<tokenVars, storage, stale, past_cap, history>>

Clear(t) ==
    /\ At(t, "clearing")
    /\ storage' = NoSession
    /\ Move(t, "done")
    /\ UNCHANGED <<tokenVars, stale, past_cap, history>>

\* A request is not answered: score() or signIn() is over, refresh() and
\* signOut() catch it.
NoAnswer(t) ==
    /\ \/ (At(t, "sending") \/ At(t, "logged_in")) /\ Move(t, "done")
       \/ At(t, "refreshing") /\ Move(t, "signing_out")
       \/ At(t, "logging_out") /\ Move(t, "clearing")
    /\ ~ failed
    /\ failed' = TRUE
    /\ UNCHANGED <<tokenVars, storage, stale, past_cap, overlap, left>>

-----------------------------------------------------------------------------
Continue(t) ==
    \/ StoreLogin(t)
    \/ Response(t) \/ ReadSession(t) \/ PostRefresh(t) \/ StoreTokens(t) \/ RefreshFails(t)
    \/ ReadRefreshToken(t) \/ PostLogout(t) \/ LogoutEnds(t) \/ Clear(t)

Serve(c) == Run(c) /\ UNCHANGED clientVars

ServerFails(c) ==
    /\ Rollback(c)
    /\ ~ failed
    /\ failed' = TRUE
    /\ UNCHANGED <<storage, stale, past_cap, task, overlap, left>>

\* All tasks are over: the model ends here.
Finished == (\A t \in Tasks : At(t, "done")) /\ UNCHANGED vars

Next ==
    \/ \E t \in Tasks :
         \/ LogIn(t) \/ Click(t) \/ ClickSignOut(t) \/ View(t)
         \/ Continue(t)
         \/ NoAnswer(t)
    \/ \E c \in Calls : Serve(c) \/ ServerFails(c)
    \/ \E t \in InUse : AccessExpires(t)
    \/ CapPasses
    \/ Finished

Spec == Init /\ [][Next]_vars

\* A task goes on when its await is over, and the server and its database run
\* what is not blocked.
Fairness ==
    /\ \A t \in Tasks : WF_vars(Continue(t))
    /\ \A c \in Calls : WF_vars(Serve(c))

FairSpec == Spec /\ Fairness

-----------------------------------------------------------------------------
(* Properties.                                                             *)

\* Between tasks, the refresh token in the storage is one that the server will
\* exchange, and the absolute cap is kept with it: after any number of refreshes,
\* failed requests and lost answers, the session either goes on or is gone.
StoredTokenUsable ==
    Busy = {} /\ ~ overlap /\ storage.refresh # 0 =>
        Usable(storage.refresh) /\ storage.expires_at # 0

\* When nothing fails and no tasks overlap, a session ends by a sign-out or at
\* its cap, not by a refresh.
KeptUntilCap ==
    [][storage.refresh # 0 /\ storage'.refresh = 0 =>
         \/ PastCap \/ failed \/ overlap
         \/ \E t \in SignOuts : At(t, "clearing")]_vars

\* When nothing fails and no tasks overlap, a browser without a session leaves no
\* usable token on the server, but for those that a second sign-in wrote over.
SignedOutIsRevoked ==
    Busy = {} /\ ~ failed /\ ~ overlap /\ storage.refresh = 0 =>
        \A t \in known \ left : ~ Usable(t)

\* A click is over after at most one refresh and one sign-out, whatever the
\* other tasks do to the storage and the tokens meanwhile.
EveryClickEnds == \A t \in Clicks : At(t, "sending") ~> At(t, "done")
=============================================================================
