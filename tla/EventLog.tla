------------------------------ MODULE EventLog ------------------------------
(***************************************************************************)
(* What the EventStore interface promises (app/events/store.py), as an     *)
(* atomic machine: append gives an event the next contiguous version of    *)
(* its match and appends a key at most once; the projection of a match is  *)
(* the state after its last event; and an update becomes available to the  *)
(* dispatcher only once its event is durable.                              *)
(*                                                                         *)
(* Between the commit in the database and the return of append() the       *)
(* update is "pending": publish() runs in the process that sent the COMMIT *)
(* when the answer arrives, and never runs if the answer does not arrive.  *)
(***************************************************************************)
EXTENDS Projections

CONSTANTS Matches,  \* ids of the matches
          Keys,     \* idempotency keys
          Scores    \* scores a correction may set

ASSUME ScoresAssumption == Scores \subseteq Int

VARIABLES history, \* per match, its committed updates (MatchUpdate: event, state)
          pending  \* committed updates whose append() has not returned yet

logVars == <<history, pending>>

Updates == [event : ScoringEvents(Matches, Keys), state : States]

\* The state after the last event; the default state for an empty log.
StateAfter(log) == IF log = <<>> THEN InitialState ELSE log[Len(log)].state

KeyUsed(k) == \E m \in Matches : \E i \in DOMAIN history[m] : history[m][i].event.key = k

LogInit ==
    /\ history = [m \in Matches |-> <<>>]
    /\ pending = {}

NextVersion(m) == Len(history[m]) + 1

\* A new event is durable, with its projection, in one step.
AppendEvent(m, k, type, home, away) ==
    LET event  == [match |-> m, version |-> NextVersion(m), type |-> type,
                   score_home |-> home, score_away |-> away, key |-> k]
        update == [event |-> event, state |-> Apply(StateAfter(history[m]), event)]
    IN  /\ ~ KeyUsed(k)
        /\ history' = [history EXCEPT ![m] = Append(@, update)]
        /\ pending' = pending \cup {update}

\* append() returns: the dispatcher is handed the update.
Publish(update) ==
    /\ update \in pending
    /\ pending' = pending \ {update}
    /\ UNCHANGED history

\* The answer to COMMIT is lost: append() raises although the event is durable.
LoseAnswer(update) ==
    /\ update \in pending
    /\ pending' = pending \ {update}
    /\ UNCHANGED history

\* A correction carries scores; the payload of the other types is empty.
Payloads(type) == IF type = "score_correction" THEN Scores \X Scores ELSE {<<0, 0>>}

\* Appends make a log longer; that this comes first in LogNext is for TLC, which
\* need not try every event when no log has changed.
Grows(m) == history'[m] # history[m]

LogNext ==
    \/ \E m \in Matches : Grows(m) /\
         \E k \in Keys, type \in EventTypes : \E payload \in Payloads(type) :
            AppendEvent(m, k, type, payload[1], payload[2])
    \/ \E update \in pending : Publish(update) \/ LoseAnswer(update)

LogSpec == LogInit /\ [][LogNext]_logVars
=============================================================================
