----------------------------- MODULE AgentStateSync -----------------------------
(***************************************************************************)
(* How the durable agentState travels from the reducer to the server:       *)
(* actor/runtime_emit.go (a goroutine per PersistAgentState effect, the     *)
(* debounce timer), websocket/client.go (UpdateState, a request with an     *)
(* acknowledgement timeout) and the server's update-state handler, which    *)
(* compares versions before it writes.                                      *)
(*                                                                         *)
(* A request that timed out at the client may still reach the server; a     *)
(* request that was refused or lost on the way never does.                  *)
(***************************************************************************)
EXTENDS SessionActor, SequencesExt

CONSTANT StateUpdater   \* the runtime has been given an updater (WithStateUpdater)

ASSUME StateUpdaterOK == StateUpdater \in BOOLEAN

VARIABLES
  online,   \* the websocket connection is up
  timer,    \* the debounce timer is running
  fired,    \* expired timers whose callback has not emitted yet
  updates,  \* UpdateState calls in progress, in the order of their effects
  orphans,  \* requests given up by the client that the server has not seen
  server    \* the session row: agentState and agentStateVersion

syncVars == <<online, timer, fired, updates, orphans, server>>

\* "sent": under way to the server; "ok", "mismatch": the answer is under way;
\* "refused": there was no connection to send on.
Update ==
  [json : AgentStateJSON, expected : Nat,
   phase : {"sent", "ok", "mismatch", "refused"}, version : Nat]
Orphan == [json : AgentStateJSON, expected : Nat]
ServerRow == [version : Nat, json : AgentStateJSON]

SyncTypeOK ==
  /\ online \in BOOLEAN
  /\ timer \in BOOLEAN
  /\ fired \in Nat
  /\ updates \in Seq(Update)
  /\ orphans \in SUBSET Orphan
  /\ server \in ServerRow

SyncInit ==
  /\ online = FALSE
  /\ timer = FALSE
  /\ fired = 0
  /\ updates = <<>>
  /\ orphans = {}
  /\ server = [version |-> st.AgentStateVersion, json |-> st.AgentStateJSON]

----------------------------------------------------------------------------
(* The debounce timer.                                                     *)

StartTimer ==
  /\ NextEffect("StartTimer")
  /\ Executed
  /\ timer' = TRUE
  /\ UNCHANGED <<online, fired, updates, orphans, server>>
  /\ UNCHANGED <<st, inbox, budget>>

\* A callback that is already running cannot be recalled.
CancelTimer ==
  /\ NextEffect("CancelTimer")
  /\ Executed
  /\ timer' = FALSE
  /\ UNCHANGED <<online, fired, updates, orphans, server>>
  /\ UNCHANGED <<st, inbox, budget>>

TimerExpires ==
  /\ timer
  /\ Spend("timerExpires")
  /\ timer' = FALSE
  /\ fired' = fired + 1
  /\ UNCHANGED <<online, updates, orphans, server>>
  /\ UNCHANGED <<st, inbox, effects>>

TimerCallback ==
  /\ fired > 0
  /\ fired' = fired - 1
  /\ Post([type |-> "evTimerFired"])
  /\ UNCHANGED <<online, timer, updates, orphans, server>>
  /\ UNCHANGED <<st, effects, budget>>

----------------------------------------------------------------------------
(* UpdateState calls.                                                      *)

PersistAgentState ==
  /\ NextEffect("PersistAgentState")
  /\ Executed
  /\ updates' = IF StateUpdater
                THEN Append(updates, [json |-> Effect1.json, expected |-> Effect1.expected,
                                      phase |-> IF online THEN "sent" ELSE "refused",
                                      version |-> 0])
                ELSE updates
  /\ UNCHANGED <<online, timer, fired, orphans, server>>
  /\ UNCHANGED <<st, inbox, budget>>

\* The server's transaction: a write under the current version makes a new
\* one, any other is answered with the current version.
\* Mutant: the write condition lets older versions pass.
notNewer(u) == u.expected <= server.version

accepted(u) == u.expected = server.version
serverAfter(u) ==
  IF accepted(u) THEN [version |-> server.version + 1, json |-> u.json] ELSE server

\* The calls are concurrent: they reach the server in any order.
UpdateArrives(i) ==
  LET u == updates[i]
  IN  /\ u.phase = "sent"
      /\ server' = serverAfter(u)
      /\ updates' = [updates EXCEPT ![i] =
                       [u EXCEPT !.phase = IF accepted(u) THEN "ok" ELSE "mismatch",
                                 !.version = serverAfter(u).version]]
      /\ UNCHANGED <<online, timer, fired, orphans>>
      /\ UNCHANGED actorVars

OrphanArrives(o) ==
  /\ o \in orphans
  /\ orphans' = orphans \ {o}
  /\ server' = serverAfter(o)
  /\ UNCHANGED <<online, timer, fired, updates>>
  /\ UNCHANGED actorVars

answerOf(u) ==
  CASE u.phase = "ok" -> [type |-> "EvAgentStatePersisted", version |-> u.version]
    [] u.phase = "mismatch" /\ u.version > 0 ->
         [type |-> "EvAgentStateVersionMismatch", version |-> u.version]
    [] OTHER -> [type |-> "EvAgentStatePersistFailed"]

\* The goroutine of a finished call emits what came of it.
UpdateReturns(i) ==
  /\ updates[i].phase # "sent"
  /\ updates' = RemoveAt(updates, i)
  /\ Post(answerOf(updates[i]))
  /\ UNCHANGED <<online, timer, fired, orphans, server>>
  /\ UNCHANGED <<st, effects, budget>>

\* No acknowledgement within five seconds, or the connection went away: the
\* request may still be under way, or its answer has been lost.
UpdateTimesOut(i) ==
  LET u == updates[i]
  IN  /\ u.phase \in {"sent", "ok", "mismatch"}
      /\ Spend("updateTimesOut")
      /\ updates' = RemoveAt(updates, i)
      /\ orphans' = IF u.phase = "sent"
                    THEN orphans \cup {[json |-> u.json, expected |-> u.expected]} ELSE orphans
      /\ Post([type |-> "EvAgentStatePersistFailed"])
      /\ UNCHANGED <<online, timer, fired, server>>
      /\ UNCHANGED <<st, effects>>

----------------------------------------------------------------------------
(* The connection.                                                         *)

Connect ==
  /\ ~online
  /\ Spend("connect")
  /\ online' = TRUE
  /\ Post([type |-> "evWSConnected"])
  /\ UNCHANGED <<timer, fired, updates, orphans, server>>
  /\ UNCHANGED <<st, effects>>

Disconnect ==
  /\ online
  /\ Spend("disconnect")
  /\ online' = FALSE
  /\ Post([type |-> "evWSDisconnected"])
  /\ UNCHANGED <<timer, fired, updates, orphans, server>>
  /\ UNCHANGED <<st, effects>>

----------------------------------------------------------------------------
SyncStep ==
  \/ StartTimer
  \/ CancelTimer
  \/ TimerCallback
  \/ PersistAgentState
  \/ \E i \in DOMAIN updates : UpdateArrives(i)
  \/ \E i \in DOMAIN updates : UpdateReturns(i)

SyncStimulus ==
  \/ Connect
  \/ Disconnect
  \/ TimerExpires
  \/ \E i \in DOMAIN updates : UpdateTimesOut(i)
  \/ \E o \in orphans : OrphanArrives(o)
=============================================================================
