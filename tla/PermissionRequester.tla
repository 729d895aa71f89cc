-------------------------- MODULE PermissionRequester --------------------------
(***************************************************************************)
(* AwaitPermission, actor/runtime_permission_requester.go: an agent engine  *)
(* asks for a tool approval and blocks until the phone decides.  The caller *)
(* enqueues the request and enqueues it again when the acknowledgement does *)
(* not come in time; then it waits for the decision.  The decision reaches  *)
(* it through two one-place channels that the runtime fills.                *)
(***************************************************************************)
EXTENDS SessionActor

VARIABLES
  awaits,      \* how far each AwaitPermission call has come
  acks,        \* its acknowledgement channel is full
  decisions,   \* what its decision channel holds
  announced,   \* requests the phone has been notified of
  answered     \* the decisions the phone has given (history)

permissionVars == <<awaits, acks, decisions, announced, answered>>

AwaitState == {"idle", "registering", "waiting", "allow", "deny", "cancelled"}
Asking == {"registering", "waiting"}

PermissionTypeOK ==
  /\ awaits \in [Awaits -> AwaitState]
  /\ acks \in [Awaits -> BOOLEAN]
  /\ decisions \in [Awaits -> Verdicts]
  /\ announced \in SUBSET Requests
  /\ answered \in SUBSET (Requests \X {"allow", "deny"})

PermissionInit ==
  /\ awaits = [a \in Awaits |-> "idle"]
  /\ acks = [a \in Awaits |-> FALSE]
  /\ decisions = [a \in Awaits |-> "none"]
  /\ announced = {}
  /\ answered = {}

----------------------------------------------------------------------------
\* The caller's goroutine.

\* The call registers the request; k names the engine that makes it.
AwaitPermission(a, k) ==
  /\ awaits[a] = "idle"
  /\ Spend(k)
  /\ awaits' = [awaits EXCEPT ![a] = "registering"]
  /\ Post([type |-> "cmdPermissionAwait", await |-> a])
  /\ UNCHANGED <<acks, decisions, announced, answered>>
  /\ UNCHANGED <<st, effects>>

\* The acknowledgement did not come within the (growing) wait.
AwaitRetries(a) ==
  /\ awaits[a] = "registering"
  /\ Spend("ackTimesOut")
  /\ Post([type |-> "cmdPermissionAwait", await |-> a])
  /\ UNCHANGED permissionVars
  /\ UNCHANGED <<st, effects>>

AwaitAcknowledged(a) ==
  /\ awaits[a] = "registering"
  /\ acks[a]
  /\ awaits' = [awaits EXCEPT ![a] = "waiting"]
  /\ acks' = [acks EXCEPT ![a] = FALSE]
  /\ UNCHANGED <<decisions, announced, answered>>
  /\ UNCHANGED actorVars

AwaitDecided(a) ==
  /\ awaits[a] = "waiting"
  /\ decisions[a] # "none"
  /\ awaits' = [awaits EXCEPT ![a] = decisions[a]]
  /\ UNCHANGED <<acks, decisions, announced, answered>>
  /\ UNCHANGED actorVars

\* The engine's context ends (five minutes, or the turn is aborted).
AwaitCancelled(a) ==
  /\ awaits[a] \in Asking
  /\ Spend("awaitCancelled")
  /\ awaits' = [awaits EXCEPT ![a] = "cancelled"]
  /\ UNCHANGED <<acks, decisions, announced, answered>>
  /\ UNCHANGED <<st, inbox, effects>>

----------------------------------------------------------------------------
\* Effects of the reducer.

\* Mutant: an unbuffered acknowledgement channel.
blockingAck ==
  /\ NextEffect("SignalAck")
  /\ awaits[Effect1.await] = "registering"
  /\ Executed
  /\ acks' = [acks EXCEPT ![Effect1.await] = TRUE]
  /\ UNCHANGED <<awaits, decisions, announced, answered>>
  /\ UNCHANGED <<st, inbox, budget>>

SignalAck ==
  /\ NextEffect("SignalAck")
  /\ Executed
  /\ acks' = [acks EXCEPT ![Effect1.await] = TRUE]
  /\ UNCHANGED <<awaits, decisions, announced, answered>>
  /\ UNCHANGED <<st, inbox, budget>>

\* A decision for a full channel is dropped.
CompletePermissionDecision ==
  /\ NextEffect("CompletePermissionDecision")
  /\ Executed
  /\ decisions' = [decisions EXCEPT ![Effect1.await] =
                     IF @ = "none" THEN Effect1.verdict ELSE @]
  /\ UNCHANGED <<awaits, acks, announced, answered>>
  /\ UNCHANGED <<st, inbox, budget>>

EmitPermissionRequest ==
  /\ NextEffect("EmitPermissionRequest")
  /\ Executed
  /\ announced' = announced \cup {Effect1.request}
  /\ UNCHANGED <<awaits, acks, decisions, answered>>
  /\ UNCHANGED <<st, inbox, budget>>

----------------------------------------------------------------------------
\* The phone answers a request it knows of; known also has what it reads from
\* the session row.
PhoneDecides(r, v, known) ==
  /\ r \in announced \cup known
  /\ Spend("decisions")
  /\ answered' = answered \cup {<<r, v>>}
  /\ Post([type |-> "cmdPermissionDecision", request |-> r, verdict |-> v])
  /\ UNCHANGED <<awaits, acks, decisions, announced>>
  /\ UNCHANGED <<st, effects>>

PermissionStep ==
  \/ \E a \in Awaits : AwaitAcknowledged(a)
  \/ \E a \in Awaits : AwaitDecided(a)
  \/ SignalAck
  \/ CompletePermissionDecision
  \/ EmitPermissionRequest

PermissionStimulus ==
  \/ \E a \in Awaits : AwaitRetries(a)
  \/ \E a \in Awaits : AwaitCancelled(a)
=============================================================================
