----------------------------- MODULE SessionSystem -----------------------------
(***************************************************************************)
(* One session of the delight CLI: the actor loop, the engine half and the  *)
(* persistence half of its runtime, AwaitPermission callers, and the calls  *)
(* the session Manager makes into the actor (manager_control.go,            *)
(* manager_agent_config.go, manager_start.go, manager_rpc.go).              *)
(***************************************************************************)
EXTENDS EngineRuntime, AgentStateSync, PermissionRequester

CONSTANTS
  ConfigRequests,  \* the settings callers ask for; None leaves one as it is
  InitialConfig,   \* the configuration the session starts with
  InitialVersion   \* agentStateVersion of the session row at the start

ASSUME InitialOK ==
  /\ ConfigRequests \subseteq
       [model : Models \cup {None}, permissionMode : PermissionModes \cup {None}]
  /\ InitialConfig \in AgentConfig
  /\ InitialVersion \in Nat

VARIABLES
  calls,     \* the Manager's calls, by reply channel
  arrivals,  \* the messages that have come in, in order (history)
  snapshot,  \* the agentState Start has read and not enqueued yet, if any
  blocked    \* the AwaitPermission call inside the send in progress, or None

managerVars == <<calls, arrivals, snapshot, blocked>>
vars == <<actorVars, engineVars, syncVars, permissionVars, managerVars>>

Ops == {"none", "switch", "send", "abort", "config"}
\* A config call waits twice: for its reply and then for the persistence.
CallPhase == {"idle", "waiting", "accepted", "persisting", "ok", "err"}
Call == [op : Ops, phase : CallPhase, model : Models \cup {None}]
Waiting == {"waiting", "persisting"}

ManagerTypeOK ==
  /\ calls \in [Calls -> Call]
  /\ arrivals \in Seq(Messages)
  /\ snapshot \in SUBSET AgentState
  /\ blocked \in Awaits \cup {None}

Init ==
  /\ ActorInit(InitialAgentState(InitialConfig, None), InitialVersion)
  /\ EngineInit
  /\ SyncInit
  /\ PermissionInit
  /\ calls = [c \in Calls |-> [op |-> "none", phase |-> "idle", model |-> None]]
  /\ arrivals = <<>>
  /\ snapshot = {}
  /\ blocked = None

----------------------------------------------------------------------------
(* Calls of the Manager.  Each call has a reply channel of its own; which   *)
(* of the unused ones it is makes no difference.                            *)

idleCalls == {c \in Calls : calls[c].phase = "idle"}
newCall == CHOOSE c \in Calls : calls[c].phase = "idle"
newMessages == Messages \ ToSet(arrivals)
newMessage == CHOOSE m \in Messages : m \in newMessages

begin(k, op, model, in) ==
  /\ idleCalls # {}
  /\ Spend(k)
  /\ calls' = [calls EXCEPT ![newCall] = [op |-> op, phase |-> "waiting", model |-> model]]
  /\ Post(in)
  /\ UNCHANGED <<st, effects, snapshot, blocked>>

SwitchMode(target) ==
  /\ begin("switch", "switch", None,
           [type |-> "cmdSwitchMode", target |-> target, reply |-> newCall])
  /\ UNCHANGED arrivals

SendUserMessage ==
  /\ newMessages # {}
  /\ begin("send", "send", None,
           [type |-> "cmdRemoteSend", msg |-> newMessage, reply |-> newCall])
  /\ arrivals' = Append(arrivals, newMessage)

AbortRemote ==
  /\ begin("abort", "abort", None, [type |-> "cmdAbortRemote", reply |-> newCall])
  /\ UNCHANGED arrivals

SetAgentConfig(req) ==
  /\ begin("config", "config", req.model,
           [type |-> "cmdSetAgentConfig", model |-> req.model,
            permissionMode |-> req.permissionMode, reply |-> newCall])
  /\ UNCHANGED arrivals

\* SetAgentConfig goes on to wait for the persistence of what it changed.
AwaitConfigPersisted(c) ==
  /\ calls[c].phase = "accepted"
  /\ calls' = [calls EXCEPT ![c].phase = "persisting"]
  /\ Post([type |-> "cmdWaitForAgentStatePersist", reply |-> c])
  /\ UNCHANGED <<st, effects, budget, arrivals, snapshot, blocked>>

\* It waits two seconds at most.
ConfigTimesOut(c) ==
  /\ calls[c].phase = "persisting"
  /\ Spend("configTimesOut")
  /\ calls' = [calls EXCEPT ![c].phase = "err"]
  /\ UNCHANGED <<st, inbox, effects, arrivals, snapshot, blocked>>

\* A reply nobody waits for any more stays in its channel.
received(call, r) ==
  CASE call.phase \notin Waiting -> call
    [] call.phase = "waiting" /\ call.op = "config" /\ r = "ok" ->
         [call EXCEPT !.phase = "accepted"]
    [] OTHER -> [call EXCEPT !.phase = r]

CompleteReply ==
  /\ NextEffect("CompleteReply")
  /\ Executed
  /\ calls' = [calls EXCEPT ![Effect1.call] = received(@, Effect1.result)]
  /\ UNCHANGED <<st, inbox, budget, arrivals, snapshot, blocked>>

\* A user message arrives on the update stream; it has no caller.
InboundUserMessage ==
  /\ newMessages # {}
  /\ Spend("inbound")
  /\ arrivals' = Append(arrivals, newMessage)
  /\ Post([type |-> "cmdInboundUserMessage", msg |-> newMessage])
  /\ UNCHANGED <<st, effects, calls, snapshot, blocked>>

\* Start persists the initial agentState: it reads the actor's state, and
\* enqueues what it read.
StartReadsState ==
  /\ online
  /\ Spend("startup")
  /\ snapshot' = {st.AgentStateJSON.doc}
  /\ UNCHANGED <<st, inbox, effects, calls, arrivals, blocked>>

StartPersistsState(doc) ==
  /\ doc \in snapshot
  /\ snapshot' = {}
  /\ Post([type |-> "cmdPersistAgentStateImmediate", doc |-> doc])
  /\ UNCHANGED <<st, effects, budget, calls, arrivals, blocked>>

----------------------------------------------------------------------------
(* Engines and permissions.  The remote engines of Claude and Codex ask on  *)
(* goroutines of their own.  The ACP engine asks inside SendUserMessage: the *)
(* send stays in progress until the decision is there.                      *)

EngineAsks(a) ==
  /\ live["remote"] # 0
  /\ AwaitPermission(a, "asks")
  /\ UNCHANGED managerVars

SendAsks(a) ==
  /\ sending # {}
  /\ live["remote"] # 0
  /\ blocked = None
  /\ AwaitPermission(a, "sendAsks")
  /\ blocked' = a
  /\ UNCHANGED <<calls, arrivals, snapshot>>

\* The decision (or its absence) lets the send go on.
SendResumes ==
  /\ blocked # None
  /\ awaits[blocked] \notin Asking
  /\ blocked' = None
  /\ UNCHANGED <<calls, arrivals, snapshot>>
  /\ UNCHANGED <<actorVars, permissionVars>>

----------------------------------------------------------------------------
(* The composition.                                                        *)

engineOnly == UNCHANGED <<syncVars, permissionVars, managerVars>>
syncOnly == UNCHANGED <<engineVars, permissionVars, managerVars>>
permissionOnly == UNCHANGED <<engineVars, syncVars, managerVars>>
managerOnly == UNCHANGED <<engineVars, syncVars, permissionVars>>

LoopStep == Reduce /\ UNCHANGED <<engineVars, syncVars, permissionVars, managerVars>>

\* A send that waits for a permission holds the mutex, whatever is aborted.
RuntimeStep ==
  /\ \/ EngineStep
     \/ SendSucceeds
     \/ \E x \in sending : SendFails(x)
  /\ blocked # None => sending' = sending
  /\ engineOnly

ManagerStep ==
  \/ \E c \in Calls : AwaitConfigPersisted(c)
  \/ CompleteReply
  \/ \E doc \in snapshot : StartPersistsState(doc)

ManagerStimulus ==
  \/ \E target \in Modes : SwitchMode(target)
  \/ SendUserMessage
  \/ AbortRemote
  \/ \E req \in ConfigRequests : SetAgentConfig(req)
  \/ \E c \in Calls : ConfigTimesOut(c)
  \/ InboundUserMessage
  \/ StartReadsState

\* What the process does by itself.
Internal ==
  \/ LoopStep
  \/ RuntimeStep
  \/ SyncStep /\ syncOnly
  \/ PermissionStep /\ permissionOnly
  \/ SendResumes /\ UNCHANGED <<engineVars, syncVars>>
  \/ ManagerStep /\ managerOnly

\* What comes from outside, and what may go wrong.
Stimulus ==
  \/ EngineStimulus /\ engineOnly
  \/ SyncStimulus /\ syncOnly
  \/ PermissionStimulus /\ permissionOnly
  \/ \E r \in Requests, v \in {"allow", "deny"} :
       PhoneDecides(r, v, server.json.doc.requests) /\ permissionOnly
  \/ \E a \in Awaits : EngineAsks(a) /\ UNCHANGED <<engineVars, syncVars>>
  \/ \E a \in Awaits : SendAsks(a) /\ UNCHANGED <<engineVars, syncVars>>
  \/ ManagerStimulus /\ managerOnly

Next == Internal \/ Stimulus

Spec == Init /\ [][Next]_vars

\* Every goroutine that can take a step eventually does: Go's scheduler runs
\* them, engine.Start and engine.Stop are bounded by timeouts, a socket call
\* returns within five seconds.  Nothing is assumed of the stimuli.
FairSpec == Spec /\ WF_vars(Internal)

----------------------------------------------------------------------------
(* Properties.                                                             *)

TypeOK ==
  /\ ActorTypeOK
  /\ EngineTypeOK
  /\ SyncTypeOK
  /\ PermissionTypeOK
  /\ ManagerTypeOK

Sends == {"RemoteSend", "LocalSendLine"}
MessageInputs == {"cmdRemoteSend", "cmdInboundUserMessage"}
place(stage, i, m) == [stage |-> stage, at |-> i, msg |-> m]

\* Every message that is on its way to an agent, with the place it has reached:
\* handed over, an effect, kept in PendingRemoteSends, or in the mailbox.
onTheWay ==
  {place(1, i, dispatched[i]) : i \in DOMAIN dispatched}
  \cup {place(2, i, effects[i].msg) : i \in {j \in DOMAIN effects : effects[j].type \in Sends}}
  \cup {place(3, i, st.PendingRemoteSends[i]) : i \in DOMAIN st.PendingRemoteSends}
  \cup {place(4, i, inbox[i].msg) : i \in {j \in DOMAIN inbox : inbox[j].type \in MessageInputs}}

ahead(p, q) == p.stage < q.stage \/ (p.stage = q.stage /\ p.at < q.at)

arrivedBefore(m, n) ==
  \E i, j \in DOMAIN arrivals : i < j /\ arrivals[i] = m /\ arrivals[j] = n

\* A message is never sent twice and never overtakes an earlier one, whatever
\* restarts, takebacks and failures happen between its arrival, its stay in
\* PendingRemoteSends and the send.
InOrderOnce ==
  \A p, q \in onTheWay :
    ahead(p, q) => p.msg # q.msg /\ arrivedBefore(p.msg, q.msg)

occurrences(c) ==
  Cardinality({i \in DOMAIN inbox : "reply" \in DOMAIN inbox[i] /\ inbox[i].reply = c})
  + Cardinality({i \in DOMAIN effects : effects[i].type = "CompleteReply" /\ effects[i].call = c})
  + Cardinality({i \in DOMAIN st.PersistWaiters : st.PersistWaiters[i] = c})
  + (IF st.PendingSwitchReply = c THEN 1 ELSE 0)

\* Each call is answered at most once: its reply channel is held in one place
\* at a time, and in none once the call has its answer.  A second answer would
\* be swallowed by the one-place channel and hide the real outcome.
AnsweredOnce ==
  \A c \in Calls :
    /\ occurrences(c) <= 1
    /\ calls[c].phase \in {"idle", "accepted", "ok"} => occurrences(c) = 0

\* The agent of a session in remote mode works with the configuration the
\* session shows to its users as soon as no effect is queued, even when it was
\* changed while the agent was being started; and no local agent runs beside it.
RemoteSessionConfigured ==
  st.FSM = "RemoteRunning" =>
    /\ live["local"] = 0
    /\ effects = <<>> /\ live["remote"] # 0 => engineConfig = st.AgentState.config

\* The promise of persistence to the readers of the session row.
Store == INSTANCE AgentStateStore WITH
  latest <- st.AgentStateJSON.rev,
  version <- server.version,
  published <- server.json.rev

\* The session row never goes back to an older agentState: requests that cross
\* each other, are retried, or arrive after the client gave them up are sorted
\* out by the versions they carry.
StoreSpec == Store!Spec

someEffect(T) == \E i \in DOMAIN effects : effects[i].type \in T
someInput(T) == \E i \in DOMAIN inbox : inbox[i].type \in T

\* The reducer takes the debounce timer to be running only if it is, will be
\* once the effects are executed, or has just expired: a dirty agentState that
\* waits for the timer does not wait for ever.
ArmedTimerRuns ==
  st.PersistDebounceTimerArmed =>
    timer \/ fired > 0 \/ someEffect({"StartTimer"}) \/ someInput({"evTimerFired"})

Dirty == server.json.rev # st.AgentStateJSON.rev

\* Something carries the newest agentState towards the server, or will make
\* the reducer send it.
Underway ==
  \/ timer \/ fired > 0 \/ someEffect({"StartTimer"})
  \/ someInput({"evTimerFired", "EvAgentStatePersistFailed", "EvAgentStateVersionMismatch"})
  \/ \E i \in DOMAIN effects :
       effects[i].type = "PersistAgentState" /\ effects[i].json = st.AgentStateJSON
  \/ \E i \in DOMAIN updates : updates[i].phase # "ok" /\ updates[i].json = st.AgentStateJSON

\* A change of agentState is dropped on the way to the server in two cases
\* only: there is no connection (the reconnect persists again), or a version
\* mismatch comes back when the one retry has been used.
NeverForgotten ==
  [][Underway /\ Dirty' /\ ~Underway' =>
       \/ ~st.WSConnected
       \/ /\ inbox # <<>>
          /\ In.type = "EvAgentStateVersionMismatch"
          /\ st.PersistRetryRemaining = 0]_vars

decisionsFor(a) ==
  {i \in DOMAIN effects :
     effects[i].type = "CompletePermissionDecision" /\ effects[i].await = a}

\* An engine that waits for a decision can still get one: the phone sees the
\* request and the decision would find its channel, or the decision is on its
\* way.  (A later call for the same request id takes the promise over.)
NoHungPermission ==
  \A a \in Awaits :
    awaits[a] = "waiting" /\ decisions[a] = "none" =>
      \/ /\ RequestOf[a] \in st.AgentState.requests
         /\ st.PendingPermissionPromises[RequestOf[a]] = a
      \/ decisionsFor(a) # {}
      \/ \E b \in Awaits \ {a} :
           /\ RequestOf[b] = RequestOf[a]
           /\ \/ st.PendingPermissionPromises[RequestOf[a]] = b
              \/ decisionsFor(b) # {}
              \/ decisions[b] # "none"

\* The reducer hands an engine no verdict but one that the phone gave for this
\* very request, or that the permission mode of the moment prescribes.
NoInventedVerdict ==
  [][\A i \in DOMAIN effects' \ DOMAIN effects :
       effects'[i].type = "CompletePermissionDecision" =>
         \/ <<RequestOf[effects'[i].await], effects'[i].verdict>> \in answered
         \/ effects'[i].verdict = autoVerdict(st)]_vars

\* The runtime goroutine waits for engineSendMu, and the send that holds it
\* waits for a permission.
RuntimeWaitsForApproval ==
  /\ NextEffect("ApplyEngineConfig")
  /\ engineActive["remote"] /\ sameGeneration("remote", Effect1.gen)
  /\ blocked # None /\ awaits[blocked] \in Asking

\* A decision handed to the runtime reaches the engine that waits for it,
\* except when the runtime itself waits for that engine.
DecisionReachesEngine ==
  \A a \in Awaits :
    awaits[a] = "waiting" /\ decisionsFor(a) # {}
      ~> awaits[a] # "waiting" \/ RuntimeWaitsForApproval

\* The runtime loop never waits for an engine that is blocked on a tool
\* approval, as the comment on engineRemoteSend has it.
LoopNeverWaitsForApproval == ~RuntimeWaitsForApproval

\* SetAgentConfig reports success only when listSessions shows the new model.
ConfigDurable ==
  \A c \in Calls :
    calls[c].op = "config" /\ calls[c].phase = "ok" /\ calls[c].model # None =>
      server.json.doc.config.model = calls[c].model

\* The caller of a mode switch is still going to hear of it: Start waits for
\* that answer before the session is up.
SwitchCallerHeard ==
  \A c \in Calls :
    calls[c].op = "switch" /\ calls[c].phase = "waiting" => occurrences(c) > 0

\* The exit of a run that has been replaced does not move the FSM.
StaleExitIgnored ==
  [][inbox # <<>> /\ In.type = "evRunnerExited" /\ In.run # st.RunnerGen
       /\ inbox' = Tail(inbox) => st'.FSM = st.FSM]_vars

\* A mode switch that has begun comes to an end: the session does not stay in
\* a starting state, whichever starts and exits interfere.
StartSettles == st.FSM \in Starting ~> st.FSM \notin Starting
=============================================================================
