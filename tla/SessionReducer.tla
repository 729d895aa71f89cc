---------------------------- MODULE SessionReducer ----------------------------
(***************************************************************************)
(* The reducer of the session actor, cli/internal/session/actor/reducer.go: *)
(* a pure function from the loop-owned State and one input to the next      *)
(* State and the effects the runtime has to execute, in order.  Operators   *)
(* carry the names of the Go functions and State fields carry the names of  *)
(* the Go fields; every operator below that "reduces" returns               *)
(* [st |-> next state, eff |-> sequence of effects].                        *)
(*                                                                         *)
(* Data abstraction.  Reply channels are the members of Calls and Awaits    *)
(* (None is a nil channel), messages, models and resume tokens are opaque.  *)
(* agentState JSON is the record it encodes together with a revision: the   *)
(* number of times State.AgentStateJSON has been assigned.  SessionID and   *)
(* AgentStateJSON are set by initSessionActor before the first input and    *)
(* never empty afterwards, so the branches for an empty one are left out.   *)
(***************************************************************************)
EXTENDS Integers, Sequences, FiniteSets

CONSTANTS
  Requests,      \* permission request ids
  Awaits,        \* AwaitPermission calls (each owns one decision channel)
  RequestOf,     \* the request id an AwaitPermission call asks about
  Messages,      \* user messages
  Calls,         \* reply channels of the Manager's calls into the actor
  Models,        \* configurable model names
  Tokens,        \* agent resume tokens
  MaxCompleted,  \* size above which completedRequests is reset (200 in the code)
  None           \* nil channel, empty string

ASSUME ConstantsOK ==
  /\ RequestOf \in [Awaits -> Requests]
  /\ MaxCompleted \in Nat
  /\ None \notin Awaits \cup Calls \cup Tokens \cup Models \cup Requests
  /\ Models # {}

----------------------------------------------------------------------------
(* The loop-owned state.                                                   *)

Modes == {"local", "remote"}
Starting == {"LocalStarting", "RemoteStarting"}
Running == {"LocalRunning", "RemoteRunning"}
FSMState == Starting \cup Running \cup {"Closing", "Closed"}
\* "safe-yolo" is handled exactly like "yolo".
PermissionModes == {"default", "yolo", "read-only"}
Verdicts == {"none", "allow", "deny"}
Results == {"ok", "err"}

AgentConfig == [model : Models, permissionMode : PermissionModes]
runnerHandle == [gen : Nat, running : BOOLEAN]

\* types.AgentState, the durable record mobile clients read.
AgentState ==
  [controlledByUser  : BOOLEAN,
   config            : AgentConfig,
   resumeToken       : Tokens \cup {None},
   requests          : SUBSET Requests,
   completedRequests : [Requests -> Verdicts]]

AgentStateJSON == [rev : Nat, doc : AgentState]

State ==
  [FSM                       : FSMState,
   Mode                      : Modes,
   RunnerGen                 : Nat,
   LocalRunner               : runnerHandle,
   RemoteRunner              : runnerHandle,
   ResumeToken               : Tokens \cup {None},
   PendingSwitchReply        : Calls \cup {None},
   PendingPermissionPromises : [Requests -> Awaits \cup {None}],
   AgentState                : AgentState,
   AgentStateJSON            : AgentStateJSON,
   AgentStateVersion         : Nat,
   PersistDebounceTimerArmed : BOOLEAN,
   PersistRetryRemaining     : 0..1,
   PersistInFlight           : BOOLEAN,
   PersistWaiters            : Seq(Calls),
   WSConnected               : BOOLEAN,
   Working                   : BOOLEAN,
   PendingRemoteSends        : Seq(Messages)]

----------------------------------------------------------------------------
(* Effects.                                                                *)

effStopLocalRunner(g) == [type |-> "StopLocalRunner", gen |-> g]
effStopRemoteRunner(g) == [type |-> "StopRemoteRunner", gen |-> g]
effStartRunner(m, g, cfg) ==
  [type |-> "StartRunner", mode |-> m, gen |-> g, config |-> cfg]
effLocalSendLine(g, m) == [type |-> "LocalSendLine", gen |-> g, msg |-> m]
effRemoteSend(g, m) == [type |-> "RemoteSend", gen |-> g, msg |-> m]
effRemoteAbort(g) == [type |-> "RemoteAbort", gen |-> g]
effApplyEngineConfig(g, cfg) ==
  [type |-> "ApplyEngineConfig", gen |-> g, config |-> cfg]
effPersistAgentState(json, v) ==
  [type |-> "PersistAgentState", json |-> json, expected |-> v]
effStartTimer == [type |-> "StartTimer"]
effCancelTimer == [type |-> "CancelTimer"]
effTakebackWatcher(on) == [type |-> "TakebackWatcher", on |-> on]
effCompleteReply(c, r) == [type |-> "CompleteReply", call |-> c, result |-> r]
effCompletePermissionDecision(a, v) ==
  [type |-> "CompletePermissionDecision", await |-> a, verdict |-> v]
effSignalAck(a) == [type |-> "SignalAck", await |-> a]
effEmitPermissionRequest(r) == [type |-> "EmitPermissionRequest", request |-> r]

Effect ==
  [type : {"StopLocalRunner", "StopRemoteRunner", "RemoteAbort"}, gen : Nat]
  \cup [type : {"StartRunner"}, mode : Modes, gen : Nat, config : AgentConfig]
  \cup [type : {"LocalSendLine", "RemoteSend"}, gen : Nat, msg : Messages]
  \cup [type : {"ApplyEngineConfig"}, gen : Nat, config : AgentConfig]
  \cup [type : {"PersistAgentState"}, json : AgentStateJSON, expected : Nat]
  \cup [type : {"StartTimer", "CancelTimer"}]
  \cup [type : {"TakebackWatcher"}, on : BOOLEAN]
  \cup [type : {"CompleteReply"}, call : Calls, result : Results]
  \cup [type : {"CompletePermissionDecision"}, await : Awaits, verdict : Verdicts]
  \cup [type : {"SignalAck"}, await : Awaits]
  \cup [type : {"EmitPermissionRequest"}, request : Requests]

Ret(s, eff) == [st |-> s, eff |-> eff]

\* A reply effect is emitted only for a non-nil channel.
replyTo(c, r) == IF c = None THEN <<>> ELSE <<effCompleteReply(c, r)>>

completeWaiters(ws, r) == [i \in 1..Len(ws) |-> effCompleteReply(ws[i], r)]

----------------------------------------------------------------------------
(* Persistence helpers.                                                    *)

\* Assigning State.AgentStateJSON makes a new revision.
setAgentStateJSON(s, doc) ==
  [s EXCEPT !.AgentStateJSON = [rev |-> s.AgentStateJSON.rev + 1, doc |-> doc]]

refreshAgentStateJSON(s) == setAgentStateJSON(s, s.AgentState)

persistEffect(s) == effPersistAgentState(s.AgentStateJSON, s.AgentStateVersion)

persistAgentStateImmediately(s) ==
  Ret([s EXCEPT !.PersistRetryRemaining = 1,
                !.PersistDebounceTimerArmed = FALSE,
                !.PersistInFlight = TRUE],
      <<effCancelTimer, persistEffect(s)>>)

\* Mutant: the timer is started before the old one is cancelled.
startThenCancel(s) ==
  Ret([s EXCEPT !.PersistRetryRemaining = 1,
                !.PersistDebounceTimerArmed = TRUE,
                !.PersistInFlight = FALSE],
      <<effStartTimer, effCancelTimer>>)

\* As in the code, scheduling a debounced persist clears PersistInFlight even
\* when an earlier request has not been answered yet.
schedulePersistDebounced(s) ==
  Ret([s EXCEPT !.PersistRetryRemaining = 1,
                !.PersistDebounceTimerArmed = TRUE,
                !.PersistInFlight = FALSE],
      <<effCancelTimer, effStartTimer>>)

----------------------------------------------------------------------------
(* Mode switches and the runner lifecycle.                                 *)

\* What a switch to either mode assigns.  PersistInFlight is left alone
\* although the switch emits a persist effect.
switchedTo(s, target, reply) ==
  LET gen == s.RunnerGen + 1
      handle == [gen |-> gen, running |-> FALSE]
  IN  refreshAgentStateJSON(
        [s EXCEPT !.RunnerGen = gen,
                  !.PersistRetryRemaining = 1,
                  !.PersistDebounceTimerArmed = FALSE,
                  !.PendingSwitchReply = reply,
                  !.Mode = target,
                  !.FSM = IF target = "remote" THEN "RemoteStarting" ELSE "LocalStarting",
                  !.Working = FALSE,
                  !.LocalRunner = IF target = "local" THEN handle ELSE s.LocalRunner,
                  !.RemoteRunner = IF target = "remote" THEN handle ELSE s.RemoteRunner,
                  !.AgentState.controlledByUser = (target = "local")])

restartEffects(n) ==
  << IF n.Mode = "remote" THEN effStopLocalRunner(n.RunnerGen - 1)
                          ELSE effStopRemoteRunner(n.RunnerGen - 1),
     effTakebackWatcher(FALSE),
     effStartRunner(n.Mode, n.RunnerGen, n.AgentState.config) >>

reduceSwitchMode(s, target, reply) ==
  IF target = s.Mode /\ s.FSM \in Running
  THEN Ret(s, replyTo(reply, "ok"))
  ELSE LET n == switchedTo(s, target, reply)
       IN  Ret(n, restartEffects(n) \o <<effCancelTimer, persistEffect(n)>>)

\* Mutant: the newest buffered message is sent first.
newestFirst(s) ==
  [i \in 1..Len(s.PendingRemoteSends) |->
     effRemoteSend(s.RunnerGen, s.PendingRemoteSends[Len(s.PendingRemoteSends) + 1 - i])]

remoteSends(s) ==
  [i \in 1..Len(s.PendingRemoteSends) |->
     effRemoteSend(s.RunnerGen, s.PendingRemoteSends[i])]

\* Mutant: the configuration given to engine.Start is taken to be current.
readyWithoutConfig(s) == <<effTakebackWatcher(TRUE)>> \o remoteSends(s)

remoteReadyEffects(s) ==
  <<effTakebackWatcher(TRUE), effApplyEngineConfig(s.RunnerGen, s.AgentState.config)>>
  \o remoteSends(s)

reduceRunnerReady(s, in) ==
  IF in.gen # s.RunnerGen THEN Ret(s, <<>>)
  ELSE LET handle == [gen |-> in.gen, running |-> TRUE]
           reply == replyTo(s.PendingSwitchReply, "ok")
       IN  IF in.mode = "local"
           THEN Ret([s EXCEPT !.FSM = "LocalRunning",
                              !.LocalRunner = handle,
                              !.PendingSwitchReply = None],
                    reply)
           ELSE Ret([s EXCEPT !.FSM = "RemoteRunning",
                              !.RemoteRunner = handle,
                              !.PendingSwitchReply = None,
                              !.PendingRemoteSends = <<>>],
                    reply \o remoteReadyEffects(s))

recordExit(s, in) ==
  IF in.mode = "local"
  THEN [s EXCEPT !.LocalRunner.running = s.LocalRunner.running /\ s.LocalRunner.gen # in.gen]
  ELSE [s EXCEPT !.RemoteRunner.running = s.RemoteRunner.running /\ s.RemoteRunner.gen # in.gen,
                 !.Working = FALSE]

localSendLines(s) ==
  [i \in 1..Len(s.PendingRemoteSends) |->
     effLocalSendLine(s.RunnerGen, s.PendingRemoteSends[i])]

\* Mutants: the reply channel is kept, the FSM is not moved.
keepsReply(s) == [s EXCEPT !.FSM = "LocalRunning", !.Mode = "local"]
staysStarting(s) == [s EXCEPT !.PendingSwitchReply = None]

backToLocal(s) ==
  [s EXCEPT !.PendingSwitchReply = None, !.FSM = "LocalRunning", !.Mode = "local"]

\* The runner exited while it was being started.
failStart(s, err) ==
  LET reply == replyTo(s.PendingSwitchReply, err)
      failed == backToLocal(s)
  IN  IF s.FSM = "RemoteStarting" /\ s.PendingRemoteSends # <<>>
      THEN LET p == schedulePersistDebounced(
                      refreshAgentStateJSON(
                        [failed EXCEPT !.PendingRemoteSends = <<>>,
                                       !.AgentState.controlledByUser = TRUE]))
           IN  Ret(p.st, reply \o localSendLines(s) \o p.eff)
      ELSE Ret([failed EXCEPT !.Working = FALSE], reply)

\* The remote runner died while running: restart the local one.
fallBackToLocal(s) ==
  LET gen == s.RunnerGen + 1
      p == schedulePersistDebounced(
             refreshAgentStateJSON(
               [s EXCEPT !.RunnerGen = gen,
                         !.Mode = "local",
                         !.FSM = "LocalStarting",
                         !.Working = FALSE,
                         !.LocalRunner = [gen |-> gen, running |-> FALSE],
                         !.AgentState.controlledByUser = TRUE]))
  IN  Ret(p.st, restartEffects(p.st) \o p.eff)

reduceRunnerExited(s, in) ==
  IF in.gen # s.RunnerGen THEN Ret(s, <<>>)
  ELSE LET n == recordExit(s, in)
       IN  CASE n.FSM \in Starting -> failStart(n, in.err)
             [] n.FSM = "RemoteRunning" -> fallBackToLocal(n)
             [] OTHER -> Ret([n EXCEPT !.FSM = "Closed"], <<>>)

reduceShutdown(s) ==
  Ret([s EXCEPT !.FSM = "Closing"],
      <<effStopLocalRunner(s.RunnerGen), effStopRemoteRunner(s.RunnerGen),
        effTakebackWatcher(FALSE)>>)

----------------------------------------------------------------------------
(* Messages and the turn in flight.                                        *)

\* The activity ephemeral this also emits is not part of the effects here.
maybeStartTurn(s) == [s EXCEPT !.Working = TRUE]

\* Messages the echo filter suppresses are never delivered by the environment.
reduceInboundUserMessage(s, msg) ==
  IF s.FSM = "RemoteRunning"
  THEN Ret(maybeStartTurn(s), <<effRemoteSend(s.RunnerGen, msg)>>)
  ELSE LET buffered == [s EXCEPT !.PendingRemoteSends = Append(@, msg)]
       IN  IF s.FSM = "RemoteStarting"
           THEN Ret(maybeStartTurn(buffered), <<>>)
           ELSE LET r == reduceSwitchMode(buffered, "remote", None)
                IN  Ret(maybeStartTurn(r.st), r.eff)

reduceRemoteSend(s, msg, reply) ==
  IF s.FSM # "RemoteRunning" THEN Ret(s, replyTo(reply, "err"))
  ELSE Ret(maybeStartTurn(s), <<effRemoteSend(s.RunnerGen, msg)>> \o replyTo(reply, "ok"))

reduceAbortRemote(s, reply) ==
  IF s.FSM # "RemoteRunning" THEN Ret(s, replyTo(reply, "err"))
  ELSE Ret(s, <<effRemoteAbort(s.RunnerGen)>> \o replyTo(reply, "ok"))

reduceEngineWorking(s, in) ==
  LET current == in.gen = 0 \/ in.gen = s.RunnerGen
      active == \/ in.mode = "remote" /\ s.FSM \in {"RemoteRunning", "RemoteStarting"}
                \/ in.mode = "local" /\ s.FSM = "LocalRunning"
  IN  IF current /\ active THEN Ret([s EXCEPT !.Working = in.working], <<>>)
                           ELSE Ret(s, <<>>)

----------------------------------------------------------------------------
(* Durable configuration and identity.                                     *)

\* An empty (None) field of the request leaves the setting as it is.
reduceSetAgentConfig(s, in) ==
  LET keep(new, old) == IF new = None THEN old ELSE new
      cfg == [model |-> keep(in.model, s.AgentState.config.model),
              permissionMode |-> keep(in.permissionMode, s.AgentState.config.permissionMode)]
      p == persistAgentStateImmediately(
             refreshAgentStateJSON([s EXCEPT !.AgentState.config = cfg]))
      apply == IF s.FSM = "RemoteRunning" THEN <<effApplyEngineConfig(s.RunnerGen, cfg)>> ELSE <<>>
  IN  CASE s.Mode # "remote" \/ s.AgentState.controlledByUser -> Ret(s, replyTo(in.reply, "err"))
        [] s.Mode = "remote" /\ ~s.AgentState.controlledByUser /\ cfg = s.AgentState.config ->
             Ret(s, replyTo(in.reply, "ok"))
        [] OTHER -> Ret(p.st, p.eff \o apply \o replyTo(in.reply, "ok"))

\* Remote mode is authoritative; local mode only fills an empty token.  The
\* local session file the handler also writes is outside the model.
reduceEngineSessionIdentified(s, in) ==
  IF /\ in.gen = 0 \/ in.gen = s.RunnerGen
     /\ in.mode = "remote" \/ s.ResumeToken = None
  THEN schedulePersistDebounced(
         refreshAgentStateJSON([s EXCEPT !.ResumeToken = in.token,
                                         !.AgentState.resumeToken = in.token]))
  ELSE Ret(s, <<>>)

----------------------------------------------------------------------------
(* Permission prompts.                                                     *)

\* Mutants: the waiting caller is forgotten, or always told "allow".
forgetsCaller(s, r, v) == <<>>
alwaysAllows(s, r, v) ==
  LET a == s.PendingPermissionPromises[r]
  IN  IF a = None THEN <<>> ELSE <<effCompletePermissionDecision(a, "allow")>>

completePromise(s, r, v) ==
  LET a == s.PendingPermissionPromises[r]
  IN  IF a = None THEN <<>> ELSE <<effCompletePermissionDecision(a, v)>>

reducePermissionDecision(s, in) ==
  LET r == in.request
      old == s.AgentState.completedRequests
      kept == IF Cardinality({q \in Requests : old[q] # "none"}) > MaxCompleted
              THEN [q \in Requests |-> "none"] ELSE old
      p == schedulePersistDebounced(
             refreshAgentStateJSON(
               [s EXCEPT !.AgentState.requests = @ \ {r},
                         !.AgentState.completedRequests = [kept EXCEPT ![r] = in.verdict],
                         !.PendingPermissionPromises = [@ EXCEPT ![r] = None]]))
  IN  IF r \notin s.AgentState.requests THEN Ret(s, <<>>)
      ELSE Ret(p.st, completePromise(s, r, in.verdict) \o p.eff)

\* yolo approves and read-only denies without asking.
autoVerdict(s) ==
  CASE s.AgentState.config.permissionMode = "yolo" -> "allow"
    [] s.AgentState.config.permissionMode = "read-only" -> "deny"
    [] OTHER -> "none"

reducePermissionAwait(s, in) ==
  LET a == in.await
      r == RequestOf[a]
      auto == autoVerdict(s)
      resolved == persistAgentStateImmediately(
                    refreshAgentStateJSON(
                      [s EXCEPT !.AgentState.completedRequests = [@ EXCEPT ![r] = auto]]))
      promised == [s EXCEPT !.PendingPermissionPromises = [@ EXCEPT ![r] = a]]
      registered == schedulePersistDebounced(
                      refreshAgentStateJSON(
                        [promised EXCEPT !.AgentState.requests = @ \cup {r}]))
  IN  CASE auto # "none" ->
             Ret(resolved.st,
                 resolved.eff \o <<effSignalAck(a), effCompletePermissionDecision(a, auto)>>)
        [] auto = "none" /\ r \in s.AgentState.requests ->
             Ret(promised, <<effEmitPermissionRequest(r), effSignalAck(a)>>)
        [] OTHER ->
             Ret(registered.st,
                 <<effEmitPermissionRequest(r)>> \o registered.eff \o <<effSignalAck(a)>>)

----------------------------------------------------------------------------
(* Persisting agentState: requests, acknowledgements, the debounce timer.  *)

reducePersistAgentStateImmediate(s, doc) ==
  persistAgentStateImmediately(setAgentStateJSON(s, doc))

reduceWaitForAgentStatePersist(s, reply) ==
  LET w == [s EXCEPT !.PersistWaiters = Append(@, reply)]
  IN  IF s.PersistInFlight THEN Ret(w, <<>>) ELSE persistAgentStateImmediately(w)

reduceAgentStatePersisted(s, in) ==
  Ret([s EXCEPT !.AgentStateVersion = IF in.version > 0 THEN in.version ELSE @,
                !.PersistRetryRemaining = 0,
                !.PersistInFlight = FALSE,
                !.PersistWaiters = <<>>],
      completeWaiters(s.PersistWaiters, "ok"))

\* Mutant: every mismatch is retried.
retriesForEver(s, in) ==
  LET n == [s EXCEPT !.AgentStateVersion = IF in.version > 0 THEN in.version ELSE @]
  IN  Ret([n EXCEPT !.PersistRetryRemaining = @ - 1, !.PersistInFlight = TRUE],
          <<persistEffect(n)>>)

reduceAgentStateVersionMismatch(s, in) ==
  LET n == [s EXCEPT !.AgentStateVersion = IF in.version > 0 THEN in.version ELSE @]
  IN  IF s.PersistRetryRemaining = 0 THEN Ret(n, <<>>)
      ELSE Ret([n EXCEPT !.PersistRetryRemaining = @ - 1,
                         !.PersistDebounceTimerArmed = FALSE,
                         !.PersistInFlight = TRUE],
               <<persistEffect(n)>>)

\* Mutant: a failure is only reported.
givesUp(s) ==
  Ret([s EXCEPT !.PersistInFlight = FALSE, !.PersistWaiters = <<>>],
      completeWaiters(s.PersistWaiters, "err"))

reduceAgentStatePersistFailed(s) ==
  LET n == [s EXCEPT !.PersistInFlight = FALSE, !.PersistWaiters = <<>>]
      p == schedulePersistDebounced(n)
      failed == completeWaiters(s.PersistWaiters, "err")
  IN  IF s.WSConnected THEN Ret(p.st, failed \o p.eff) ELSE Ret(n, failed)

reduceTimerFired(s) ==
  LET n == [s EXCEPT !.PersistDebounceTimerArmed = FALSE, !.PersistRetryRemaining = 1]
  IN  Ret(n, <<persistEffect(n)>>)

reduceWSConnected(s) == schedulePersistDebounced([s EXCEPT !.WSConnected = TRUE])

reduceWSDisconnected(s) == Ret([s EXCEPT !.WSConnected = FALSE], <<>>)
=============================================================================
