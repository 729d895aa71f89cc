----------------------------- MODULE SessionActor -----------------------------
(***************************************************************************)
(* The actor loop of one session: cli/internal/actor/actor.go running the   *)
(* reducer of SessionReducer.  A goroutine takes one input at a time from   *)
(* the mailbox, reduces it, and hands the batch of effects to a second      *)
(* goroutine, which executes the effects one after the other.  Between the  *)
(* two, and between any effect and the input that answers it, every other   *)
(* goroutine of the process may run.                                        *)
(*                                                                         *)
(* The batches are kept as one flat queue of effects.  The two channels of  *)
(* a session have room for 8192 entries; the numbers of stimuli below keep  *)
(* the queues far shorter, so an input dropped by a full mailbox is not     *)
(* modelled here.                                                           *)
(***************************************************************************)
EXTENDS SessionReducer

\* The things that come from outside or may go wrong; "any" stands for them all.
Stimuli ==
  {"any", "switch", "send", "abort", "config", "configTimesOut", "inbound", "startup", "startFails",
   "runExits", "identify", "working", "sendFails", "takeback", "shutdown", "connect",
   "disconnect", "timerExpires", "updateTimesOut", "asks", "sendAsks", "ackTimesOut", "awaitCancelled",
   "decisions"}

CONSTANT Budgets   \* bounds: in each, how often every stimulus happens and, "any", how much in all

ASSUME BudgetOK == Budgets \subseteq [Stimuli -> Nat]

VARIABLES
  st,        \* the reducer-owned State
  inbox,     \* the mailbox, first in first out
  effects,   \* effects handed over and not executed yet
  budget     \* what is left of the budget of this behaviour

actorVars == <<st, inbox, effects, budget>>

----------------------------------------------------------------------------
\* The inputs of actor/commands and actor/events.  "run" is a history field:
\* the run an exit is really about, which the code does not record.
Input ==
  [type : {"cmdSwitchMode"}, target : Modes, reply : Calls \cup {None}]
  \cup [type : {"cmdRemoteSend"}, msg : Messages, reply : Calls \cup {None}]
  \cup [type : {"cmdInboundUserMessage"}, msg : Messages]
  \cup [type : {"cmdAbortRemote"}, reply : Calls \cup {None}]
  \cup [type : {"cmdSetAgentConfig"}, model : Models \cup {None},
        permissionMode : PermissionModes \cup {None}, reply : Calls \cup {None}]
  \cup [type : {"cmdPermissionDecision"}, request : Requests, verdict : {"allow", "deny"}]
  \cup [type : {"cmdPermissionAwait"}, await : Awaits]
  \cup [type : {"cmdPersistAgentStateImmediate"}, doc : AgentState]
  \cup [type : {"cmdWaitForAgentStatePersist"}, reply : Calls]
  \cup [type : {"cmdShutdown", "evDesktopTakeback", "evWSConnected", "evWSDisconnected",
                "evTimerFired", "EvAgentStatePersistFailed"}]
  \cup [type : {"evRunnerReady"}, mode : Modes, gen : Nat]
  \cup [type : {"evRunnerExited"}, mode : Modes, gen : Nat, err : Results, run : Nat]
  \cup [type : {"evEngineSessionIdentified"}, mode : Modes, gen : Nat, token : Tokens]
  \cup [type : {"evEngineWorking"}, mode : Modes, gen : Nat, working : BOOLEAN]
  \cup [type : {"EvAgentStatePersisted", "EvAgentStateVersionMismatch"}, version : Nat]

\* The session as initSessionActor builds it: nothing runs, the desktop is in
\* control, the agentState seeded from the server is the one the server has.
InitialAgentState(cfg, token) ==
  [controlledByUser  |-> TRUE,
   config            |-> cfg,
   resumeToken       |-> token,
   requests          |-> {},
   completedRequests |-> [r \in Requests |-> "none"]]

InitialState(doc, version) ==
  [FSM                       |-> "Closed",
   Mode                      |-> "local",
   RunnerGen                 |-> 0,
   LocalRunner               |-> [gen |-> 0, running |-> FALSE],
   RemoteRunner              |-> [gen |-> 0, running |-> FALSE],
   ResumeToken               |-> doc.resumeToken,
   PendingSwitchReply        |-> None,
   PendingPermissionPromises |-> [r \in Requests |-> None],
   AgentState                |-> doc,
   AgentStateJSON            |-> [rev |-> 0, doc |-> doc],
   AgentStateVersion         |-> version,
   PersistDebounceTimerArmed |-> FALSE,
   PersistRetryRemaining     |-> 0,
   PersistInFlight           |-> FALSE,
   PersistWaiters            |-> <<>>,
   WSConnected               |-> FALSE,
   Working                   |-> FALSE,
   PendingRemoteSends        |-> <<>>]

ActorInit(doc, version) ==
  /\ st = InitialState(doc, version)
  /\ inbox = <<>>
  /\ effects = <<>>
  /\ budget \in Budgets

----------------------------------------------------------------------------
(* The mailbox and the effect queue.                                       *)

\* Enqueue from any goroutine other than the reducer's.
Post(in) == inbox' = Append(inbox, in)

\* The environment does something it may only do so often.
Spend(k) ==
  /\ budget[k] > 0
  /\ budget["any"] > 0
  /\ budget' = [budget EXCEPT ![k] = @ - 1, !["any"] = @ - 1]

\* The effect the runtime executes next.
Effect1 == Head(effects)
NextEffect(t) == effects # <<>> /\ Effect1.type = t
Executed == effects' = Tail(effects)

\* One turn of the loop: take the next input, reduce it, queue the effects.
In == Head(inbox)
Handle(t, r) ==
  /\ inbox # <<>>
  /\ In.type = t
  /\ st' = r.st
  /\ effects' = effects \o r.eff
  /\ inbox' = Tail(inbox)
  /\ UNCHANGED budget

----------------------------------------------------------------------------
(* Reduce: one action per input the reducer handles.                       *)

ReduceSwitchMode == Handle("cmdSwitchMode", reduceSwitchMode(st, In.target, In.reply))
ReduceDesktopTakeback == Handle("evDesktopTakeback", reduceSwitchMode(st, "local", None))
ReduceRunnerReady == Handle("evRunnerReady", reduceRunnerReady(st, In))
ReduceRunnerExited == Handle("evRunnerExited", reduceRunnerExited(st, In))
ReduceShutdown == Handle("cmdShutdown", reduceShutdown(st))
ReduceInboundUserMessage ==
  Handle("cmdInboundUserMessage", reduceInboundUserMessage(st, In.msg))
ReduceRemoteSend == Handle("cmdRemoteSend", reduceRemoteSend(st, In.msg, In.reply))
ReduceAbortRemote == Handle("cmdAbortRemote", reduceAbortRemote(st, In.reply))
ReduceEngineWorking == Handle("evEngineWorking", reduceEngineWorking(st, In))
ReduceEngineSessionIdentified ==
  Handle("evEngineSessionIdentified", reduceEngineSessionIdentified(st, In))
ReduceSetAgentConfig == Handle("cmdSetAgentConfig", reduceSetAgentConfig(st, In))
ReducePermissionAwait == Handle("cmdPermissionAwait", reducePermissionAwait(st, In))
ReducePermissionDecision == Handle("cmdPermissionDecision", reducePermissionDecision(st, In))
ReducePersistAgentStateImmediate ==
  Handle("cmdPersistAgentStateImmediate", reducePersistAgentStateImmediate(st, In.doc))
ReduceWaitForAgentStatePersist ==
  Handle("cmdWaitForAgentStatePersist", reduceWaitForAgentStatePersist(st, In.reply))
ReduceAgentStatePersisted == Handle("EvAgentStatePersisted", reduceAgentStatePersisted(st, In))
ReduceAgentStateVersionMismatch ==
  Handle("EvAgentStateVersionMismatch", reduceAgentStateVersionMismatch(st, In))
ReduceAgentStatePersistFailed ==
  Handle("EvAgentStatePersistFailed", reduceAgentStatePersistFailed(st))
ReduceTimerFired == Handle("evTimerFired", reduceTimerFired(st))
ReduceWSConnected == Handle("evWSConnected", reduceWSConnected(st))
ReduceWSDisconnected == Handle("evWSDisconnected", reduceWSDisconnected(st))

Reduce ==
  \/ ReduceSwitchMode
  \/ ReduceDesktopTakeback
  \/ ReduceRunnerReady
  \/ ReduceRunnerExited
  \/ ReduceShutdown
  \/ ReduceInboundUserMessage
  \/ ReduceRemoteSend
  \/ ReduceAbortRemote
  \/ ReduceEngineWorking
  \/ ReduceEngineSessionIdentified
  \/ ReduceSetAgentConfig
  \/ ReducePermissionAwait
  \/ ReducePermissionDecision
  \/ ReducePersistAgentStateImmediate
  \/ ReduceWaitForAgentStatePersist
  \/ ReduceAgentStatePersisted
  \/ ReduceAgentStateVersionMismatch
  \/ ReduceAgentStatePersistFailed
  \/ ReduceTimerFired
  \/ ReduceWSConnected
  \/ ReduceWSDisconnected

ActorTypeOK ==
  /\ st \in State
  /\ inbox \in Seq(Input)
  /\ effects \in Seq(Effect)
  /\ budget \in [Stimuli -> Nat]
=============================================================================
