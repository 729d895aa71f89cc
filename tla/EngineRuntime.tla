----------------------------- MODULE EngineRuntime -----------------------------
(***************************************************************************)
(* The engine half of the session runtime, actor/runtime_engine.go and      *)
(* actor/runtime_takeback.go, over any of the agent engines.  The runtime   *)
(* goroutine starts, stops and talks to at most one run of the agent per    *)
(* mode; the goroutines of the engine report what becomes of a run on the   *)
(* engine's event channel, and the runtime tags each report with the        *)
(* generation it started last in that mode.                                 *)
(*                                                                         *)
(* A run is named by the generation it was started for.  An engine detaches *)
(* the old run of a mode when it is stopped or replaced; the goroutine that *)
(* waits for the process reports the exit some time later, or never (two    *)
(* goroutines race for a codex exit, a full event channel drops it).        *)
(***************************************************************************)
EXTENDS SessionActor

VARIABLES
  engineGen,     \* engineLocalGen and engineRemoteGen
  engineActive,  \* engineLocalActive and engineRemoteActive
  starting,      \* the runtime goroutine is inside engine.Start
  live,          \* the run of each mode whose process is alive, 0 for none
  exiting,       \* ended runs whose exit has not been reported
  engineEvents,  \* the channel engine.Events()
  engineConfig,  \* the configuration the remote engine works with
  sends,         \* goroutines spawned by engineRemoteSend, waiting for the mutex
  sending,       \* the one that holds engineSendMu, if any (at most one element)
  dispatched,    \* messages handed to such goroutines, in order (history)
  delivered,     \* messages an engine has accepted (history)
  watching,      \* the desktop takeback watcher is on
  pressed        \* what the watcher saw and has not emitted yet

engineVars == <<engineGen, engineActive, starting, live, exiting, engineEvents, engineConfig,
                sends, sending, dispatched, delivered, watching, pressed>>
runVars == <<engineGen, engineActive, starting, live, exiting, engineEvents, engineConfig>>
sendVars == <<sends, sending, dispatched, delivered>>
takebackVars == <<watching, pressed>>

Run == [mode : Modes, gen : Nat, err : Results]
Send == [gen : Nat, msg : Messages]
EngineEvent ==
  [type : {"Ready"}, mode : Modes]
  \cup [type : {"Exited"}, mode : Modes, err : Results, run : Nat]
  \cup [type : {"Identified"}, mode : Modes, token : Tokens]
  \cup [type : {"Working"}, mode : Modes, working : BOOLEAN]

EngineTypeOK ==
  /\ engineGen \in [Modes -> Nat]
  /\ engineActive \in [Modes -> BOOLEAN]
  /\ starting \in BOOLEAN
  /\ live \in [Modes -> Nat]
  /\ exiting \in SUBSET Run
  /\ engineEvents \in Seq(EngineEvent)
  /\ engineConfig \in AgentConfig
  /\ sends \in SUBSET Send
  /\ sending \in SUBSET Send
  /\ dispatched \in Seq(Messages)
  /\ delivered \in SUBSET Messages
  /\ watching \in BOOLEAN
  /\ pressed \in {"nothing", "takeback", "shutdown"}

EngineInit ==
  /\ engineGen = [m \in Modes |-> 0]
  /\ engineActive = [m \in Modes |-> FALSE]
  /\ starting = FALSE
  /\ live = [m \in Modes |-> 0]
  /\ exiting = {}
  /\ engineEvents = <<>>
  /\ engineConfig = st.AgentState.config
  /\ sends = {}
  /\ sending = {}
  /\ dispatched = <<>>
  /\ delivered = {}
  /\ watching = FALSE
  /\ pressed = "nothing"

----------------------------------------------------------------------------
(* Starting and stopping runs.  While engine.Start is busy the runtime      *)
(* goroutine executes nothing else.                                         *)

otherMode(m) == IF m = "local" THEN "remote" ELSE "local"

\* The exits still to be reported once the live run of m has been killed.
exitingWithout(m) ==
  IF live[m] = 0 THEN exiting ELSE exiting \cup {[mode |-> m, gen |-> live[m], err |-> "err"]}

\* A runner effect for generation g still concerns the runtime.
sameGeneration(m, g) == engineGen[m] = 0 \/ g = 0 \/ engineGen[m] = g

stopEngine(m, type) ==
  /\ NextEffect(type)
  /\ Executed
  /\ IF engineActive[m] /\ sameGeneration(m, Effect1.gen)
     THEN /\ engineActive' = [engineActive EXCEPT ![m] = FALSE]
          /\ live' = [live EXCEPT ![m] = 0]
          /\ exiting' = exitingWithout(m)
     ELSE UNCHANGED <<engineActive, live, exiting>>
  /\ UNCHANGED <<engineGen, starting, engineEvents, engineConfig, sendVars, takebackVars>>
  /\ UNCHANGED <<st, inbox, budget>>

StopEngineLocal == stopEngine("local", "StopLocalRunner")
StopEngineRemote == stopEngine("remote", "StopRemoteRunner")

\* Record the generation and stop the other mode, before engine.Start.
StartEngine ==
  /\ NextEffect("StartRunner")
  /\ ~starting
  /\ LET m == Effect1.mode
     IN  /\ engineGen' = [engineGen EXCEPT ![m] = Effect1.gen]
         /\ engineActive' = [engineActive EXCEPT ![m] = TRUE]
         /\ live' = [live EXCEPT ![otherMode(m)] = 0]
         /\ exiting' = exitingWithout(otherMode(m))
  /\ starting' = TRUE
  /\ UNCHANGED <<engineEvents, engineConfig, sendVars, takebackVars>>
  /\ UNCHANGED actorVars

\* engine.Start returned nil: the new run replaced an old one of its mode.
EngineStarted ==
  /\ starting
  /\ LET m == Effect1.mode
     IN  /\ live' = [live EXCEPT ![m] = Effect1.gen]
         /\ exiting' = exitingWithout(m)
         /\ engineEvents' = Append(engineEvents, [type |-> "Ready", mode |-> m])
         /\ engineConfig' = IF m = "remote" THEN Effect1.config ELSE engineConfig
  /\ starting' = FALSE
  /\ Executed
  /\ UNCHANGED <<engineGen, engineActive, sendVars, takebackVars>>
  /\ UNCHANGED <<st, inbox, budget>>

\* engine.Start failed: a run of the same mode that was attached stays.
EngineStartFails ==
  /\ starting
  /\ Spend("startFails")
  /\ Post([type |-> "evRunnerExited", mode |-> Effect1.mode, gen |-> Effect1.gen,
           err |-> "err", run |-> Effect1.gen])
  /\ starting' = FALSE
  /\ Executed
  /\ UNCHANGED <<engineGen, engineActive, live, exiting, engineEvents, engineConfig, sendVars,
                 takebackVars>>
  /\ UNCHANGED st

\* The agent process ends by itself, with or without an error.
RunExits(m, err) ==
  /\ live[m] # 0
  /\ Spend("runExits")
  /\ live' = [live EXCEPT ![m] = 0]
  /\ exiting' = exiting \cup {[mode |-> m, gen |-> live[m], err |-> err]}
  /\ UNCHANGED <<engineGen, engineActive, starting, engineEvents, engineConfig, sendVars,
                 takebackVars>>
  /\ UNCHANGED <<st, inbox, effects>>

\* The goroutine waiting for the process reports its exit, or the report is lost.
ReportExit(x) ==
  LET report == [type |-> "Exited", mode |-> x.mode, err |-> x.err, run |-> x.gen]
  IN  /\ x \in exiting
      /\ exiting' = exiting \ {x}
      /\ engineEvents' \in {engineEvents, Append(engineEvents, report)}
      /\ UNCHANGED <<engineGen, engineActive, starting, live, engineConfig, sendVars, takebackVars>>
      /\ UNCHANGED actorVars

\* A live run identifies its conversation or reports that a turn (un)started.
ReportFromRun(k, ev) ==
  /\ live[ev.mode] # 0
  /\ Spend(k)
  /\ engineEvents' = Append(engineEvents, ev)
  /\ UNCHANGED <<engineGen, engineActive, starting, live, exiting, engineConfig, sendVars,
                 takebackVars>>
  /\ UNCHANGED <<st, inbox, effects>>

Identify(m, token) ==
  ReportFromRun("identify", [type |-> "Identified", mode |-> m, token |-> token])
ReportWorking(m, w) == ReportFromRun("working", [type |-> "Working", mode |-> m, working |-> w])

\* handleEngineEvent: the generation is the one current when the event is read.
inputOf(ev) ==
  LET gen == engineGen[ev.mode]
  IN  CASE ev.type = "Ready" -> [type |-> "evRunnerReady", mode |-> ev.mode, gen |-> gen]
        [] ev.type = "Exited" ->
             [type |-> "evRunnerExited", mode |-> ev.mode, gen |-> gen, err |-> ev.err,
              run |-> ev.run]
        [] ev.type = "Identified" ->
             [type |-> "evEngineSessionIdentified", mode |-> ev.mode, gen |-> gen,
              token |-> ev.token]
        [] ev.type = "Working" ->
             [type |-> "evEngineWorking", mode |-> ev.mode, gen |-> gen, working |-> ev.working]

HandleEngineEvent ==
  /\ engineEvents # <<>>
  /\ Post(inputOf(Head(engineEvents)))
  /\ engineEvents' = Tail(engineEvents)
  /\ UNCHANGED <<engineGen, engineActive, starting, live, exiting, engineConfig, sendVars,
                 takebackVars>>
  /\ UNCHANGED <<st, effects, budget>>

----------------------------------------------------------------------------
(* Sending to a run.                                                       *)

EngineRemoteSend ==
  /\ NextEffect("RemoteSend")
  /\ Executed
  /\ IF engineActive["remote"] /\ sameGeneration("remote", Effect1.gen)
     THEN /\ sends' = sends \cup {[gen |-> engineGen["remote"], msg |-> Effect1.msg]}
          /\ dispatched' = Append(dispatched, Effect1.msg)
     ELSE UNCHANGED <<sends, dispatched>>
  /\ UNCHANGED <<runVars, sending, delivered, takebackVars>>
  /\ UNCHANGED <<st, inbox, budget>>

\* A spawned goroutine gets engineSendMu and calls engine.SendUserMessage.
SendBegins(x) ==
  /\ x \in sends
  /\ sending = {}
  /\ sending' = {x}
  /\ sends' = sends \ {x}
  /\ UNCHANGED <<runVars, dispatched, delivered, takebackVars>>
  /\ UNCHANGED actorVars

\* The engine took the message (it goes to whichever remote run is attached).
SendSucceeds ==
  /\ sending # {}
  /\ live["remote"] # 0
  /\ delivered' = delivered \cup {x.msg : x \in sending}
  /\ sending' = {}
  /\ UNCHANGED <<runVars, sends, dispatched, takebackVars>>
  /\ UNCHANGED actorVars

\* The send failed: the runtime reports the run dead so that the FSM recovers.
SendFails(x) ==
  /\ x \in sending
  /\ IF live["remote"] # 0 THEN Spend("sendFails") ELSE UNCHANGED budget
  /\ IF engineActive["remote"] /\ engineGen["remote"] = x.gen
     THEN Post([type |-> "evRunnerExited", mode |-> "remote", gen |-> x.gen,
                err |-> "err", run |-> x.gen])
     ELSE UNCHANGED inbox
  /\ sending' = {}
  /\ UNCHANGED <<runVars, sends, dispatched, delivered, takebackVars>>
  /\ UNCHANGED <<st, effects>>

\* Abort ends the turn in flight; its send may return context.Canceled.
EngineRemoteAbort ==
  /\ NextEffect("RemoteAbort")
  /\ Executed
  /\ sending' \in {sending, {}}
  /\ UNCHANGED <<runVars, sends, dispatched, delivered, takebackVars>>
  /\ UNCHANGED <<st, inbox, budget>>

\* The runtime goroutine itself waits for engineSendMu here.
ApplyEngineConfig ==
  /\ NextEffect("ApplyEngineConfig")
  /\ IF engineActive["remote"] /\ sameGeneration("remote", Effect1.gen)
     THEN sending = {} /\ engineConfig' = Effect1.config
     ELSE UNCHANGED engineConfig
  /\ Executed
  /\ UNCHANGED <<engineGen, engineActive, starting, live, exiting, engineEvents, sendVars,
                 takebackVars>>
  /\ UNCHANGED <<st, inbox, budget>>

\* The line is typed into the local agent, when there is one.
EngineLocalSendLine ==
  /\ NextEffect("LocalSendLine")
  /\ Executed
  /\ delivered' = IF sameGeneration("local", Effect1.gen) /\ live["local"] # 0
                  THEN delivered \cup {Effect1.msg} ELSE delivered
  /\ UNCHANGED <<runVars, sends, sending, dispatched, takebackVars>>
  /\ UNCHANGED <<st, inbox, budget>>

----------------------------------------------------------------------------
(* Desktop takeback.  The watcher emits from a goroutine of its own.       *)

SetTakebackWatcher ==
  /\ NextEffect("TakebackWatcher")
  /\ Executed
  /\ watching' = Effect1.on
  /\ UNCHANGED <<runVars, sendVars, pressed>>
  /\ UNCHANGED <<st, inbox, budget>>

\* The desktop user confirms the takeback, or presses Ctrl+C.
PressKey(k) ==
  /\ watching
  /\ pressed = "nothing"
  /\ Spend(k)
  /\ pressed' = k
  /\ watching' = FALSE
  /\ UNCHANGED <<runVars, sendVars>>
  /\ UNCHANGED <<st, inbox, effects>>

EmitKey ==
  /\ pressed # "nothing"
  /\ Post([type |-> IF pressed = "takeback" THEN "evDesktopTakeback" ELSE "cmdShutdown"])
  /\ pressed' = "nothing"
  /\ UNCHANGED <<runVars, sendVars, watching>>
  /\ UNCHANGED <<st, effects, budget>>

----------------------------------------------------------------------------
\* What the runtime and the engines do by themselves.
EngineStep ==
  \/ StopEngineLocal
  \/ StopEngineRemote
  \/ StartEngine
  \/ EngineStarted
  \/ \E x \in exiting : ReportExit(x)
  \/ HandleEngineEvent
  \/ EngineRemoteSend
  \/ \E x \in sends : SendBegins(x)
  \/ EngineRemoteAbort
  \/ ApplyEngineConfig
  \/ EngineLocalSendLine
  \/ SetTakebackWatcher
  \/ EmitKey

\* What may happen to them.
EngineStimulus ==
  \/ EngineStartFails
  \/ \E m \in Modes, err \in Results : RunExits(m, err)
  \/ \E m \in Modes, token \in Tokens : Identify(m, token)
  \/ \E m \in Modes, w \in BOOLEAN : ReportWorking(m, w)
  \/ \E k \in {"takeback", "shutdown"} : PressKey(k)
=============================================================================
