------------------------------ MODULE CodexRemote ------------------------------
(***************************************************************************)
(* The remote half of the Codex engine.  The runtime's goroutine starts and   *)
(* stops it and interrupts turns, one message at a time is sent, and the      *)
(* readers of the clients' streams apply what the app-servers notify, that of *)
(* a stopped app-server for as long as there is something left to read.       *)
(* `current` is the attached client, numbered by the run that made it.        *)
(***************************************************************************)
EXTENDS AppServerClient

VARIABLES
  engine,    \* the engine's remote... fields, thread being the client that opened it
  message,   \* the message being sent
  intruded   \* history: what a stopped app-server had said was taken for its successor's

codexRemoteVars == <<engine, message, intruded>>

notSending == [pc |-> "none", client |-> 0, ch |-> 0, begun |-> FALSE]

CodexRemoteInit ==
  /\ engine = [enabled |-> FALSE, thread |-> 0, turn |-> 0, working |-> FALSE, ch |-> 0]
  /\ message = notSending
  /\ intruded = FALSE

keepClient == UNCHANGED <<closed, pending, nextID, stdin, inbox, turn, turns>>

----------------------------------------------------------------------------
\* startRemoteAppServer

\* ensureAppServerClient keeps a client that an earlier start left attached.
CodexStartRemote ==
  /\ Started /\ calls["runtime"].pc = "none"
  /\ engine' = [engine EXCEPT !.enabled = TRUE]
  /\ \/ /\ current # 0
        /\ GoTo("thread") /\ BeginCall("runtime", current, "thread")
        /\ UNCHANGED <<proc, reader>>
     \/ /\ current = 0
        /\ GoTo("initialize") /\ BeginCall("runtime", started', "initialize")
        /\ proc' = [proc EXCEPT ![started'] = "up"]
        /\ reader' = [reader EXCEPT ![started'] = "read"]
     \/ /\ current = 0
        /\ GoTo("not spawned")
        /\ UNCHANGED <<proc, reader, calls>>
  /\ keepClient /\ UNCHANGED <<half, phoneVars, current, handle, message, intruded>>

CodexRemoteNotSpawned ==
  /\ at = "not spawned" /\ Failed
  /\ UNCHANGED <<half, phoneVars, current, handle, proc, clientVars, codexRemoteVars>>

\* The client is attached when it answered initialize and took initialized.
CodexInitialized ==
  /\ at = "initialize" /\ Returned("runtime", "initialize", "result")
  /\ started \notin closed /\ proc[started] # "dead"
  /\ current' = started
  /\ GoTo("thread") /\ BeginCall("runtime", started, "thread")
  /\ keepClient /\ UNCHANGED <<half, reportVars, phoneVars, handle, proc, reader, codexRemoteVars>>

CodexNotInitialized ==
  /\ at = "initialize" /\ calls["runtime"].pc = "done"
  /\ calls["runtime"].got = "result" => started \in closed \/ proc[started] = "dead"
  /\ Failed
  /\ closed' = closed \cup {started}
  /\ pending' = [pending EXCEPT ![started] = {}]
  /\ calls' = [calls EXCEPT !["runtime"] = none]
  /\ proc' = Killed(started)
  /\ UNCHANGED <<half, phoneVars, current, handle, nextID, stdin, inbox, reader, turn, turns,
                 codexRemoteVars>>

\* openAppServerThread.  An answer too long to read is made up for by the resume
\* token or by thread/started.
CodexOpensThread ==
  /\ at = "thread" /\ calls["runtime"].pc = "done"
  /\ calls' = [calls EXCEPT !["runtime"] = none]
  /\ \/ /\ calls["runtime"].got = "result"
        /\ engine' = [engine EXCEPT !.thread = calls["runtime"].client]
        /\ GoTo("ready") /\ UNCHANGED reportVars
     \/ /\ calls["runtime"].got = "oversized"
        /\ \/ engine' = [engine EXCEPT !.thread = calls["runtime"].client]
           \/ engine.thread # 0 /\ UNCHANGED engine
        /\ GoTo("ready") /\ UNCHANGED reportVars
     \/ /\ calls["runtime"].got # "result"
        /\ Failed /\ UNCHANGED engine
  /\ keepClient
  /\ UNCHANGED <<half, phoneVars, current, handle, proc, reader, message, intruded>>

\* A refusal may say "unknown variant": thread/start, not thread/resume, is then tried
\* once more with the sandbox spelled otherwise.
CodexOpensAgain ==
  /\ at = "thread" /\ Returned("runtime", "thread", "refused")
  /\ BeginCall("runtime", calls["runtime"].client, "thread again")
  /\ keepClient
  /\ UNCHANGED <<half, reportVars, runtimeVars, phoneVars, proc, reader, codexRemoteVars>>

CodexRemoteReady ==
  /\ at = "ready" /\ GoTo("rest")
  /\ EvReady
  /\ UNCHANGED <<half, phoneVars, current, handle, proc, clientVars, codexRemoteVars>>

----------------------------------------------------------------------------
\* stopRemoteAndWait

CodexStopRemote ==
  /\ at = "rest" /\ calls["runtime"].pc = "none" /\ engine.enabled
  /\ handle' = current
  /\ current' = 0
  /\ engine' = [enabled |-> FALSE, thread |-> 0, turn |-> 0, working |-> FALSE,
                ch |-> engine.ch + 1]
  /\ GoTo(IF engine.working THEN "emit" ELSE "close")
  /\ UNCHANGED <<half, reportVars, phoneVars, proc, clientVars, message, intruded>>

CodexStopEmits ==
  /\ at = "emit" /\ GoTo("close")
  /\ EvWorking(FALSE)
  /\ UNCHANGED <<half, reportVars, current, handle, proc, clientVars, codexRemoteVars>>

\* Then it waits for the process, two seconds at the most.
CodexStopCloses ==
  /\ at = "close" /\ GoTo("rest")
  /\ handle' = 0
  /\ \/ handle # 0 /\ Close(handle)
     \/ handle = 0 /\ UNCHANGED <<closed, pending, calls, proc>>
  /\ UNCHANGED <<half, reportVars, phoneVars, current, nextID, stdin, inbox, reader, turn, turns,
                 codexRemoteVars>>

----------------------------------------------------------------------------
\* Abort is interruptRemoteTurn: nothing to do without a turn.

CodexAbort ==
  /\ at = "rest" /\ calls["runtime"].pc = "none"
  /\ PressStop
  /\ current # 0 /\ engine.thread # 0 /\ engine.turn # 0
  /\ BeginCall("runtime", current, "turn/interrupt")
  /\ GoTo("interrupt")
  /\ keepClient /\ UNCHANGED <<half, reportVars, current, handle, proc, reader, codexRemoteVars>>

CodexAborted ==
  /\ at = "interrupt" /\ calls["runtime"].pc = "done"
  /\ calls' = [calls EXCEPT !["runtime"] = none]
  /\ GoTo("rest")
  /\ keepClient
  /\ UNCHANGED <<half, reportVars, phoneVars, current, handle, proc, reader, codexRemoteVars>>

----------------------------------------------------------------------------
\* SendUserMessage

\* It is refused without remote mode, and answered with a text while a turn runs.
CodexSend ==
  /\ message.pc = "none" /\ MoreInput
  /\ sends' = sends + 1
  /\ \/ engine.enabled /\ engine.turn = 0 /\ message' = [notSending EXCEPT !.pc = "read"]
     \/ ~engine.enabled /\ UNCHANGED message
     \/ engine.enabled /\ engine.turn # 0 /\ UNCHANGED message
  /\ UNCHANGED <<half, reportVars, runtimeVars, told, pressed, stops, proc, clientVars, engine,
                 intruded>>

\* startRemoteTurnViaAppServer
CodexStartsTurn ==
  /\ message.pc = "read"
  /\ \/ /\ engine.enabled /\ current # 0 /\ engine.thread # 0
        /\ message' = [notSending EXCEPT !.pc = "call", !.client = current, !.ch = engine.ch]
        /\ BeginCall("sender", current, "turn/start")
     \/ /\ ~engine.enabled \/ current = 0 \/ engine.thread = 0
        /\ message' = notSending
        /\ UNCHANGED calls
  /\ keepClient
  /\ UNCHANGED <<half, reportVars, runtimeVars, phoneVars, proc, reader, engine, intruded>>

\* Mutant: the channel to wait on is read when the call has returned.
afterCall == [message EXCEPT !.pc = "await", !.ch = engine.ch]

accepted == [message EXCEPT !.pc = "await"]

CodexTurnAccepted ==
  /\ message.pc = "call" /\ calls["sender"].pc = "done"
  /\ calls' = [calls EXCEPT !["sender"] = none]
  /\ message' = IF calls["sender"].got = "result" THEN accepted ELSE notSending
  /\ keepClient
  /\ UNCHANGED <<half, reportVars, runtimeVars, phoneVars, proc, reader, engine, intruded>>

\* "unknown variant" again: the client and the channel stay as they were read.
CodexStartsAgain ==
  /\ message.pc = "call" /\ Returned("sender", "turn/start", "refused")
  /\ BeginCall("sender", calls["sender"].client, "turn/start again")
  /\ keepClient
  /\ UNCHANGED <<half, reportVars, runtimeVars, phoneVars, proc, reader, codexRemoteVars>>

CodexTurnBegun ==
  /\ message.pc = "await" /\ engine.ch # message.ch
  /\ message' = notSending
  /\ UNCHANGED <<eventVars, clientVars, engine, intruded>>

\* 10 s: the message is reported to have failed.
CodexTurnNotBegun ==
  /\ message.pc = "await" /\ engine.ch = message.ch
  /\ message' = notSending
  /\ UNCHANGED <<eventVars, clientVars, engine, intruded>>

----------------------------------------------------------------------------
\* The reader of client c: handleAppServerNotification and dispatchResponse

take(c) == inbox' = [inbox EXCEPT ![c] = Tail(@)]
goOn(c, pc) == reader' = [reader EXCEPT ![c] = pc]
next(c, kind) == reader[c] = "read" /\ inbox[c] # <<>> /\ Head(inbox[c]).kind = kind

ReadResponse(c) ==
  /\ next(c, "response") /\ take(c)
  /\ DispatchResponse(c, Head(inbox[c]))
  /\ UNCHANGED <<eventVars, closed, nextID, stdin, reader, turn, turns, codexRemoteVars>>

handleThreadStarted(c) ==
  /\ next(c, "thread/started") /\ take(c)
  /\ engine' = [engine EXCEPT !.thread = c]
  /\ UNCHANGED <<eventVars, closed, pending, nextID, calls, stdin, reader, turn, turns, message,
                 intruded>>

\* A reader whose client was replaced alters what the engine holds of its successor.
intrudes(c, alters) == intruded' = (intruded \/ (c # current /\ alters))

\* Mutant: the working state is not recomputed.
keepsReading(c) == UNCHANGED reader

thenUpdates(c) == goOn(c, "update")

handleTurnStarted(c) ==
  /\ next(c, "turn/started") /\ take(c) /\ goOn(c, "update")
  /\ engine' = [engine EXCEPT !.turn = Head(inbox[c]).n, !.ch = @ + 1]
  /\ message' = [message EXCEPT !.begun = @ \/ message.client = c]
  /\ intrudes(c, TRUE)
  /\ UNCHANGED <<eventVars, closed, pending, nextID, calls, stdin, turn, turns>>

handleTurnCompleted(c) ==
  /\ next(c, "turn/completed") /\ take(c)
  /\ \/ /\ engine.turn = Head(inbox[c]).n
        /\ engine' = [engine EXCEPT !.turn = 0]
        /\ thenUpdates(c) /\ intrudes(c, TRUE)
     \/ /\ engine.turn # Head(inbox[c]).n
        /\ UNCHANGED <<engine, reader, intruded>>
  /\ UNCHANGED <<eventVars, closed, pending, nextID, calls, stdin, turn, turns, message>>

\* updateRemoteWorkingFromState
ReadBusy(c) ==
  /\ reader[c] = "update"
  /\ goOn(c, IF engine.turn # 0 THEN "set busy" ELSE "set idle")
  /\ keepClient /\ UNCHANGED <<eventVars, calls, codexRemoteVars>>

\* setRemoteWorking; the event follows when the lock is released.
SetRemoteWorking(c) ==
  LET busy == reader[c] = "set busy" IN
  /\ reader[c] \in {"set busy", "set idle"}
  /\ engine' = [engine EXCEPT !.working = busy]
  /\ intrudes(c, busy # (engine.turn # 0))
  /\ goOn(c, IF engine.working = busy THEN "read" ELSE IF busy THEN "emit busy" ELSE "emit idle")
  /\ keepClient /\ UNCHANGED <<eventVars, calls, message>>

EmitWorking(c) ==
  /\ reader[c] \in {"emit busy", "emit idle"}
  /\ EvWorking(reader[c] = "emit busy")
  /\ intrudes(c, told' # engine.working)
  /\ goOn(c, "read")
  /\ keepClient
  /\ UNCHANGED <<half, reportVars, runtimeVars, proc, calls, engine, message>>

ReaderStep(c) ==
  \/ ReadResponse(c) \/ handleThreadStarted(c) \/ handleTurnStarted(c) \/ handleTurnCompleted(c)
  \/ ReadBusy(c) \/ SetRemoteWorking(c) \/ EmitWorking(c)
  \/ ReaderEnds(c) /\ UNCHANGED codexRemoteVars

RuntimeStep ==
  \/ CodexRemoteNotSpawned \/ CodexInitialized \/ CodexNotInitialized \/ CodexOpensThread
  \/ CodexOpensAgain \/ CodexRemoteReady \/ CodexStopEmits \/ CodexStopCloses \/ CodexAborted

CallStep(who) == (Register(who) \/ SendRequest(who) \/ CallTimesOut(who)) /\ UNCHANGED codexRemoteVars

\* What happens by itself.
CodexRemoteStep ==
  \/ RuntimeStep
  \/ \E who \in Callers : CallStep(who)
  \/ CodexStartsTurn \/ CodexTurnAccepted \/ CodexStartsAgain \/ CodexTurnBegun \/ CodexTurnNotBegun
  \/ \E c \in Runs : \/ ReaderStep(c)
                     \/ proc[c] = "killed" /\ AppServerDies(c) /\ UNCHANGED codexRemoteVars

CodexRemoteNext ==
  \/ CodexRemoteStep \/ CodexStartRemote \/ CodexStopRemote \/ CodexAbort \/ CodexSend
  \/ \E c \in Runs : (AppServerAnswers(c) \/ AppServerEndsTurn(c) \/ AppServerDies(c))
                     /\ UNCHANGED codexRemoteVars
=============================================================================
