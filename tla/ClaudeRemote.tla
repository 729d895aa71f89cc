------------------------------ MODULE ClaudeRemote ------------------------------
(***************************************************************************)
(* The remote half of the Claude engine: a Node script per run that hands    *)
(* the user's messages to a Claude process of its own, one turn at a time,   *)
(* and RemoteBridge, which talks to the script over its standard streams.    *)
(* `current` is the attached bridge.                                         *)
(***************************************************************************)
EXTENDS EngineEvents

VARIABLES
  script,          \* per run, the script's state
  input,           \* per run, lines the script has not read
  output,          \* per run, lines it has written and readMessages has not read
  reaping,         \* runs whose goroutine waits for the script to exit
  deciding,        \* permission requests <<run, child>> the phone has not decided
  remoteWorking,   \* the engine's idea of whether a turn runs
  emitting,        \* the value readMessages' goroutine is about to report
  outgoing,        \* the message being sent
  cut              \* a turn, a child or a script ended before its time

claudeRemoteVars ==
  <<script, input, output, reaping, deciding, remoteWorking, emitting, outgoing, cut>>

notSent == [pc |-> "none", run |-> 0]

\* The script's first child is spawned before it says ready.
freshScript == [queue |-> 0, child |-> 1, spawned |-> 1, ready |-> TRUE,
                busy |-> {}, asks |-> {}, closing |-> {}]

ClaudeRemoteInit ==
  /\ script = [r \in Runs |-> freshScript]
  /\ input = [r \in Runs |-> <<>>]
  /\ output = [r \in Runs |-> <<>>]
  /\ reaping = {} /\ deciding = {}
  /\ remoteWorking = FALSE /\ emitting = "none"
  /\ outgoing = notSent
  /\ cut = FALSE

----------------------------------------------------------------------------
\* The script

line(kind, child) == [kind |-> kind, child |-> child]

queued(s) == [s EXCEPT !.queue = @ + 1]

ended(s) == [s EXCEPT !.busy = @ \ {s.child}, !.ready = TRUE]

cleaned(s) == [s EXCEPT !.child = 0, !.ready = TRUE]

killedChild(s) ==
  IF s.child = 0 THEN s
  ELSE [s EXCEPT !.closing = @ \cup {s.child}, !.busy = @ \ {s.child}, !.asks = @ \ {s.child}]

respawned(s) == [s EXCEPT !.child = s.spawned + 1, !.spawned = @ + 1]

alive(s) == {s.child} \cap (s.busy \ (s.asks \cup s.closing))

\* maybePump
pumped(s) ==
  IF s.ready /\ s.queue > 0
  THEN LET t == IF s.child = 0 THEN respawned(s) ELSE s
       IN  [t EXCEPT !.queue = @ - 1, !.ready = FALSE, !.busy = @ \cup {t.child}]
  ELSE s

ScriptReads(r) ==
  /\ proc[r] = "up" /\ input[r] # <<>>
  /\ input' = [input EXCEPT ![r] = Tail(@)]
  /\ LET m == Head(input[r]) IN
       \/ /\ m.kind = "user"
          /\ script' = [script EXCEPT ![r] = pumped(queued(@))]
          /\ UNCHANGED cut
       \/ /\ m.kind = "abort"
          /\ script' = [script EXCEPT ![r] = pumped(cleaned(killedChild(@)))]
          /\ cut' = TRUE
       \/ /\ m.kind = "control_response"
          /\ script' = [script EXCEPT ![r].asks = @ \ {m.child}]
          /\ UNCHANGED cut
  /\ UNCHANGED <<eventVars, output, reaping, deciding, remoteWorking, emitting, outgoing>>

Writes(r, kind, child) == output' = [output EXCEPT ![r] = Append(@, line(kind, child))]

\* What the current child writes is passed on; its turn ends with "result".
ChildThinks(r) ==
  /\ proc[r] = "up" /\ alive(script[r]) # {}
  /\ output[r] = <<>>
  /\ Writes(r, "thinking", 0)
  /\ UNCHANGED <<eventVars, script, input, reaping, deciding, remoteWorking, emitting, outgoing, cut>>

ChildAsks(r) ==
  LET c == script[r].child IN
  /\ proc[r] = "up" /\ c \in alive(script[r])
  /\ \A m \in {output[r][i] : i \in DOMAIN output[r]} : m.kind # "control_request"
  /\ Writes(r, "control_request", c)
  /\ script' = [script EXCEPT ![r].asks = @ \cup {c}]
  /\ UNCHANGED <<eventVars, input, reaping, deciding, remoteWorking, emitting, outgoing, cut>>

ChildResult(r) ==
  LET c == script[r].child IN
  /\ proc[r] = "up" /\ c \in alive(script[r])
  /\ Writes(r, "result", 0)
  /\ script' = [script EXCEPT ![r] = pumped(ended(@))]
  /\ UNCHANGED <<eventVars, input, reaping, deciding, remoteWorking, emitting, outgoing, cut>>

\* Bound: the first child only dies early.
ChildDies(r) ==
  /\ script[r].spawned = 1
  /\ proc[r] = "up" /\ script[r].child # 0 /\ script[r].child \notin script[r].closing
  /\ script' = [script EXCEPT ![r] = killedChild(@)]
  /\ cut' = TRUE
  /\ UNCHANGED <<eventVars, input, output, reaping, deciding, remoteWorking, emitting, outgoing>>

\* The 'close' event of a child, which may not be the current one any more.  When
\* the session to resume is not found, another child is spawned.
ChildCloses(r, c) ==
  LET s == [cleaned(script[r]) EXCEPT !.closing = @ \ {c}] IN
  /\ proc[r] = "up" /\ c \in script[r].closing
  /\ \/ script' = [script EXCEPT ![r] = s]
     \/ c = script[r].child /\ script' = [script EXCEPT ![r] = pumped(respawned(s))]
  /\ UNCHANGED <<eventVars, input, output, reaping, deciding, remoteWorking, emitting, outgoing, cut>>

ScriptDies(r) ==
  /\ proc[r] \in {"up", "killed"}
  /\ proc' = [proc EXCEPT ![r] = "dead"]
  /\ cut' = TRUE
  /\ UNCHANGED <<half, reportVars, runtimeVars, phoneVars, script, input, output, reaping, deciding,
                 remoteWorking, emitting, outgoing>>

----------------------------------------------------------------------------
\* startRemote

ClaudeStartRemote ==
  /\ Started
  /\ \/ GoTo("wait") /\ proc' = [proc EXCEPT ![started'] = "up"] /\ Writes(started', "ready", 0)
     \/ GoTo("no bridge") /\ UNCHANGED <<proc, output>>
  /\ UNCHANGED <<half, phoneVars, current, handle, script, input, reaping, deciding, remoteWorking,
                 emitting, outgoing, cut>>

\* The script is nowhere to be found.
ClaudeNoBridge ==
  /\ at = "no bridge" /\ Failed
  /\ UNCHANGED <<half, phoneVars, current, handle, proc, claudeRemoteVars>>

\* RemoteBridge.Start: without ready in time the process is left as it is.
ClaudeRemoteFails ==
  /\ at = "wait" /\ Failed
  /\ UNCHANGED <<half, phoneVars, current, handle, proc, claudeRemoteVars>>

ClaudeAttachesRemote ==
  /\ at = "wait" /\ output[started] # <<>> /\ Head(output[started]).kind = "ready"
  /\ output' = [output EXCEPT ![started] = Tail(@)]
  /\ handle' = current
  /\ current' = started
  /\ GoTo("ready")
  /\ UNCHANGED <<half, reportVars, phoneVars, proc, script, input, reaping, deciding, remoteWorking,
                 emitting, outgoing, cut>>

ClaudeRemoteReady ==
  /\ at = "ready" /\ GoTo("replace")
  /\ EvReady
  /\ UNCHANGED <<half, phoneVars, current, handle, proc, claudeRemoteVars>>

ClaudeReaps ==
  /\ at = "replaced" /\ GoTo("rest")
  /\ reaping' = reaping \cup {started}
  /\ UNCHANGED <<half, reportVars, phoneVars, current, handle, proc, script, input, output, deciding,
                 remoteWorking, emitting, outgoing, cut>>

----------------------------------------------------------------------------
\* stopRemoteAndWait, and remoteStopHandle.stop for either caller

ClaudeStopRemote ==
  /\ at = "rest" /\ current # 0
  /\ handle' = current
  /\ current' = 0
  /\ GoTo("stop")
  /\ UNCHANGED <<half, reportVars, phoneVars, proc, claudeRemoteVars>>

\* Kill: nothing is read or written any more.
ClaudeKillsRemote ==
  /\ at \in {"replace", "stop"}
  /\ GoTo(IF at = "replace" THEN "replacing" ELSE "stopping")
  /\ proc' = Killed(handle)
  /\ output' = IF handle # 0 THEN [output EXCEPT ![handle] = <<>>] ELSE output
  /\ cut' = (cut \/ handle # 0)
  /\ UNCHANGED <<half, reportVars, phoneVars, current, handle, script, input, reaping, deciding,
                 remoteWorking, emitting, outgoing>>

\* The exit is known, or five seconds have passed.
ClaudeRemoteStopped ==
  /\ at \in {"replacing", "stopping"}
  /\ GoTo(IF at = "replacing" THEN "replaced" ELSE "rest")
  /\ handle' = 0
  /\ UNCHANGED <<half, reportVars, phoneVars, current, proc, claudeRemoteVars>>

ClaudeReportsRemoteExit(r) ==
  /\ r \in reaping /\ proc[r] = "dead"
  /\ reaping' = reaping \ {r}
  /\ EvExited(r)
  /\ UNCHANGED <<half, phoneVars, runtimeVars, proc, script, input, output, deciding, remoteWorking,
                 emitting, outgoing, cut>>

----------------------------------------------------------------------------
\* SendUserMessage and Abort

sendMessage(r, kind, child) ==
  input' = IF proc[r] = "up" THEN [input EXCEPT ![r] = Append(@, line(kind, child))] ELSE input

\* Mutant: the message is written before the working state is set.
writtenFirst == <<"write", "set">>

sendOrder == <<"set", "write">>

after(pc) == IF pc = sendOrder[1] THEN [outgoing EXCEPT !.pc = sendOrder[2]] ELSE notSent

ClaudeSend ==
  /\ outgoing.pc = "none" /\ MoreInput
  /\ sends' = sends + 1
  /\ outgoing' = IF current = 0 THEN notSent ELSE [pc |-> sendOrder[1], run |-> current]
  /\ UNCHANGED <<half, reportVars, runtimeVars, told, pressed, stops, proc, script, input, output,
                 reaping, deciding, remoteWorking, emitting, cut>>

\* setRemoteWorking(true); the report follows when the lock is released.
ClaudeSetsWorking ==
  /\ outgoing.pc = "set"
  /\ remoteWorking' = TRUE
  /\ outgoing' = IF remoteWorking THEN after("set") ELSE [outgoing EXCEPT !.pc = "emit"]
  /\ UNCHANGED <<eventVars, script, input, output, reaping, deciding, emitting, cut>>

ClaudeEmitsWorking ==
  /\ outgoing.pc = "emit"
  /\ EvWorking(TRUE)
  /\ outgoing' = after("set")
  /\ UNCHANGED <<half, reportVars, runtimeVars, proc, script, input, output, reaping, deciding,
                 remoteWorking, emitting, cut>>

ClaudeWrites ==
  /\ outgoing.pc = "write"
  /\ sendMessage(outgoing.run, "user", 0)
  /\ outgoing' = after("write")
  /\ UNCHANGED <<eventVars, script, output, reaping, deciding, remoteWorking, emitting, cut>>

ClaudeAbort ==
  /\ PressStop
  /\ current # 0 /\ sendMessage(current, "abort", 0)
  /\ UNCHANGED <<half, reportVars, runtimeVars, proc, script, output, reaping, deciding,
                 remoteWorking, emitting, outgoing, cut>>

----------------------------------------------------------------------------
\* readMessages

reads(r, kind) ==
  /\ emitting = "none" /\ output[r] # <<>> /\ Head(output[r]).kind = kind
  /\ output' = [output EXCEPT ![r] = Tail(@)]

\* setRemoteWorking; the report follows when the lock is released.
setRemoteWorking(working) ==
  /\ remoteWorking' = working
  /\ emitting' = IF remoteWorking = working THEN "none" ELSE IF working THEN "busy" ELSE "idle"
  /\ UNCHANGED <<eventVars, script, input, reaping, deciding, outgoing, cut>>

\* handleRemoteBridgeMessage: "result" ends the turn.
BridgeReadsResult(r) == reads(r, "result") /\ setRemoteWorking(FALSE)

\* emitRemoteUIEventsFromRaw: Claude thinks, so that a turn goes on.
BridgeReadsThoughts(r) == reads(r, "thinking") /\ setRemoteWorking(TRUE)

BridgeEmits ==
  /\ emitting # "none"
  /\ EvWorking(emitting = "busy")
  /\ emitting' = "none"
  /\ UNCHANGED <<half, reportVars, runtimeVars, proc, script, input, output, reaping, deciding,
                 remoteWorking, outgoing, cut>>

\* A goroutine of its own waits for the phone.
BridgeReadsRequest(r) ==
  /\ reads(r, "control_request")
  /\ deciding' = deciding \cup {<<r, Head(output[r]).child>>}
  /\ UNCHANGED <<eventVars, script, input, reaping, remoteWorking, emitting, outgoing, cut>>

\* Mutant: without the timeout only the end of the run answers for the phone.
PermissionCancelled(r, c) ==
  /\ <<r, c>> \in deciding /\ r # current
  /\ deciding' = deciding \ {<<r, c>>}
  /\ sendMessage(r, "control_response", c)
  /\ UNCHANGED <<eventVars, script, output, reaping, remoteWorking, emitting, outgoing, cut>>

\* The phone decides, the context of the run is done, or five minutes pass.
PermissionDecided(r, c) ==
  /\ <<r, c>> \in deciding
  /\ deciding' = deciding \ {<<r, c>>}
  /\ sendMessage(r, "control_response", c)
  /\ UNCHANGED <<eventVars, script, output, reaping, remoteWorking, emitting, outgoing, cut>>

\* What happens by itself.
ClaudeRuntimeStep ==
  \/ ClaudeNoBridge \/ ClaudeRemoteFails \/ ClaudeAttachesRemote \/ ClaudeRemoteReady \/ ClaudeReaps
  \/ ClaudeKillsRemote \/ ClaudeRemoteStopped
ClaudeSendStep == ClaudeSetsWorking \/ ClaudeEmitsWorking \/ ClaudeWrites
BridgeStep(r) ==
  \/ BridgeReadsResult(r) \/ BridgeReadsThoughts(r) \/ BridgeReadsRequest(r) \/ BridgeEmits
ReaperStep(r) == ClaudeReportsRemoteExit(r) \/ (proc[r] = "killed" /\ ScriptDies(r))
DecisionStep(r) == \E p \in deciding : p[1] = r /\ PermissionDecided(r, p[2])

ClaudeRemoteNext ==
  \/ ClaudeRuntimeStep \/ ClaudeSendStep
  \/ ClaudeStartRemote \/ ClaudeStopRemote \/ ClaudeSend \/ ClaudeAbort
  \/ \E r \in Runs : \/ BridgeStep(r) \/ ScriptReads(r) \/ ReaperStep(r) \/ DecisionStep(r)
                     \/ ChildThinks(r) \/ ChildAsks(r) \/ ChildResult(r) \/ ChildDies(r)
                     \/ ScriptDies(r)
                     \/ \E c \in script[r].closing : ChildCloses(r, c)
=============================================================================
