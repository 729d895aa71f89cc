------------------------------ MODULE AgentEngines ------------------------------
(***************************************************************************)
(* The agent engines, one half of one engine at a time, and what the         *)
(* session's runtime and the phone rely on.                                  *)
(***************************************************************************)
EXTENDS CodexLocal, CodexRemote, ClaudeLocal, ClaudeRemote, AcpEngine,
        Transcripts

Init ==
  /\ EventsInit
  /\ CodexLocalInit /\ ClientInit /\ CodexRemoteInit
  /\ ClaudeLocalInit /\ ClaudeRemoteInit /\ AcpInit /\ TranscriptsInit

CodexLocalOnly ==
  UNCHANGED <<clientVars, codexRemoteVars, claudeLocalVars, claudeRemoteVars, acpVars, transcriptVars>>
CodexRemoteOnly ==
  UNCHANGED <<codexLocalVars, claudeLocalVars, claudeRemoteVars, acpVars, transcriptVars>>
ClaudeLocalOnly ==
  UNCHANGED <<codexLocalVars, clientVars, codexRemoteVars, claudeRemoteVars, acpVars, transcriptVars>>
ClaudeRemoteOnly ==
  UNCHANGED <<codexLocalVars, clientVars, codexRemoteVars, claudeLocalVars, acpVars, transcriptVars>>
AcpOnly ==
  UNCHANGED <<codexLocalVars, clientVars, codexRemoteVars, claudeLocalVars, claudeRemoteVars,
              transcriptVars>>
TranscriptOnly ==
  UNCHANGED <<codexLocalVars, clientVars, codexRemoteVars, claudeLocalVars, claudeRemoteVars, acpVars>>

Next ==
  \/ half = "codex local" /\ CodexLocalNext /\ CodexLocalOnly
  \/ half = "codex remote" /\ CodexRemoteNext /\ CodexRemoteOnly
  \/ half = "claude local" /\ ClaudeLocalNext /\ ClaudeLocalOnly
  \/ half = "claude remote" /\ ClaudeRemoteNext /\ ClaudeRemoteOnly
  \/ half = "acp" /\ AcpNext /\ AcpOnly
  \/ half \in {"codex transcript", "claude transcript"} /\ TranscriptNext /\ TranscriptOnly

vars == <<eventVars, codexLocalVars, clientVars, codexRemoteVars, claudeLocalVars,
          claudeRemoteVars, acpVars, transcriptVars>>

Spec == Init /\ [][Next]_vars

\* Goroutines run, timeouts pass and killed processes die; the agents and the
\* people need do nothing.
CodexLocalRuns == half = "codex local" /\ CodexLocalStep /\ CodexLocalOnly
ClaudeLocalRuns == half = "claude local" /\ ClaudeLocalStep /\ ClaudeLocalOnly
AcpRuntimeRuns == half = "acp" /\ AcpRuntimeStep /\ AcpOnly
AcpTurnRuns == half = "acp" /\ AcpTurnStep /\ AcpOnly
ClaudeRuns(A) == half = "claude remote" /\ A /\ ClaudeRemoteOnly

FairSpec ==
  /\ Spec
  /\ WF_vars(CodexLocalRuns) /\ WF_vars(ClaudeLocalRuns)
  /\ WF_vars(AcpRuntimeRuns) /\ WF_vars(AcpTurnRuns)
  /\ WF_vars(ClaudeRuns(ClaudeRuntimeStep \/ ClaudeSendStep \/ \E r \in Runs : ReaperStep(r)))
  /\ WF_vars(ClaudeRuns(\E r \in Runs : BridgeStep(r)))
  /\ WF_vars(ClaudeRuns(\E r \in Runs : ScriptReads(r) \/ DecisionStep(r)))

----------------------------------------------------------------------------

Reports == INSTANCE EngineReports

\* Whatever the agent, a run is reported ready once and its exit at most once, after
\* it was reported ready; a start that fails is not reported.
ReportsSpec == Reports!Spec

\* The exit of a local run or of Claude's bridge is not lost, also not when the
\* process ends in the middle of Start: its run is reported, fails or is replaced.
ExitReported ==
  \A r \in Runs :
    (half \in {"codex local", "claude local", "claude remote"} /\ proc[r] = "dead" /\ r = current)
      ~> (r \in exited \/ r # current)

stray(r) == proc[r] \in {"up", "killed"} \/ (child[r] # "none" /\ r \notin failed)

\* A local run that was stopped or replaced leaves no process behind: neither its agent
\* nor a child of it, although the agent may be gone before the stop (configureLocalCmd-
\* ProcessGroup, stopLocalCmd).  Of a start that fails the agent goes; its child, which
\* startLocal does not kill, may stay, and is not claimed to go.
StrayProcessEnds ==
  \A r \in Runs :
    (half \in {"codex local", "claude local"} /\ r # current /\ at = "rest" /\ stray(r))
      ~> ~stray(r)

\* A scanner that was made while its run was being replaced stops.
ScannerStops ==
  \A r \in Runs : (scanners[r] = "running" /\ r # current) ~> (scanners[r] = "stopped")

\* A call that waits is one its client will answer or fail: a client that is closed
\* leaves nobody waiting.
NoOrphanCall ==
  \A who \in Callers : calls[who].pc = "await" =>
    /\ calls[who].client \notin closed
    /\ calls[who].id \in pending[calls[who].client]

\* A message is not reported as "timed out waiting for turn/started" when the turn
\* was seen to start, also not before the answer to turn/start was.
NoLostStart == [][CodexTurnNotBegun => ~message.begun]_vars

\* When everything that the attached app-server said is handled and no report is on its
\* way, the engine refuses messages and reports a turn exactly while that app-server
\* works on one: also one that replaced another, unless a reader of one that was stopped
\* has altered the turn or the report since (`intruded`), which no handler checks.
BusyWhileTurn ==
  \A c \in Runs :
    (/\ c = current /\ inbox[c] = <<>> /\ reader[c] = "read" /\ proc[c] = "up"
     /\ \A d \in Runs : reader[d] \notin {"emit busy", "emit idle"}
     /\ ~intruded)
    => LET busy == turn[c] # 0 IN (engine.turn # 0) = busy /\ engine.working = busy /\ told = busy

\* Claude's engine does not think that a turn goes on when all messages were worked
\* on and none was cut short.
QuietMeansIdle ==
  (/\ ~cut /\ outgoing.pc = "none"
   /\ \A r \in Runs : /\ input[r] = <<>> /\ output[r] = <<>>
                      /\ script[r].queue = 0 /\ script[r].busy = {})
  => ~remoteWorking

\* Claude is not left waiting for a permission while its bridge runs, whatever the
\* phone does.
PermissionAnswered ==
  \A r \in Runs :
    (proc[r] = "up" /\ script[r].asks # {}) ~> (proc[r] # "up" \/ script[r].asks = {})

\* Stop ends the turn of an ACP agent.
StopEndsAcp == (half = "acp" /\ pressed) ~> ~pressed

\* An abort that reaches the script in the middle of a turn ends what the phone shows
\* of it, while the bridge runs.  It does not: handleRemoteBridgeMessage waits for the
\* "result" of a child that the script has killed.
StopEndsClaude ==
  \A r \in Runs :
    (/\ half = "claude remote" /\ r = current /\ outgoing.pc = "none"
     /\ input[r] # <<>> /\ Head(input[r]).kind = "abort"
     /\ script[r].busy # {} /\ script[r].closing = {})
      ~> (~told \/ r # current \/ proc[r] # "up")

\* However often a session is taken to the phone and back, what was said at the desktop
\* is a message of the session once; with Codex also what was said remotely.
RecordedOnce ==
  \A m, n \in DOMAIN log :
    (log[m].line = log[n].line /\ (ofCodex \/ log[m].line \notin remotely)) => m = n

\* What the follower is past is a message of the session, or waits on the channel, or was
\* lost: torn, dropped by a full channel or by tryEmit, left on the channel when local
\* mode stopped, or, with Codex, written while nobody read and skipped when the Tailer
\* opened at the end.  Claude's Scanner makes up for all of it: it begins anew with
\* nothing lost.
TranscriptComplete ==
  \A i \in messagesOf(1..follower.pos) :
    i \in onChannel \cup lost \/ \E n \in DOMAIN log : log[n].line = i

outputOf(i, j) ==
  /\ i < j /\ file[i] = "call" /\ file[j] = "output"
  /\ \A k \in (i + 1)..j : file[k] # "call"

\* When Codex's file is read to the end, the phone is told of the turn that it is in,
\* unless the last message was not seen, and shows as running exactly the tools whose
\* call was seen and whose output was not: for as long as there is none, or for good
\* when it was skipped or dropped.
ActivityFollows ==
  (ofCodex /\ follower.on /\ follower.pos = Len(file) /\ channel = <<>>) =>
    /\ \A i \in lastOf({"user", "text"}) \ unseen : told = (file[i] = "user")
    /\ running = {i \in DOMAIN file \ unseen :
                    file[i] = "call" /\ \A j \in DOMAIN file \ unseen : ~outputOf(i, j)}
=============================================================================
