-------------------------- MODULE AgentEngines_proofs --------------------------
(***************************************************************************)
(* Proofs about the agent engines: what they report implements              *)
(* EngineReports; the invariants of the calls and turns of the Codex        *)
(* app-server, of the working state of Claude's engine and of the           *)
(* transcripts.                                                             *)
(***************************************************************************)
EXTENDS AgentEngines, Integers, TLAPS

LEMMA Bounds == MaxRuns \in Nat /\ MaxInputs \in Nat
BY EventsOK

----------------------------------------------------------------------------
(* The reports about runs.  Which run is being started, and whether it was  *)
(* reported ready already, is known from the place the runtime's goroutine  *)
(* has reached.                                                             *)

\* Start is under way and EvReady is still to come.
starting ==
  \/ at \in {"not spawned", "discover", "tail", "probe", "attach", "wait", "no bridge", "ready",
             "initialize", "thread", "not configured"}
  \/ half = "codex local" /\ at \in {"replace", "replacing", "replaced"}

\* Claude's Start goes on after EvReady; the goroutine that reports the exit comes last.
replacing ==
  half \in {"claude local", "claude remote"} /\ at \in {"replace", "replacing", "replaced"}

\* Runs whose goroutine is to report the exit.
reporting ==
  IF half = "codex local" THEN forwarding
  ELSE IF half = "claude local" THEN waiting
  ELSE IF half = "claude remote" THEN reaping
  ELSE {}

ReportsInv ==
  /\ started \in Nat /\ failed \cup ready \subseteq 1..started
  /\ starting => started \notin failed \cup ready \cup {0}
  /\ replacing => started \in ready \ (exited \cup reporting)
  /\ reporting \subseteq ready \ exited /\ exited \subseteq ready

ReportsGood == ReportsInv' /\ [Reports!Next]_(Reports!reports)

LEMMA InitReports == Init => ReportsInv /\ Reports!Init
<1> SUFFICES ASSUME Init PROVE ReportsInv /\ Reports!Init
  OBVIOUS
<1>1. started = 0 /\ failed = {} /\ ready = {} /\ exited = {} /\ at = "rest"
  BY DEF Init, EventsInit
<1>2. ~starting /\ ~replacing
  BY <1>1 DEF starting, replacing
<1>3. reporting = {}
  BY DEF reporting, Init, CodexLocalInit, ClaudeLocalInit, ClaudeRemoteInit
<1> QED BY <1>1, <1>2, <1>3 DEF ReportsInv, Reports!Init

\* A step that reports nothing.
LEMMA Silent ==
  ASSUME ReportsInv, UNCHANGED reportVars, starting' => starting, replacing' => replacing,
         \/ reporting' = reporting
         \/ replacing /\ ~replacing' /\ reporting' = reporting \cup {started}
  PROVE  ReportsGood
<1>1. started' = started /\ failed' = failed /\ ready' = ready /\ exited' = exited
  BY DEF reportVars
<1>2. ReportsInv'
  BY <1>1 DEF ReportsInv
<1> QED BY <1>1, <1>2 DEF ReportsGood, Reports!reports

LEMMA StartReported ==
  ASSUME ReportsInv, started' = started + 1, UNCHANGED <<failed, ready, exited>>, ~replacing',
         reporting' = reporting
  PROVE  ReportsGood
<1>1. started' = started + 1 /\ failed' = failed /\ ready' = ready /\ exited' = exited
  OBVIOUS
<1>2. ReportsInv'
  <2>1. started' \in Nat /\ started' \notin failed \cup ready \cup {0} /\ 1..started \subseteq 1..started'
    BY <1>1 DEF ReportsInv
  <2> QED BY <1>1, <2>1 DEF ReportsInv
<1> QED BY <1>1, <1>2 DEF ReportsGood, Reports!reports, Reports!Next, Reports!Start

LEMMA FailReported ==
  ASSUME ReportsInv, starting, Failed, reporting' = reporting
  PROVE  ReportsGood
<1>1. started' = started /\ failed' = failed \cup {started} /\ ready' = ready /\ exited' = exited
  BY DEF Failed
<1>2. ~starting' /\ ~replacing'
  BY DEF Failed, GoTo, starting, replacing
<1>3. started \in 1..started /\ started \notin failed \cup ready \cup {0}
  BY DEF ReportsInv
<1>4. ReportsInv'
  BY <1>1, <1>2, <1>3 DEF ReportsInv
<1> QED BY <1>1, <1>3, <1>4 DEF ReportsGood, Reports!reports, Reports!Next, Reports!Fail

LEMMA ReadyReported ==
  ASSUME ReportsInv, starting, EvReady, ~starting',
         \/ reporting' = reporting
         \/ ~replacing' /\ reporting' = reporting \cup {started}
  PROVE  ReportsGood
<1>1. started' = started /\ failed' = failed /\ ready' = ready \cup {started} /\ exited' = exited
  BY DEF EvReady
<1>2. started \in 1..started /\ started \notin failed \cup ready \cup {0}
  BY DEF ReportsInv
<1>3. started \notin exited \cup reporting
  BY <1>2 DEF ReportsInv
<1>4. ReportsInv'
  BY <1>1, <1>2, <1>3 DEF ReportsInv
<1> QED BY <1>1, <1>2, <1>4 DEF ReportsGood, Reports!reports, Reports!Next, Reports!Ready

LEMMA ExitIsReported ==
  ASSUME ReportsInv, NEW r \in reporting, EvExited(r), starting' => starting,
         replacing' => replacing, reporting' = reporting \ {r}
  PROVE  ReportsGood
<1>1. started' = started /\ failed' = failed /\ ready' = ready /\ exited' = exited \cup {r}
  BY DEF EvExited
<1>2. r \in ready \ exited /\ (replacing => r # started)
  BY DEF ReportsInv
<1>3. ReportsInv'
  BY <1>1, <1>2 DEF ReportsInv
<1> QED BY <1>1, <1>2, <1>3 DEF ReportsGood, Reports!reports, Reports!Next, Reports!Exit

LEMMA CodexLocalReports ==
  ASSUME ReportsInv, half = "codex local", CodexLocalNext
  PROVE  ReportsGood
<1> USE DEF starting, replacing, reporting, codexLocalVars, runtimeVars, GoTo
<1>1. CASE CodexStartLocal
  BY <1>1, StartReported DEF Started, CodexStartLocal
<1>2. CASE CodexNotSpawned
  BY <1>2, FailReported DEF CodexNotSpawned
<1>3. CASE CodexDiscovers
  BY <1>3, FailReported, Silent DEF CodexDiscovers, GivenUp
<1>4. CASE CodexTails
  BY <1>4, FailReported, Silent DEF CodexTails, GivenUp
<1>5. CASE CodexProbes
  BY <1>5, FailReported, Silent DEF CodexProbes
<1>6. CASE CodexAttaches
  BY <1>6, Silent DEF CodexAttaches
<1>7. CASE CodexReady
  BY <1>7, ReadyReported DEF CodexReady
<1>8. CASE CodexKills
  BY <1>8, Silent DEF CodexKills
<1>9. CASE CodexStopped
  BY <1>9, Silent DEF CodexStopped
<1>10. ASSUME NEW r \in Runs, CodexReportsExit(r)
       PROVE  ReportsGood
  BY <1>10, ExitIsReported DEF CodexReportsExit
<1>11. ASSUME NEW r \in Runs, CodexEnds(r) \/ ChildEnds(r)
       PROVE  ReportsGood
  BY <1>11, Silent DEF CodexEnds, ChildEnds
<1>12. CASE CodexStopLocal
  BY <1>12, Silent DEF CodexStopLocal
<1> QED BY <1>1, <1>2, <1>3, <1>4, <1>5, <1>6, <1>7, <1>8, <1>9, <1>10, <1>11, <1>12
        DEF CodexLocalNext, CodexLocalStep

LEMMA ClaudeLocalReports ==
  ASSUME ReportsInv, half = "claude local", ClaudeLocalNext
  PROVE  ReportsGood
<1> USE DEF starting, replacing, reporting, claudeLocalVars, runtimeVars, GoTo
<1>1. CASE ClaudeStartLocal
  BY <1>1, StartReported DEF Started, ClaudeStartLocal
<1>2. CASE ClaudeNotSpawned
  BY <1>2, FailReported DEF ClaudeNotSpawned
<1>3. CASE ClaudeAttaches
  BY <1>3, Silent DEF ClaudeAttaches
<1>4. CASE ClaudeReady
  BY <1>4, ReadyReported DEF ClaudeReady
<1>5. CASE ClaudeWatches
  BY <1>5, Silent DEF ClaudeWatches
<1>6. CASE ClaudeKills
  BY <1>6, Silent DEF ClaudeKills
<1>7. CASE ClaudeStopped
  BY <1>7, Silent DEF ClaudeStopped
<1>8. CASE ClaudeStopLocal
  BY <1>8, Silent DEF ClaudeStopLocal
<1>9. ASSUME NEW r \in Runs, ClaudeReportsExit(r)
      PROVE  ReportsGood
  BY <1>9, ExitIsReported DEF ClaudeReportsExit
<1>10. ASSUME NEW r \in Runs,
              \/ ClaudeEnds(r) \/ ClaudeNamed(r) \/ ClaudeFileAwaited(r) \/ ClaudeDetected(r)
              \/ ClaudeGivesUp(r) \/ ClaudeAttachesScanner(r)
       PROVE  ReportsGood
  BY <1>10, Silent
  DEF ClaudeEnds, ClaudeNamed, ClaudeFileAwaited, ClaudeDetected, ClaudeGivesUp,
      ClaudeAttachesScanner
<1> QED BY <1>1, <1>2, <1>3, <1>4, <1>5, <1>6, <1>7, <1>8, <1>9, <1>10
        DEF ClaudeLocalNext, ClaudeLocalStep

LEMMA ClaudeRemoteReports ==
  ASSUME ReportsInv, half = "claude remote", ClaudeRemoteNext
  PROVE  ReportsGood
<1> USE DEF starting, replacing, reporting, claudeRemoteVars, runtimeVars, GoTo
<1>1. CASE ClaudeStartRemote
  BY <1>1, StartReported DEF Started, ClaudeStartRemote
<1>2. CASE ClaudeNoBridge \/ ClaudeRemoteFails
  BY <1>2, FailReported DEF ClaudeNoBridge, ClaudeRemoteFails
<1>3. CASE ClaudeAttachesRemote
  BY <1>3, Silent DEF ClaudeAttachesRemote
<1>4. CASE ClaudeRemoteReady
  BY <1>4, ReadyReported DEF ClaudeRemoteReady
<1>5. CASE ClaudeReaps
  BY <1>5, Silent DEF ClaudeReaps
<1>6. CASE ClaudeKillsRemote
  BY <1>6, Silent DEF ClaudeKillsRemote
<1>7. CASE ClaudeRemoteStopped
  BY <1>7, Silent DEF ClaudeRemoteStopped
<1>8. CASE ClaudeStopRemote
  BY <1>8, Silent DEF ClaudeStopRemote
<1>9. CASE ClaudeSendStep \/ ClaudeSend \/ ClaudeAbort
  BY <1>9, Silent
  DEF ClaudeSendStep, ClaudeSetsWorking, ClaudeEmitsWorking, ClaudeWrites, ClaudeSend, ClaudeAbort,
      eventVars
<1>10. ASSUME NEW r \in Runs, ClaudeReportsRemoteExit(r)
       PROVE  ReportsGood
  BY <1>10, ExitIsReported DEF ClaudeReportsRemoteExit
<1>11. ASSUME NEW r \in Runs, BridgeStep(r) \/ DecisionStep(r)
       PROVE  ReportsGood
  BY <1>11, Silent
  DEF BridgeStep, BridgeReadsResult, BridgeReadsThoughts, BridgeReadsRequest, BridgeEmits,
      setRemoteWorking, DecisionStep, PermissionDecided, eventVars
<1>12. ASSUME NEW r \in Runs,
              \/ ScriptReads(r) \/ ScriptDies(r) \/ ChildThinks(r) \/ ChildAsks(r)
              \/ ChildResult(r) \/ ChildDies(r) \/ \E c \in script[r].closing : ChildCloses(r, c)
       PROVE  ReportsGood
  BY <1>12, Silent
  DEF ScriptReads, ScriptDies, ChildThinks, ChildAsks, ChildResult, ChildDies, ChildCloses, eventVars
<1> QED BY <1>1, <1>2, <1>3, <1>4, <1>5, <1>6, <1>7, <1>8, <1>9, <1>10, <1>11, <1>12
        DEF ClaudeRemoteNext, ClaudeRuntimeStep, ReaperStep

LEMMA AcpReports ==
  ASSUME ReportsInv, half = "acp", AcpNext
  PROVE  ReportsGood
<1> USE DEF starting, replacing, reporting, acpVars, runtimeVars, GoTo
<1>1. CASE AcpStart
  BY <1>1, StartReported DEF Started, AcpStart
<1>2. CASE AcpNotConfigured
  BY <1>2, FailReported DEF AcpNotConfigured
<1>3. CASE AcpReady
  BY <1>3, ReadyReported DEF AcpReady
<1>4. CASE AcpPressStop
  BY <1>4, Silent DEF AcpPressStop
<1>5. CASE AcpAbort
  BY <1>5, Silent DEF AcpAbort
<1>6. CASE AcpStop \/ AcpSend \/ AcpTurnStep
  BY <1>6, Silent
  DEF AcpStop, AcpSend, AcpTurnStep, AcpCancelsPrevious, AcpTells, AcpRequest, AcpAwaits, AcpPauses,
      AcpEnds, eventVars
<1> QED BY <1>1, <1>2, <1>3, <1>4, <1>5, <1>6 DEF AcpNext, AcpRuntimeStep

LEMMA CodexRemoteReports ==
  ASSUME ReportsInv, half = "codex remote", CodexRemoteNext
  PROVE  ReportsGood
<1> USE DEF starting, replacing, reporting, runtimeVars, GoTo
<1>1. CASE CodexStartRemote
  BY <1>1, StartReported DEF Started, CodexStartRemote
<1>2. CASE CodexRemoteNotSpawned \/ CodexNotInitialized
  BY <1>2, FailReported DEF CodexRemoteNotSpawned, CodexNotInitialized
<1>3. CASE CodexInitialized
  BY <1>3, Silent DEF CodexInitialized
<1>4. CASE CodexOpensThread \/ CodexOpensAgain
  BY <1>4, FailReported, Silent DEF CodexOpensThread, CodexOpensAgain
<1>5. CASE CodexRemoteReady
  BY <1>5, ReadyReported DEF CodexRemoteReady
<1>6. CASE CodexStopRemote
  BY <1>6, Silent DEF CodexStopRemote
<1>7. CASE CodexStopEmits \/ CodexStopCloses \/ CodexAborted \/ CodexAbort
  BY <1>7, Silent DEF CodexStopEmits, CodexStopCloses, CodexAborted, CodexAbort
<1>8. CASE \/ CodexSend \/ CodexStartsTurn \/ CodexTurnAccepted \/ CodexStartsAgain
           \/ CodexTurnBegun \/ CodexTurnNotBegun
  BY <1>8, Silent
  DEF CodexSend, CodexStartsTurn, CodexTurnAccepted, CodexStartsAgain, CodexTurnBegun, CodexTurnNotBegun,
      eventVars
<1>9. ASSUME NEW who \in Callers, CallStep(who)
      PROVE  ReportsGood
  BY <1>9, Silent DEF CallStep, Register, SendRequest, CallTimesOut, eventVars
<1>10. ASSUME NEW c \in Runs, ReaderStep(c)
       PROVE  ReportsGood
  BY <1>10, Silent
  DEF ReaderStep, ReadResponse, handleThreadStarted, handleTurnStarted, handleTurnCompleted, ReadBusy,
      SetRemoteWorking, EmitWorking, ReaderEnds, eventVars
<1>11. ASSUME NEW c \in Runs, AppServerAnswers(c) \/ AppServerEndsTurn(c) \/ AppServerDies(c)
       PROVE  ReportsGood
  BY <1>11, Silent DEF AppServerAnswers, AppServerEndsTurn, AppServerDies, eventVars
<1> QED BY <1>1, <1>2, <1>3, <1>4, <1>5, <1>6, <1>7, <1>8, <1>9, <1>10, <1>11
        DEF CodexRemoteNext, CodexRemoteStep, RuntimeStep

LEMMA TranscriptReports ==
  ASSUME ReportsInv, half \in {"codex transcript", "claude transcript"}, TranscriptNext
  PROVE  ReportsGood
<1> USE DEF starting, replacing, reporting, runtimeVars, GoTo
<1>1. CASE StartsLocal
  BY <1>1, StartReported DEF StartsLocal
<1>2. CASE StopsLocal
  BY <1>2, Silent DEF StopsLocal
<1>3. CASE AgentWrites \/ RemoteTurn \/ ReaderOpens \/ ReadsPart \/ ReadsLine
  BY <1>3, Silent DEF AgentWrites, RemoteTurn, ReaderOpens, ReadsPart, ReadsLine, eventVars
<1>4. CASE ForwardsRecord \/ ForwardsMessage \/ ForwardsCall \/ ForwardsOutput
  BY <1>4, Silent DEF ForwardsRecord, ForwardsMessage, ForwardsCall, ForwardsOutput, Forwards
<1> QED BY <1>1, <1>2, <1>3, <1>4 DEF TranscriptNext

LEMMA ReportsNext ==
  ASSUME ReportsInv, [Next]_vars
  PROVE  ReportsGood
<1>1. CASE UNCHANGED vars
  BY <1>1, Silent
  DEF vars, eventVars, runtimeVars, codexLocalVars, claudeLocalVars, claudeRemoteVars, starting,
      replacing, reporting
<1>2. CASE Next
  BY <1>2, CodexLocalReports, CodexRemoteReports, ClaudeLocalReports, ClaudeRemoteReports, AcpReports,
     TranscriptReports
  DEF Next
<1> QED BY <1>1, <1>2

\* Whatever the agent and however its processes die, are killed or stay, a run is
\* reported ready once, its exit at most once and only afterwards, and a start that
\* fails is not reported.
THEOREM ReportsImplemented == Spec => ReportsSpec
<1>1. ReportsInv /\ [Next]_vars => ReportsInv' /\ [Reports!Next]_(Reports!reports)
  BY ReportsNext DEF ReportsGood
<1> QED BY <1>1, InitReports, PTL DEF Spec, ReportsSpec, Reports!Spec

LEMMA HalfKept == [Next]_vars => half' = half
<1> SUFFICES ASSUME [Next]_vars PROVE half' = half
  OBVIOUS
<1> USE DEF eventVars
<1>1. CASE half = "codex local" /\ CodexLocalNext
  BY <1>1
  DEF CodexLocalNext, CodexLocalStep, CodexStartLocal, CodexNotSpawned, CodexDiscovers, CodexTails,
      CodexProbes, CodexAttaches, CodexReady, CodexKills, CodexStopped, CodexReportsExit, CodexEnds,
      CodexStopLocal, ChildEnds
<1>2. CASE half = "codex remote" /\ CodexRemoteNext
  BY <1>2
  DEF CodexRemoteNext, CodexRemoteStep, RuntimeStep, CodexStartRemote, CodexRemoteNotSpawned,
      CodexNotInitialized, CodexInitialized, CodexOpensThread, CodexOpensAgain, CodexRemoteReady,
      CodexStopRemote, CodexStopEmits, CodexStopCloses, CodexAborted, CodexAbort, CodexSend,
      CodexStartsTurn, CodexTurnAccepted, CodexStartsAgain, CodexTurnBegun, CodexTurnNotBegun, CallStep, Register, SendRequest,
      CallTimesOut, ReaderStep, ReadResponse, handleThreadStarted, handleTurnStarted,
      handleTurnCompleted, ReadBusy, SetRemoteWorking, EmitWorking, ReaderEnds, AppServerAnswers,
      AppServerEndsTurn, AppServerDies
<1>3. CASE half = "claude local" /\ ClaudeLocalNext
  BY <1>3
  DEF ClaudeLocalNext, ClaudeLocalStep, ClaudeStartLocal, ClaudeNotSpawned, ClaudeAttaches, ClaudeReady,
      ClaudeWatches, ClaudeKills, ClaudeStopped, ClaudeStopLocal, ClaudeReportsExit, ClaudeEnds,
      ClaudeNamed, ClaudeFileAwaited, ClaudeDetected, ClaudeGivesUp, ClaudeAttachesScanner
<1>4. CASE half = "claude remote" /\ ClaudeRemoteNext
  BY <1>4
  DEF ClaudeRemoteNext, ClaudeRuntimeStep, ClaudeSendStep, ClaudeStartRemote, ClaudeNoBridge,
      ClaudeRemoteFails, ClaudeAttachesRemote, ClaudeRemoteReady, ClaudeReaps, ClaudeKillsRemote,
      ClaudeRemoteStopped, ClaudeStopRemote, ClaudeSetsWorking, ClaudeEmitsWorking, ClaudeWrites,
      ClaudeSend, ClaudeAbort, BridgeStep, BridgeReadsResult, BridgeReadsThoughts, BridgeReadsRequest,
      BridgeEmits, setRemoteWorking, ScriptReads, ReaperStep, ClaudeReportsRemoteExit, ScriptDies,
      DecisionStep, PermissionDecided, ChildThinks, ChildAsks, ChildResult, ChildDies, ChildCloses
<1>5. CASE half = "acp" /\ AcpNext
  BY <1>5
  DEF AcpNext, AcpRuntimeStep, AcpTurnStep, AcpReady, AcpNotConfigured, AcpAbort, AcpCancelsPrevious,
      AcpTells, AcpRequest, AcpAwaits, AcpPauses, AcpEnds, AcpStart, AcpStop, AcpPressStop, AcpSend
<1>6. CASE half \in {"codex transcript", "claude transcript"} /\ TranscriptNext
  BY <1>6
  DEF TranscriptNext, AgentWrites, RemoteTurn, StartsLocal, StopsLocal, ReaderOpens, ReadsPart, ReadsLine,
      ForwardsRecord, ForwardsMessage, ForwardsCall, ForwardsOutput, Forwards
<1>7. CASE UNCHANGED vars
  BY <1>7 DEF vars
<1> QED BY <1>1, <1>2, <1>3, <1>4, <1>5, <1>6, <1>7 DEF Next

----------------------------------------------------------------------------
(* The transcripts.  A line that the follower is past waits on the channel,  *)
(* or the forwarder is through with it, or nobody will forward it any more.  *)

LineKinds == {"record", "user", "text", "call", "output"}
Said == {"user", "text"}
Tools == {"call", "output"}

Entry == [line : Nat, id : Nat]

ofTranscript == ofCodex \/ ofClaude

TranscriptTyped ==
  /\ file \in Seq(LineKinds) /\ writing \in LineKinds \cup {"none"}
  /\ follower \in [on : BOOLEAN, pos : Nat, torn : BOOLEAN]
  /\ channel \in Seq(Nat)
  /\ log \in Seq(Entry)
  /\ started \in Nat

Follows ==
  /\ ofTranscript => at \in {"rest", "local", "remote"} /\ (at = "rest" <=> started = 0)
  /\ follower.on => ofTranscript /\ at = "local"
  /\ ~follower.on => channel = <<>>
  /\ follower.pos <= Len(file)
  /\ \A k \in DOMAIN channel : 0 < channel[k] /\ channel[k] <= follower.pos
  /\ \A k, l \in DOMAIN channel : k < l => channel[k] < channel[l]

\* Codex's lines are recorded in their order; Claude's have ids.
Once ==
  /\ \A n \in DOMAIN log : log[n].line \in DOMAIN file
  /\ ofCodex =>
       /\ \A m, n \in DOMAIN log : log[m].line = log[n].line => m = n
       /\ follower.on =>
            \A n \in DOMAIN log : /\ log[n].line <= follower.pos
                                  /\ \A k \in DOMAIN channel : log[n].line # channel[k]
       /\ ~follower.on /\ started <= 1 /\ at # "remote" => log = <<>> /\ follower.pos = 0
  /\ ofClaude =>
       /\ \A n \in DOMAIN log : log[n].id = 0 => log[n].line \in remotely
       /\ \A n \in DOMAIN log : log[n].id # 0 => log[n].id = log[n].line
       /\ \A m, n \in DOMAIN log : log[m].id # 0 /\ log[m].id = log[n].id => m = n
  /\ ~ofTranscript => log = <<>>

recorded(i) == \E n \in DOMAIN log : log[n].line = i

Complete ==
  /\ \A i \in remotely : recorded(i)
  /\ \A i \in 1..follower.pos :
       file[i] \in {"record"} \cup Said => i \in onChannel \/ i \in lost \/ recorded(i)

\* Lines whose event the forwarder has given.
heard == {i \in 1..follower.pos : file[i] # "record" /\ i \notin onChannel /\ i \notin unseen}

\* Codex calls one tool at a time.
Alternates ==
  ofCodex =>
    /\ \A i \in DOMAIN file : file[i] = "output" =>
         \E j \in 1..(i - 1) : file[j] = "call" /\ \A k \in (j + 1)..(i - 1) : file[k] \notin Tools
    /\ \A i, j \in DOMAIN file : j < i /\ file[i] = "call" /\ file[j] = "call" =>
         \E k \in (j + 1)..(i - 1) : file[k] = "output"
    /\ writing = "output" => calling
    /\ writing = "call" => ~calling

\* The phone is as far as the forwarder.
Shown ==
  ofCodex =>
    /\ \A i \in heard : \A k \in DOMAIN channel : i < channel[k]
    /\ unseen \subseteq 1..follower.pos
    /\ \A k \in DOMAIN channel : channel[k] \notin unseen
    /\ \A i \in heard :
         file[i] \in Said /\ (\A j \in heard : i < j => file[j] \notin Said) => told = (file[i] = "user")
    /\ running = {i \in heard : file[i] = "call" /\ \A j \in heard : ~outputOf(i, j)}

TranscriptInv == TranscriptTyped /\ Follows /\ Once /\ Complete /\ Alternates /\ Shown

LEMMA InitTranscript == Init => TranscriptInv
<1> SUFFICES ASSUME Init PROVE TranscriptInv
  OBVIOUS
<1>1. /\ file = <<>> /\ writing = "none" /\ follower = notReading /\ channel = <<>> /\ log = <<>>
      /\ lost = {} /\ unseen = {} /\ running = {} /\ remotely = {} /\ started = 0 /\ at = "rest"
  BY DEF Init, EventsInit, TranscriptsInit
<1>2. follower.on = FALSE /\ follower.pos = 0 /\ follower.torn = FALSE
  BY <1>1 DEF notReading
<1>3. TranscriptTyped
  <2>1. follower \in [on : BOOLEAN, pos : Nat, torn : BOOLEAN]
    BY <1>1 DEF notReading
  <2>2. file \in Seq(LineKinds) /\ channel \in Seq(Nat) /\ log \in Seq(Entry)
    BY <1>1
  <2> QED BY <1>1, <2>1, <2>2 DEF TranscriptTyped
<1>4. heard = {}
  BY <1>2 DEF heard
<1>5. Follows /\ Once /\ Complete /\ Alternates
  BY <1>1, <1>2 DEF Follows, Once, Complete, Alternates
<1>6. Shown
  BY <1>1, <1>4 DEF Shown
<1> QED BY <1>3, <1>5, <1>6 DEF TranscriptInv

LEMMA CallingIs ==
  ASSUME file \in Seq(LineKinds)
  PROVE  calling = \E i \in DOMAIN file : file[i] = "call" /\ \A j \in DOMAIN file : j > i => file[j] \notin Tools
BY DEF calling, lastOf, Tools

\* The file grows by a line.
LEMMA FileGrows ==
  ASSUME TranscriptInv, NEW k \in LineKinds, file' = Append(file, k), writing' = "none", half' = half,
         ofCodex => /\ k = "output" => calling
                    /\ k = "call" => ~calling
  PROVE  /\ file' \in Seq(LineKinds) /\ Len(file') = Len(file) + 1 /\ DOMAIN file \subseteq DOMAIN file'
         /\ \A i \in DOMAIN file : file'[i] = file[i]
         /\ Alternates'
<1> DEFINE n == Len(file) + 1
<1>1. /\ file \in Seq(LineKinds) /\ file' \in Seq(LineKinds) /\ Len(file') = n
      /\ DOMAIN file = 1..Len(file) /\ DOMAIN file' = 1..n /\ Len(file) \in Nat
      /\ \A i \in DOMAIN file : file'[i] = file[i]
      /\ file'[n] = k
  BY DEF TranscriptInv, TranscriptTyped
<1>2. ASSUME ofCodex, NEW i \in 1..n, file'[i] = "output"
      PROVE  \E j \in 1..(i - 1) : /\ file'[j] = "call"
                                   /\ \A l \in (j + 1)..(i - 1) : file'[l] \notin Tools
  <2>1. CASE i \in DOMAIN file
    <3>1. PICK j \in 1..(i - 1) : file[j] = "call" /\ \A l \in (j + 1)..(i - 1) : file[l] \notin Tools
      BY <1>1, <1>2, <2>1 DEF TranscriptInv, Alternates
    <3> QED BY <1>1, <2>1, <3>1
  <2>2. CASE i = n
    <3>1. calling
      BY <1>1, <1>2, <2>2
    <3>2. PICK j \in DOMAIN file : file[j] = "call" /\ \A l \in DOMAIN file : l > j => file[l] \notin Tools
      BY <1>1, <3>1, CallingIs
    <3> QED BY <1>1, <2>2, <3>2
  <2> QED BY <1>1, <2>1, <2>2
<1>3. ASSUME ofCodex, NEW i \in 1..n, NEW j \in 1..n, j < i, file'[i] = "call", file'[j] = "call"
      PROVE  \E l \in (j + 1)..(i - 1) : file'[l] = "output"
  <2>1. CASE i \in DOMAIN file
    <3>1. PICK l \in (j + 1)..(i - 1) : file[l] = "output"
      BY <1>1, <1>3, <2>1 DEF TranscriptInv, Alternates
    <3> QED BY <1>1, <2>1, <3>1
  <2>2. CASE i = n
    <3>1. ~calling /\ j \in DOMAIN file /\ file[j] = "call"
      BY <1>1, <1>3, <2>2
    <3>2. PICK l \in DOMAIN file : l > j /\ file[l] \in Tools
      BY <1>1, <3>1, CallingIs
    <3>3. CASE file[l] = "output"
      BY <1>1, <2>2, <3>2, <3>3
    <3>4. CASE file[l] = "call"
      <4>1. PICK m \in (j + 1)..(l - 1) : file[m] = "output"
        BY <1>1, <3>1, <3>2, <3>4, <1>3 DEF TranscriptInv, Alternates
      <4> QED BY <1>1, <2>2, <3>2, <4>1
    <3> QED BY <3>2, <3>3, <3>4 DEF Tools
  <2> QED BY <1>1, <2>1, <2>2
<1>4. ofCodex' = ofCodex
  BY DEF ofCodex
<1>5. Alternates'
  BY <1>1, <1>2, <1>3, <1>4 DEF Alternates
<1> QED BY <1>1, <1>5

LEMMA FollowerType ==
  ASSUME TranscriptInv
  PROVE  /\ follower.on \in BOOLEAN /\ follower.pos \in Nat /\ follower.torn \in BOOLEAN
         /\ file \in Seq(LineKinds) /\ Len(file) \in Nat /\ DOMAIN file = 1..Len(file)
         /\ channel \in Seq(Nat) /\ Len(channel) \in Nat /\ DOMAIN channel = 1..Len(channel)
         /\ log \in Seq(Entry) /\ Len(log) \in Nat /\ DOMAIN log = 1..Len(log)
         /\ \A n \in DOMAIN log : log[n].line \in Nat /\ log[n].id \in Nat
         /\ \A k \in DOMAIN channel : channel[k] \in Nat
         /\ 1..follower.pos \subseteq DOMAIN file
<1>1. /\ follower \in [on : BOOLEAN, pos : Nat, torn : BOOLEAN]
      /\ file \in Seq(LineKinds) /\ channel \in Seq(Nat) /\ log \in Seq(Entry)
  BY DEF TranscriptInv, TranscriptTyped
<1>2. \A n \in DOMAIN log : log[n] \in Entry
  BY <1>1
<1>3. follower.on \in BOOLEAN /\ follower.pos \in Nat /\ follower.torn \in BOOLEAN
  BY <1>1
<1>4. /\ Len(file) \in Nat /\ DOMAIN file = 1..Len(file)
      /\ Len(channel) \in Nat /\ DOMAIN channel = 1..Len(channel)
      /\ Len(log) \in Nat /\ DOMAIN log = 1..Len(log)
      /\ \A k \in DOMAIN channel : channel[k] \in Nat
  BY <1>1
<1>5. 1..follower.pos \subseteq DOMAIN file
  BY <1>3, <1>4 DEF TranscriptInv, Follows
<1> QED BY <1>1, <1>2, <1>3, <1>4, <1>5 DEF Entry

\* Whatever becomes of the file's end, what was heard keeps its meaning.
LEMMA HeardSteady ==
  ASSUME TranscriptInv, ofCodex' = ofCodex, told' = told, running' = running,
         heard' = heard, \A i \in 1..follower.pos : file'[i] = file[i],
         ofCodex => unseen' \subseteq 1..follower'.pos,
         ofCodex => \A k \in DOMAIN channel' : /\ channel'[k] \notin unseen'
                                              /\ \A i \in heard : i < channel'[k]
  PROVE  Shown'
<1>1. \A i \in heard : i \in 1..follower.pos /\ i \in Nat /\ file'[i] = file[i]
  BY FollowerType DEF heard
<1>2. ASSUME NEW i \in heard, NEW j \in heard
      PROVE  outputOf(i, j)' <=> outputOf(i, j)
  <2>1. \A k \in (i + 1)..j : file'[k] = file[k]
    BY SMTT(60), <1>1, FollowerType
  <2> QED BY <1>1, <2>1 DEF outputOf
<1>3. ASSUME ofCodex
      PROVE  /\ \A i \in heard : file'[i] \in Said /\ (\A j \in heard : i < j => file'[j] \notin Said)
                                  => told = (file'[i] = "user")
             /\ running = {i \in heard : file'[i] = "call" /\ \A j \in heard : ~outputOf(i, j)'}
  BY <1>1, <1>2, <1>3 DEF TranscriptInv, Shown
<1> QED BY <1>3 DEF Shown

\* The file grows; the rest is as it was.
LEMMA GrownKept ==
  ASSUME TranscriptInv, UNCHANGED <<half, at, started, told, follower, channel, running, lost, unseen>>,
         file' \in Seq(LineKinds), Len(file) <= Len(file'), \A i \in DOMAIN file : file'[i] = file[i]
  PROVE  /\ ofCodex' = ofCodex /\ ofClaude' = ofClaude /\ ofTranscript' = ofTranscript
         /\ Follows' /\ Shown'
         /\ \A i \in 1..follower.pos :
              file'[i] \in {"record"} \cup Said => i \in onChannel' \/ i \in lost' \/ recorded(i)
<1>1. ofCodex' = ofCodex /\ ofClaude' = ofClaude /\ ofTranscript' = ofTranscript /\ onChannel' = onChannel
  BY DEF ofCodex, ofClaude, ofTranscript, onChannel
<1>2. Follows'
  BY <1>1, FollowerType DEF TranscriptInv, Follows
<1>3. \A i \in 1..follower.pos : file'[i] = file[i]
  BY FollowerType
<1>4. heard' = heard
  BY <1>1, <1>3 DEF heard
<1>5. Shown'
  <2>1. ofCodex => \A k \in DOMAIN channel : /\ channel[k] \notin unseen
                                             /\ \A i \in heard : i < channel[k]
    BY DEF TranscriptInv, Shown
  <2>2. ofCodex => unseen \subseteq 1..follower.pos
    BY DEF TranscriptInv, Shown
  <2> QED BY <1>1, <1>3, <1>4, <2>1, <2>2, HeardSteady
<1> QED BY <1>1, <1>2, <1>3, <1>5 DEF TranscriptInv, Complete

LEMMA AgentWritesKept ==
  ASSUME TranscriptInv, ofTranscript, AgentWrites
  PROVE  TranscriptInv'
<1>1. UNCHANGED <<half, at, started, told, remotely, follower, channel, running, log, lost, unseen>>
  BY DEF AgentWrites, eventVars, reportVars, runtimeVars, phoneVars
<1>2. ofCodex' = ofCodex /\ ofClaude' = ofClaude /\ ofTranscript' = ofTranscript
  BY <1>1 DEF ofCodex, ofClaude, ofTranscript
<1>3. ASSUME NEW k \in LineKinds, file' = Append(file, k), writing' = "none",
             ofCodex => (k = "output" => calling) /\ (k = "call" => ~calling)
      PROVE  TranscriptInv'
  <2>1. /\ file' \in Seq(LineKinds) /\ Len(file') = Len(file) + 1 /\ DOMAIN file \subseteq DOMAIN file'
        /\ \A i \in DOMAIN file : file'[i] = file[i]
        /\ Alternates'
    BY <1>1, <1>3, FileGrows
  <2>2. TranscriptTyped'
    BY <1>1, <1>3, <2>1 DEF TranscriptInv, TranscriptTyped
  <2>3. Len(file) <= Len(file')
    BY <2>1, FollowerType
  <2>4. /\ Follows' /\ Shown'
        /\ \A i \in 1..follower.pos :
             file'[i] \in {"record"} \cup Said => i \in onChannel' \/ i \in lost' \/ recorded(i)
    BY <1>1, <2>1, <2>3, GrownKept
  <2>5. Once'
    BY <1>1, <1>2, <2>1 DEF TranscriptInv, Once
  <2>6. Complete'
    BY <1>1, <2>4 DEF TranscriptInv, Complete, recorded
  <2> QED BY <2>1, <2>2, <2>4, <2>5, <2>6 DEF TranscriptInv
<1>4. ASSUME NEW k \in Kinds, UNCHANGED file, writing' = k
      PROVE  TranscriptInv'
  <2>1. k \in LineKinds /\ (ofCodex => (k = "output" => calling) /\ (k = "call" => ~calling))
    BY DEF Kinds, LineKinds, ofCodex, ofClaude
  <2>2. calling' = calling
    BY <1>4 DEF calling, lastOf
  <2>3. TranscriptTyped' /\ Once'
    BY <1>1, <1>2, <1>4, <2>1 DEF TranscriptInv, TranscriptTyped, Once
  <2>4. /\ Follows' /\ Shown'
        /\ \A i \in 1..follower.pos :
             file'[i] \in {"record"} \cup Said => i \in onChannel' \/ i \in lost' \/ recorded(i)
    BY <1>1, <1>4, FollowerType, GrownKept
  <2>5. Complete'
    BY <1>1, <2>4 DEF TranscriptInv, Complete, recorded
  <2>6. Alternates'
    BY <1>2, <1>4, <2>1, <2>2 DEF TranscriptInv, Alternates
  <2> QED BY <2>3, <2>4, <2>5, <2>6 DEF TranscriptInv
<1>5. ASSUME NEW k \in Kinds, file' = Append(file, k), UNCHANGED writing, writing = "none"
      PROVE  TranscriptInv'
  <2>1. k \in LineKinds /\ (ofCodex => (k = "output" => calling) /\ (k = "call" => ~calling))
    BY DEF Kinds, LineKinds, ofCodex, ofClaude
  <2> QED BY <1>3, <1>5, <2>1
<1>6. ASSUME writing # "none", file' = Append(file, writing), writing' = "none"
      PROVE  TranscriptInv'
  <2>1. writing \in LineKinds /\ (ofCodex => (writing = "output" => calling) /\ (writing = "call" => ~calling))
    BY <1>6 DEF TranscriptInv, TranscriptTyped, Alternates
  <2> QED BY <1>3, <1>6, <2>1
<1> QED BY <1>4, <1>5, <1>6 DEF AgentWrites

LEMMA StoredIs ==
  ASSUME NEW i \in Nat, NEW id \in Nat, log \in Seq(Entry)
  PROVE  \/ id # 0 /\ (\E n \in DOMAIN log : log[n].id = id) /\ stored(i, id) = log
         \/ /\ ~(id # 0 /\ \E n \in DOMAIN log : log[n].id = id)
            /\ stored(i, id) \in Seq(Entry)
            /\ DOMAIN log = 1..Len(log) /\ Len(log) \in Nat
            /\ DOMAIN stored(i, id) = 1..(Len(log) + 1)
            /\ \A n \in DOMAIN log : stored(i, id)[n] = log[n]
            /\ stored(i, id)[Len(log) + 1].line = i
            /\ stored(i, id)[Len(log) + 1].id = id
<1> DEFINE w == [line |-> i, id |-> id]
<1>1. w \in Entry /\ w.line = i /\ w.id = id
  BY DEF Entry
<1>2. stored(i, id) = IF id # 0 /\ \E n \in DOMAIN log : log[n].id = id THEN log ELSE Append(log, w)
  BY DEF stored
<1> HIDE DEF w
<1>3. CASE id # 0 /\ \E n \in DOMAIN log : log[n].id = id
  BY <1>2, <1>3
<1>4. CASE ~(id # 0 /\ \E n \in DOMAIN log : log[n].id = id)
  <2>1. stored(i, id) = Append(log, w)
    BY <1>2, <1>4
  <2>2. /\ stored(i, id) \in Seq(Entry) /\ DOMAIN log = 1..Len(log) /\ Len(log) \in Nat
        /\ DOMAIN stored(i, id) = 1..(Len(log) + 1)
        /\ \A n \in DOMAIN log : stored(i, id)[n] = log[n]
        /\ stored(i, id)[Len(log) + 1] = w
    BY <1>1, <2>1
  <2> QED BY <1>1, <1>4, <2>2
<1> QED BY <1>3, <1>4

LEMMA RemoteTurnKept ==
  ASSUME TranscriptInv, ofTranscript, RemoteTurn
  PROVE  TranscriptInv'
<1>1. UNCHANGED <<half, at, started, told, writing, follower, channel, running, lost, unseen>>
  BY DEF RemoteTurn, eventVars, reportVars, runtimeVars, phoneVars
<1>2. ofCodex' = ofCodex /\ ofClaude' = ofClaude /\ ofTranscript' = ofTranscript
  BY <1>1 DEF ofCodex, ofClaude, ofTranscript
<1>3. at = "remote" /\ writing = "none" /\ ~follower.on
  BY DEF RemoteTurn, TranscriptInv, Follows
<1>4. PICK k \in {"record"} \cup Said : file' = Append(file, k)
  BY DEF RemoteTurn, Said
<1>5. /\ file' \in Seq(LineKinds) /\ Len(file') = Len(file) + 1 /\ DOMAIN file \subseteq DOMAIN file'
      /\ \A j \in DOMAIN file : file'[j] = file[j]
      /\ Alternates'
  <2>1. k \in LineKinds /\ k # "output" /\ k # "call"
    BY DEF LineKinds, Said
  <2> QED BY <1>1, <1>3, <1>4, <2>1, FileGrows
<1> DEFINE i == Len(file')
<1>6. i \in Nat /\ i \notin DOMAIN file /\ i \in DOMAIN file' /\ i = Len(file) + 1
  BY <1>5, FollowerType
<1>7. log' = stored(i, 0) /\ remotely' = remotely \cup {i}
  BY DEF RemoteTurn
<1> HIDE DEF i
<1>8. /\ log' \in Seq(Entry)
      /\ DOMAIN log = 1..Len(log) /\ Len(log) \in Nat /\ DOMAIN log' = 1..(Len(log) + 1)
      /\ \A n \in DOMAIN log : log'[n] = log[n]
      /\ log'[Len(log) + 1].line = i /\ log'[Len(log) + 1].id = 0
  <2>1. log \in Seq(Entry) /\ 0 \in Nat
    BY FollowerType
  <2>2. PICK l : l = stored(i, 0)
    OBVIOUS
  <2>3. /\ l \in Seq(Entry)
        /\ DOMAIN log = 1..Len(log) /\ Len(log) \in Nat /\ DOMAIN l = 1..(Len(log) + 1)
        /\ \A n \in DOMAIN log : l[n] = log[n]
        /\ l[Len(log) + 1].line = i /\ l[Len(log) + 1].id = 0
    BY <1>6, <2>1, <2>2, StoredIs
  <2> QED BY <1>7, <2>2, <2>3
<1>9. TranscriptTyped'
  BY <1>1, <1>5, <1>8 DEF TranscriptInv, TranscriptTyped
<1>10. /\ Follows' /\ Shown'
       /\ \A j \in 1..follower.pos :
            file'[j] \in {"record"} \cup Said => j \in onChannel' \/ j \in lost' \/ recorded(j)
  <2>1. Len(file) <= Len(file')
    BY <1>5, FollowerType
  <2> QED BY <1>1, <1>5, <2>1, GrownKept
<1>11. Once'
  <2>1. \A n \in DOMAIN log' : n \in DOMAIN log \/ n = Len(log) + 1
    BY <1>8
  <2>2. \A n \in DOMAIN log' : log'[n].line \in DOMAIN file'
    BY <1>5, <1>6, <1>8, <2>1 DEF TranscriptInv, Once
  <2>3. ofCodex => \A m, n \in DOMAIN log' : log'[m].line = log'[n].line => m = n
    BY <1>6, <1>8, <2>1 DEF TranscriptInv, Once
  <2>4. ofClaude => /\ \A n \in DOMAIN log' : log'[n].id = 0 => log'[n].line \in remotely'
                    /\ \A n \in DOMAIN log' : log'[n].id # 0 => log'[n].id = log'[n].line
                    /\ \A m, n \in DOMAIN log' : log'[m].id # 0 /\ log'[m].id = log'[n].id => m = n
    <3>1. ofClaude =>
            /\ \A n \in DOMAIN log : log[n].id = 0 => log[n].line \in remotely
            /\ \A n \in DOMAIN log : log[n].id # 0 => log[n].id = log[n].line
            /\ \A m, n \in DOMAIN log : log[m].id # 0 /\ log[m].id = log[n].id => m = n
      BY DEF TranscriptInv, Once
    <3>2. i \in remotely' /\ remotely \subseteq remotely'
      BY <1>7
    <3>3. ASSUME NEW n \in DOMAIN log'
          PROVE  \/ n \in DOMAIN log /\ log'[n] = log[n]
                 \/ log'[n].line = i /\ log'[n].id = 0 /\ n = Len(log) + 1
      BY <1>8, <2>1
    <3> QED BY <3>1, <3>2, <3>3
  <2> QED BY <1>1, <1>2, <1>3, <2>2, <2>3, <2>4 DEF Once
<1>12. Complete'
  <2>1. \A j : recorded(j) => recorded(j)'
    BY <1>8 DEF recorded
  <2>2. \E n \in DOMAIN log' : log'[n].line = i
    <3>1. Len(log) + 1 \in DOMAIN log'
      BY <1>8
    <3> QED BY <1>8, <3>1
  <2>3. \A j \in remotely' : recorded(j)'
    <3>1. \A j \in remotely : recorded(j)'
      BY <2>1 DEF TranscriptInv, Complete
    <3> QED BY <1>7, <2>2, <3>1 DEF recorded
  <2> QED BY <1>1, <1>10, <2>1, <2>3 DEF Complete
<1> QED BY <1>5, <1>9, <1>10, <1>11, <1>12 DEF TranscriptInv

LEMMA RunsKept ==
  ASSUME TranscriptInv, ofTranscript, StartsLocal \/ StopsLocal
  PROVE  TranscriptInv'
<1>1. UNCHANGED <<half, told, file, writing, remotely, running, log>>
  BY DEF StartsLocal, StopsLocal, phoneVars, transcriptVars
<1>2. ofCodex' = ofCodex /\ ofClaude' = ofClaude /\ ofTranscript' = ofTranscript
  BY <1>1 DEF ofCodex, ofClaude, ofTranscript
<1>3. Alternates'
  BY <1>1, <1>2 DEF TranscriptInv, Alternates, calling, lastOf
<1>4. ofCodex => /\ unseen \subseteq 1..follower.pos
                 /\ \A k \in DOMAIN channel : channel[k] \notin unseen /\ \A i \in heard : i < channel[k]
  BY DEF TranscriptInv, Shown
<1>5. CASE StartsLocal
  <2>1. /\ UNCHANGED <<follower, channel, lost, unseen>>
        /\ at' = "local" /\ at \in {"rest", "remote"} /\ started' = started + 1
    BY <1>5 DEF StartsLocal, transcriptVars, GoTo
  <2>2. ~follower.on /\ started' # 0 /\ started \in Nat
    BY <2>1 DEF TranscriptInv, Follows, TranscriptTyped
  <2>3. TranscriptTyped'
    BY <1>1, <2>1, <2>2 DEF TranscriptInv, TranscriptTyped
  <2>4. Follows'
    BY <1>1, <1>2, <2>1, <2>2 DEF TranscriptInv, Follows
  <2>5. ofCodex /\ started' <= 1 => log = <<>> /\ follower.pos = 0
    <3>1. started' <= 1 => started = 0 /\ started <= 1
      BY <2>1, <2>2
    <3>2. ofCodex /\ started = 0 => at # "remote"
      BY DEF TranscriptInv, Follows, ofTranscript
    <3> QED BY <2>2, <3>1, <3>2 DEF TranscriptInv, Once
  <2>6. Once'
    BY <1>1, <1>2, <2>1, <2>2, <2>5 DEF TranscriptInv, Once
  <2>7. Complete'
    BY <1>1, <2>1 DEF TranscriptInv, Complete, recorded, onChannel
  <2>8. heard' = heard
    BY <1>1, <2>1 DEF heard, onChannel
  <2>9. Shown'
    BY <1>1, <1>2, <1>4, <2>1, <2>8, HeardSteady
  <2> QED BY <1>3, <2>3, <2>4, <2>6, <2>7, <2>9 DEF TranscriptInv
<1>6. CASE StopsLocal
  <2>1. /\ follower' = [follower EXCEPT !.on = FALSE, !.torn = FALSE] /\ channel' = <<>>
        /\ lost' = lost \cup messagesOf(onChannel) /\ unseen' = unseen \cup eventsOf(onChannel)
        /\ at' = "remote" /\ at = "local" /\ started' = started
    BY <1>6 DEF StopsLocal, reportVars, GoTo
  <2>2. /\ follower'.on = FALSE /\ follower'.pos = follower.pos
        /\ follower' \in [on : BOOLEAN, pos : Nat, torn : BOOLEAN]
    BY <2>1 DEF TranscriptInv, TranscriptTyped
  <2>3. <<>> \in Seq(Nat) /\ DOMAIN channel' = {}
    BY <2>1
  <2>4. onChannel' = {}
    BY <2>3 DEF onChannel
  <2>5. TranscriptTyped'
    BY <1>1, <2>1, <2>2, <2>3 DEF TranscriptInv, TranscriptTyped
  <2>6. Follows'
    BY <1>1, <1>2, <2>1, <2>2, <2>3 DEF TranscriptInv, Follows
  <2>7. Once'
    BY <1>1, <1>2, <2>1, <2>2 DEF TranscriptInv, Once
  <2>8. Complete'
    <3>1. ASSUME NEW i \in 1..follower.pos, file[i] \in {"record"} \cup Said
          PROVE  i \in lost' \/ recorded(i)
      <4>1. i \in onChannel => i \in messagesOf(onChannel)
        BY <3>1 DEF messagesOf, Said
      <4> QED BY <2>1, <3>1, <4>1 DEF TranscriptInv, Complete
    <3> QED BY <1>1, <2>2, <3>1 DEF TranscriptInv, Complete, recorded
  <2>9. heard' = heard
    BY <1>1, <2>1, <2>2, <2>4 DEF heard, eventsOf
  <2>10. ofCodex => unseen' \subseteq 1..follower'.pos
    <3>1. onChannel \subseteq 1..follower.pos
      BY FollowerType DEF onChannel, TranscriptInv, Follows
    <3> QED BY <1>4, <2>1, <2>2, <3>1 DEF eventsOf
  <2>11. Shown'
    BY <1>1, <1>2, <2>3, <2>9, <2>10, HeardSteady
  <2> QED BY <1>3, <2>5, <2>6, <2>7, <2>8, <2>11 DEF TranscriptInv
<1> QED BY <1>5, <1>6

LEMMA ReaderOpensKept ==
  ASSUME TranscriptInv, ofTranscript, ReaderOpens
  PROVE  TranscriptInv'
<1>1. UNCHANGED <<half, at, started, told, file, writing, remotely, channel, running, log>>
  BY DEF ReaderOpens, eventVars, reportVars, runtimeVars, phoneVars
<1>2. ofCodex' = ofCodex /\ ofClaude' = ofClaude /\ ofTranscript' = ofTranscript
  BY <1>1 DEF ofCodex, ofClaude, ofTranscript
<1>3. Alternates'
  BY <1>1, <1>2 DEF TranscriptInv, Alternates, calling, lastOf
<1> DEFINE s == startOf
           skipped == (follower.pos + 1)..s
<1>4. /\ follower' = [on |-> TRUE, pos |-> s, torn |-> FALSE]
      /\ at = "local" /\ ~follower.on
      /\ lost' = IF ofClaude THEN {} ELSE lost \cup messagesOf(skipped \ remotely)
      /\ unseen' = unseen \cup eventsOf(skipped)
  BY DEF ReaderOpens
<1>5. /\ s \in Nat /\ s <= Len(file) /\ (ofClaude => s = 0)
      /\ (ofCodex => ~ofClaude /\ s = IF started > 1 THEN Len(file) ELSE 0)
  <2>1. Len(file) \in Nat
    BY FollowerType
  <2>2. ofClaude => ~ofCodex
    BY DEF ofClaude, ofCodex
  <2>3. CASE ofCodex /\ started > 1
    BY <2>1, <2>2, <2>3 DEF startOf
  <2>4. CASE ~(ofCodex /\ started > 1)
    BY <2>1, <2>2, <2>4 DEF startOf
  <2> QED BY <2>3, <2>4
<1>6. ofCodex => follower.pos <= s /\ (~(started > 1) => follower.pos = 0 /\ log = <<>>)
  <2>1. ~(started > 1) => started <= 1
    BY DEF TranscriptInv, TranscriptTyped
  <2>2. ofCodex /\ ~(started > 1) => follower.pos = 0 /\ log = <<>>
    BY <1>4, <2>1 DEF TranscriptInv, Once
  <2> QED BY <1>5, <2>2 DEF TranscriptInv, Follows
<1>7. skipped = (follower.pos + 1)..s
  OBVIOUS
<1> HIDE DEF s, skipped
<1>8. follower'.on = TRUE /\ follower'.pos = s /\ channel = <<>> /\ DOMAIN channel = {} /\ onChannel = {}
  <2>1. channel = <<>>
    BY <1>4 DEF TranscriptInv, Follows
  <2>2. DOMAIN channel = {}
    BY <2>1
  <2> QED BY <1>4, <2>1, <2>2 DEF onChannel
<1>9. TranscriptTyped'
  <2>1. follower' \in [on : BOOLEAN, pos : Nat, torn : BOOLEAN]
    BY <1>4, <1>5
  <2> QED BY <1>1, <2>1 DEF TranscriptInv, TranscriptTyped
<1>10. Follows'
  BY <1>1, <1>2, <1>4, <1>5, <1>8 DEF TranscriptInv, Follows
<1>11. Once'
  <2>1. ofCodex => \A n \in DOMAIN log : log[n].line <= s
    <3>1. CASE started > 1
      BY <1>5, <3>1, FollowerType DEF TranscriptInv, Once
    <3>2. CASE ~(started > 1)
      BY <1>6, <3>2
    <3> QED BY <3>1, <3>2
  <2> QED BY <1>1, <1>2, <1>4, <1>8, <2>1 DEF TranscriptInv, Once
<1>12. onChannel' = onChannel /\ \A i : recorded(i)' = recorded(i)
  BY <1>1 DEF onChannel, recorded
<1>13. CASE ofClaude
  <2>1. \A i \in 1..s : FALSE
    BY <1>5, <1>13
  <2>2. Complete'
    BY <1>1, <1>8, <1>12, <2>1 DEF TranscriptInv, Complete
  <2>3. Shown'
    BY <1>2, <1>5, <1>13 DEF Shown
  <2> QED BY <1>3, <1>9, <1>10, <1>11, <2>2, <2>3 DEF TranscriptInv
<1>14. CASE ofCodex
  <2>0. follower.pos \in Nat /\ s \in Nat /\ follower.pos <= s
    BY <1>5, <1>6, <1>14, FollowerType
  <2>1. \A i \in 1..s : i \in 1..follower.pos \/ i \in skipped
    BY <1>7, <2>0
  <2>2. /\ \A i \in skipped : i \in 1..s /\ i \notin 1..follower.pos
        /\ \A i \in 1..follower.pos : i \in 1..s
    BY <1>7, <2>0
  <2>3. lost' = lost \cup messagesOf(skipped \ remotely)
    BY <1>4, <1>5, <1>14
  <2>4. Complete'
    <3>1. ASSUME NEW i \in 1..s, file[i] \in {"record"} \cup Said
          PROVE  i \in onChannel \/ i \in lost' \/ recorded(i)
      <4>1. CASE i \in 1..follower.pos
        BY <2>3, <3>1, <4>1 DEF TranscriptInv, Complete
      <4>2. CASE i \in skipped /\ i \notin remotely
        BY <2>3, <3>1, <4>2 DEF messagesOf, Said
      <4>3. CASE i \in remotely
        BY <4>3 DEF TranscriptInv, Complete
      <4> QED BY <2>1, <4>1, <4>2, <4>3
    <3> QED BY <1>1, <1>8, <1>12, <3>1 DEF TranscriptInv, Complete
  <2>5. heard' = heard
    <3>1. ASSUME NEW i
          PROVE  i \in heard' <=> i \in heard
      <4>1. i \in heard' <=> i \in 1..s /\ file[i] # "record" /\ i \notin unseen'
        BY <1>1, <1>8, <1>12 DEF heard
      <4>2. i \in heard <=> i \in 1..follower.pos /\ file[i] # "record" /\ i \notin unseen
        BY <1>8 DEF heard
      <4>3. file[i] # "record" => (i \in unseen' <=> i \in unseen \/ i \in skipped)
        BY <1>4 DEF eventsOf
      <4> QED BY <2>1, <2>2, <4>1, <4>2, <4>3
    <3> QED BY <3>1
  <2>6. unseen' \subseteq 1..s
    <3>1. unseen \subseteq 1..follower.pos
      BY <1>14 DEF TranscriptInv, Shown
    <3> QED BY <1>4, <2>2, <3>1 DEF eventsOf
  <2>7. Shown'
    BY <1>1, <1>2, <1>8, <2>5, <2>6, HeardSteady
  <2> QED BY <1>3, <1>9, <1>10, <1>11, <2>4, <2>7 DEF TranscriptInv
<1> QED BY <1>13, <1>14 DEF ofTranscript

LEMMA ReadsPartKept ==
  ASSUME TranscriptInv, ofTranscript, ReadsPart
  PROVE  TranscriptInv'
<1>1. UNCHANGED <<half, at, started, told, file, writing, remotely, channel, running, log, lost, unseen>>
  BY DEF ReadsPart, eventVars, reportVars, runtimeVars, phoneVars
<1>2. follower' = [follower EXCEPT !.torn = TRUE]
  BY DEF ReadsPart
<1>3. /\ follower'.on = follower.on /\ follower'.pos = follower.pos
      /\ follower' \in [on : BOOLEAN, pos : Nat, torn : BOOLEAN]
  BY <1>2 DEF TranscriptInv, TranscriptTyped
<1>4. /\ ofCodex' = ofCodex /\ ofClaude' = ofClaude /\ ofTranscript' = ofTranscript
      /\ onChannel' = onChannel
  BY <1>1 DEF ofCodex, ofClaude, ofTranscript, onChannel
<1>5. Alternates'
  BY <1>1, <1>4 DEF TranscriptInv, Alternates, calling, lastOf
<1>6. TranscriptTyped' /\ Follows' /\ Once' /\ Complete'
  BY <1>1, <1>3, <1>4 DEF TranscriptInv, TranscriptTyped, Follows, Once, Complete, recorded
<1>7. heard' = heard
  BY <1>1, <1>3, <1>4 DEF heard
<1>8. Shown'
  <2>1. ofCodex => /\ unseen \subseteq 1..follower.pos
                   /\ \A k \in DOMAIN channel : channel[k] \notin unseen /\ \A i \in heard : i < channel[k]
    BY DEF TranscriptInv, Shown
  <2> QED BY <1>1, <1>3, <1>4, <1>7, <2>1, HeardSteady
<1> QED BY <1>5, <1>6, <1>8 DEF TranscriptInv

LEMMA ReadsLineKept ==
  ASSUME TranscriptInv, ofTranscript, ReadsLine
  PROVE  TranscriptInv'
<1> DEFINE p == follower.pos + 1
<1>1. UNCHANGED <<half, at, started, told, file, writing, remotely, running, log>>
  BY DEF ReadsLine, eventVars, reportVars, runtimeVars, phoneVars
<1>2. /\ follower' = [follower EXCEPT !.pos = p, !.torn = FALSE]
      /\ \/ channel' = Append(channel, p) /\ UNCHANGED <<lost, unseen>>
         \/ /\ channel' = channel
            /\ lost' = lost \cup messagesOf({p}) /\ unseen' = unseen \cup eventsOf({p})
      /\ follower.on /\ follower.pos < Len(file)
  BY DEF ReadsLine, nextLine
<1>3. p \in Nat /\ p <= Len(file) /\ p = follower.pos + 1
  BY <1>2, FollowerType
<1> HIDE DEF p
<1>4. /\ follower'.on = follower.on /\ follower'.pos = p
      /\ follower' \in [on : BOOLEAN, pos : Nat, torn : BOOLEAN]
  BY <1>2, <1>3 DEF TranscriptInv, TranscriptTyped
<1>5. /\ ofCodex' = ofCodex /\ ofClaude' = ofClaude /\ ofTranscript' = ofTranscript
      /\ \A i : recorded(i)' = recorded(i)
  BY <1>1 DEF ofCodex, ofClaude, ofTranscript, recorded
<1>6. Alternates'
  BY <1>1, <1>5 DEF TranscriptInv, Alternates, calling, lastOf
<1>7. /\ \A i \in 1..p : i \in 1..follower.pos \/ i = p
      /\ \A i \in 1..follower.pos : i \in 1..p /\ i < p
      /\ p \in 1..p /\ p \notin 1..follower.pos
  BY <1>3, FollowerType
<1>8. ofCodex => /\ unseen \subseteq 1..follower.pos
                 /\ \A k \in DOMAIN channel : channel[k] \notin unseen /\ \A i \in heard : i < channel[k]
  BY DEF TranscriptInv, Shown
<1>9. CASE channel' = Append(channel, p) /\ UNCHANGED <<lost, unseen>>
  <2>1. /\ channel' \in Seq(Nat) /\ Len(channel') = Len(channel) + 1 /\ DOMAIN channel' = 1..Len(channel')
        /\ \A k \in DOMAIN channel : channel'[k] = channel[k]
        /\ channel'[Len(channel) + 1] = p
    BY <1>3, <1>9, FollowerType
  <2>2. ASSUME NEW k \in DOMAIN channel'
        PROVE  \/ k \in DOMAIN channel
               \/ k = Len(channel) + 1 /\ channel'[k] = p
    BY <2>1, FollowerType
  <2>3. onChannel' = onChannel \cup {p}
    <3>1. \A k \in DOMAIN channel : k \in DOMAIN channel' /\ channel'[k] = channel[k]
      BY <2>1, FollowerType
    <3>2. Len(channel) + 1 \in DOMAIN channel'
      BY <2>1, FollowerType
    <3> QED BY <2>1, <2>2, <3>1, <3>2 DEF onChannel
  <2>4. TranscriptTyped'
    BY <1>1, <1>4, <2>1 DEF TranscriptInv, TranscriptTyped
  <2>5. Follows'
    <3>1. ASSUME NEW k \in DOMAIN channel'
          PROVE  0 < channel'[k] /\ channel'[k] <= p
      <4>1. CASE k \in DOMAIN channel
        <5>1. 0 < channel[k] /\ channel[k] <= follower.pos /\ channel[k] \in Nat
          BY <4>1, FollowerType DEF TranscriptInv, Follows
        <5> QED BY SMTT(40), <1>3, <2>1, <4>1, <5>1, FollowerType
      <4>2. CASE channel'[k] = p
        BY <1>3, <4>2, FollowerType
      <4> QED BY <2>2, <4>1, <4>2
    <3>2. ASSUME NEW k \in DOMAIN channel', NEW l \in DOMAIN channel', k < l
          PROVE  channel'[k] < channel'[l]
      <4>1. k \in DOMAIN channel
        BY <2>1, <3>2, FollowerType
      <4>2. channel[k] <= follower.pos /\ channel[k] \in Nat
        BY <4>1, FollowerType DEF TranscriptInv, Follows
      <4>3. CASE l \in DOMAIN channel
        BY <2>1, <3>2, <4>1, <4>3 DEF TranscriptInv, Follows
      <4>4. CASE channel'[l] = p
        BY SMTT(40), <1>3, <2>1, <4>1, <4>2, <4>4, FollowerType
      <4> QED BY <2>2, <4>3, <4>4
    <3>3. follower'.pos <= Len(file')
      BY <1>1, <1>3, <1>4
    <3> QED BY <1>1, <1>2, <1>4, <1>5, <3>1, <3>2, <3>3 DEF TranscriptInv, Follows
  <2>6. Once'
    <3>1. ASSUME ofCodex, NEW n \in DOMAIN log
          PROVE  log[n].line <= p /\ \A k \in DOMAIN channel' : log[n].line # channel'[k]
      <4>1. /\ log[n].line <= follower.pos /\ log[n].line \in Nat /\ follower.pos \in Nat
            /\ \A k \in DOMAIN channel : log[n].line # channel[k]
        BY <1>2, <3>1, FollowerType DEF TranscriptInv, Once
      <4>2. log[n].line <= p /\ log[n].line # p
        BY <1>3, <4>1
      <4> QED BY <2>1, <2>2, <4>1, <4>2
    <3> QED BY <1>1, <1>2, <1>4, <1>5, <3>1 DEF TranscriptInv, Once
  <2>7. Complete'
    BY <1>1, <1>4, <1>5, <1>7, <1>9, <2>3 DEF TranscriptInv, Complete
  <2>8. heard' = heard
    <3>1. ASSUME NEW i PROVE i \in heard' <=> i \in heard
      BY <1>1, <1>4, <1>7, <1>9, <2>3 DEF heard
    <3> QED BY <3>1
  <2>9. Shown'
    <3>1. ASSUME ofCodex, NEW k \in DOMAIN channel'
          PROVE  channel'[k] \notin unseen /\ \A i \in heard : i < channel'[k]
      <4>1. CASE k \in DOMAIN channel
        BY <1>8, <2>1, <3>1, <4>1
      <4>2. CASE channel'[k] = p
        BY <1>7, <1>8, <3>1, <4>2 DEF heard
      <4> QED BY <2>2, <4>1, <4>2
    <3>2. ofCodex => unseen' \subseteq 1..p
      BY <1>7, <1>8, <1>9
    <3> QED BY <1>1, <1>4, <1>5, <1>9, <2>8, <3>1, <3>2, HeardSteady
  <2> QED BY <1>6, <2>4, <2>5, <2>6, <2>7, <2>9 DEF TranscriptInv
<1>10. CASE /\ channel' = channel
            /\ lost' = lost \cup messagesOf({p}) /\ unseen' = unseen \cup eventsOf({p})
  <2>1. onChannel' = onChannel /\ p \notin onChannel
    <3>1. \A k \in DOMAIN channel : channel[k] # p
      BY <1>3, FollowerType DEF TranscriptInv, Follows
    <3> QED BY <1>10, <3>1 DEF onChannel
  <2>2. TranscriptTyped'
    BY <1>1, <1>4, <1>10 DEF TranscriptInv, TranscriptTyped
  <2>3. Follows'
    <3>1. \A k \in DOMAIN channel : 0 < channel[k] /\ channel[k] <= p
      BY <1>3, FollowerType DEF TranscriptInv, Follows
    <3> QED BY <1>1, <1>2, <1>3, <1>4, <1>5, <1>10, <3>1 DEF TranscriptInv, Follows
  <2>4. Once'
    <3>1. ofCodex => \A n \in DOMAIN log : log[n].line <= p
      BY <1>2, <1>3, FollowerType DEF TranscriptInv, Once
    <3> QED BY <1>1, <1>2, <1>4, <1>5, <1>10, <3>1 DEF TranscriptInv, Once
  <2>5. Complete'
    <3>1. file[p] \in {"record"} \cup Said => p \in messagesOf({p})
      BY DEF messagesOf, Said
    <3> QED BY <1>1, <1>4, <1>5, <1>7, <1>10, <2>1, <3>1 DEF TranscriptInv, Complete
  <2>6. heard' = heard
    <3>1. eventsOf({p}) = IF file[p] # "record" THEN {p} ELSE {}
      BY DEF eventsOf
    <3>2. ASSUME NEW i PROVE i \in heard' <=> i \in heard
      BY <1>1, <1>4, <1>7, <1>10, <2>1, <3>1 DEF heard
    <3> QED BY <3>2
  <2>7. Shown'
    <3>1. ofCodex => unseen' \subseteq 1..p
      BY <1>7, <1>8, <1>10 DEF eventsOf
    <3>2. ASSUME ofCodex, NEW k \in DOMAIN channel
          PROVE  channel[k] \notin unseen' /\ \A i \in heard : i < channel[k]
      BY <1>8, <1>10, <2>1, <3>2 DEF eventsOf, onChannel
    <3> QED BY <1>1, <1>4, <1>5, <1>10, <2>6, <3>1, <3>2, HeardSteady
  <2> QED BY <1>6, <2>2, <2>3, <2>4, <2>5, <2>7 DEF TranscriptInv
<1> QED BY <1>2, <1>9, <1>10

\* The forwarder takes the next line from the channel.
LEMMA ForwardsLine ==
  ASSUME TranscriptInv, NEW kinds, Forwards(kinds)
  PROVE  /\ UNCHANGED <<half, at, started, file, writing, remotely, follower>>
         /\ ofCodex' = ofCodex /\ ofClaude' = ofClaude /\ ofTranscript' = ofTranscript
         /\ ofTranscript /\ follower.on /\ file[Head(channel)] \in kinds
         /\ Head(channel) \in Nat /\ 0 < Head(channel) /\ Head(channel) <= follower.pos
         /\ Head(channel) \in 1..follower.pos /\ Head(channel) \in DOMAIN file
         /\ 1 \in DOMAIN channel /\ channel[1] = Head(channel)
         /\ channel' \in Seq(Nat)
         /\ \A k \in DOMAIN channel' : /\ k + 1 \in DOMAIN channel /\ channel'[k] = channel[k + 1]
                                       /\ Head(channel) < channel'[k]
         /\ onChannel' = onChannel \ {Head(channel)} /\ Head(channel) \in onChannel
         /\ Follows' /\ Alternates'
<1> DEFINE h == Head(channel)
<1>1. UNCHANGED <<half, at, started, file, writing, remotely, follower>>
  BY DEF Forwards, reportVars, runtimeVars
<1>2. ofCodex' = ofCodex /\ ofClaude' = ofClaude /\ ofTranscript' = ofTranscript
  BY <1>1 DEF ofCodex, ofClaude, ofTranscript
<1>3. channel # <<>> /\ file[h] \in kinds /\ channel' = Tail(channel)
  BY DEF Forwards
<1>4. h \in Nat /\ 1 \in DOMAIN channel /\ channel[1] = h
  BY <1>3, FollowerType
<1>5. /\ channel' \in Seq(Nat) /\ Len(channel') = Len(channel) - 1
      /\ DOMAIN channel' = 1..(Len(channel) - 1)
      /\ \A k \in DOMAIN channel' : channel'[k] = channel[k + 1]
  BY <1>3, FollowerType
<1> HIDE DEF h
<1>6. ASSUME NEW k \in DOMAIN channel'
      PROVE  k + 1 \in DOMAIN channel /\ 1 < k + 1 /\ channel'[k] = channel[k + 1]
  <2>1. k \in 1..(Len(channel) - 1) /\ Len(channel) \in Nat
    BY <1>5, FollowerType
  <2>2. k + 1 \in 1..Len(channel) /\ 1 < k + 1
    BY <2>1
  <2> QED BY <1>5, <2>2, FollowerType
<1>7. /\ 0 < h /\ h <= follower.pos
      /\ \A k \in DOMAIN channel' : h < channel'[k] /\ 0 < channel'[k] /\ channel'[k] <= follower.pos
  BY <1>4, <1>6 DEF TranscriptInv, Follows
<1>8. follower.on /\ ofTranscript
  BY <1>3 DEF TranscriptInv, Follows
<1>9. h \in 1..follower.pos /\ h \in DOMAIN file
  BY <1>4, <1>7, FollowerType
<1>10. Alternates'
  BY <1>1, <1>2 DEF TranscriptInv, Alternates, calling, lastOf
<1>11. Follows'
  <2>1. ASSUME NEW k \in DOMAIN channel', NEW l \in DOMAIN channel', k < l
        PROVE  channel'[k] < channel'[l]
    <3>1. k + 1 < l + 1
      BY <1>5, <2>1, FollowerType
    <3> QED BY <1>6, <3>1 DEF TranscriptInv, Follows
  <2>2. /\ ofTranscript => at \in {"rest", "local", "remote"} /\ (at = "rest" <=> started = 0)
        /\ follower.on => ofTranscript /\ at = "local"
        /\ follower.pos <= Len(file)
    BY DEF TranscriptInv, Follows
  <2> QED BY <1>1, <1>2, <1>7, <1>8, <2>1, <2>2 DEF Follows
<1>12. onChannel' = onChannel \ {h} /\ h \in onChannel
  <2>1. ASSUME NEW k \in DOMAIN channel
        PROVE  k = 1 \/ \E l \in DOMAIN channel' : channel'[l] = channel[k]
    <3>1. k \in 1..Len(channel) /\ Len(channel) \in Nat /\ DOMAIN channel' = 1..(Len(channel) - 1)
      BY <1>5, FollowerType
    <3>2. k = 1 \/ (k - 1 \in 1..(Len(channel) - 1) /\ (k - 1) + 1 = k)
      BY <3>1
    <3> QED BY <1>5, <3>1, <3>2
  <2>2. ASSUME NEW i PROVE i \in onChannel' <=> i \in onChannel /\ i # h
    <3>1. i \in onChannel' => i \in onChannel /\ i # h
      <4>1. \A k \in DOMAIN channel' : channel'[k] # h
        BY <1>4, <1>5, <1>7
      <4> QED BY <1>6, <4>1 DEF onChannel
    <3>2. i \in onChannel /\ i # h => i \in onChannel'
      BY <1>4, <2>1 DEF onChannel
    <3> QED BY <3>1, <3>2
  <2> QED BY <1>4, <2>2 DEF onChannel
<1> QED BY <1>1, <1>2, <1>3, <1>4, <1>5, <1>6, <1>7, <1>8, <1>9, <1>10, <1>11, <1>12 DEF h

\* The record of the line is stored, unless its event was dropped or the server has it.
LEMMA RecordStored ==
  ASSUME TranscriptInv, NEW kinds, Forwards(kinds), NEW took \in BOOLEAN, records(took)
  PROVE  /\ log' \in Seq(Entry)
         /\ \A n \in DOMAIN log : n \in DOMAIN log' /\ log'[n] = log[n]
         /\ took => \E n \in DOMAIN log' : log'[n].line = Head(channel)
         /\ Once'
<1>1. PICK h : h = Head(channel)
  OBVIOUS
<1>2. /\ UNCHANGED <<half, at, started, file, remotely, follower>>
      /\ ofCodex' = ofCodex /\ ofClaude' = ofClaude /\ ofTranscript' = ofTranscript
      /\ ofTranscript /\ follower.on
      /\ h \in Nat /\ 0 < h /\ h <= follower.pos /\ h \in DOMAIN file
      /\ 1 \in DOMAIN channel /\ channel[1] = h
      /\ \A k \in DOMAIN channel' : /\ k + 1 \in DOMAIN channel /\ channel'[k] = channel[k + 1]
                                    /\ h < channel'[k]
  BY <1>1, ForwardsLine
<1>3. PICK id : id = localID(h)
  OBVIOUS
<1>4. /\ id \in Nat /\ (ofClaude => id = h /\ id # 0) /\ (~ofClaude => id = 0)
  BY <1>2, <1>3, FollowerType DEF localID
<1>5. (ofCodex => ~ofClaude) /\ (ofCodex \/ ofClaude)
  BY <1>2 DEF ofCodex, ofClaude, ofTranscript
<1>6. log' = IF took THEN stored(h, id) ELSE log
  BY <1>1, <1>3 DEF records
<1>7. CASE log' = log /\ (took => ofClaude /\ \E n \in DOMAIN log : log[n].id = id)
  <2>1. Once'
    BY <1>2, <1>7 DEF TranscriptInv, Once
  <2>2. took => \E n \in DOMAIN log : log[n].line = h
    BY <1>4, <1>7 DEF TranscriptInv, Once
  <2> QED BY <1>1, <1>7, <2>1, <2>2, FollowerType
<1>8. CASE /\ ~(id # 0 /\ \E n \in DOMAIN log : log[n].id = id)
           /\ log' \in Seq(Entry)
           /\ DOMAIN log = 1..Len(log) /\ Len(log) \in Nat
           /\ DOMAIN log' = 1..(Len(log) + 1)
           /\ \A n \in DOMAIN log : log'[n] = log[n]
           /\ log'[Len(log) + 1].line = h
           /\ log'[Len(log) + 1].id = id
  <2>1. ASSUME NEW n \in DOMAIN log'
        PROVE  \/ n \in DOMAIN log /\ log'[n] = log[n]
               \/ n = Len(log) + 1 /\ log'[n].line = h /\ log'[n].id = id
    BY <1>8
  <2>2. \A n \in DOMAIN log' : log'[n].line \in DOMAIN file'
    BY <1>2, <2>1 DEF TranscriptInv, Once
  <2>3. ASSUME ofCodex PROVE Once'
    <3>1. \A m, n \in DOMAIN log : log[m].line = log[n].line => m = n
      BY <2>3 DEF TranscriptInv, Once
    <3>2. \A n \in DOMAIN log : /\ log[n].line <= follower.pos /\ log[n].line # h
                                /\ \A k \in DOMAIN channel : log[n].line # channel[k]
      BY <1>2, <2>3 DEF TranscriptInv, Once
    <3>3. \A m, n \in DOMAIN log' : log'[m].line = log'[n].line => m = n
      BY <2>1, <3>1, <3>2
    <3>4. \A k \in DOMAIN channel' : channel'[k] # h
      BY <1>2, FollowerType
    <3>5. \A n \in DOMAIN log' : /\ log'[n].line <= follower.pos
                                 /\ \A k \in DOMAIN channel' : log'[n].line # channel'[k]
      BY <1>2, <2>1, <3>2, <3>4
    <3>6. follower' = follower /\ follower.on /\ ofCodex' /\ ~ofClaude' /\ ofTranscript'
      BY <1>2, <1>5, <2>3
    <3> QED BY <2>2, <3>3, <3>5, <3>6 DEF Once
  <2>4. ASSUME ofClaude PROVE Once'
    <3>1. /\ \A n \in DOMAIN log : log[n].id = 0 => log[n].line \in remotely
          /\ \A n \in DOMAIN log : log[n].id # 0 => log[n].id = log[n].line
          /\ \A m, n \in DOMAIN log : log[m].id # 0 /\ log[m].id = log[n].id => m = n
      BY <2>4 DEF TranscriptInv, Once
    <3>2. \A n \in DOMAIN log : log[n].id # id
      BY <1>4, <1>8, <2>4
    <3>3. /\ \A n \in DOMAIN log' : log'[n].id = 0 => log'[n].line \in remotely
          /\ \A n \in DOMAIN log' : log'[n].id # 0 => log'[n].id = log'[n].line
          /\ \A m, n \in DOMAIN log' : log'[m].id # 0 /\ log'[m].id = log'[n].id => m = n
      BY <1>4, <2>1, <2>4, <3>1, <3>2
    <3>4. remotely' = remotely /\ ~ofCodex' /\ ofClaude' /\ ofTranscript'
      BY <1>2, <1>5, <2>4
    <3> QED BY <2>2, <3>3, <3>4 DEF Once
  <2>5. Once'
    BY <1>5, <2>3, <2>4
  <2>6. Len(log) + 1 \in DOMAIN log' /\ \A n \in DOMAIN log : n \in DOMAIN log'
    BY <1>8
  <2> QED BY <1>1, <1>8, <2>5, <2>6
<1>9. CASE ~took
  BY <1>6, <1>7, <1>9
<1>10. CASE took
  <2>1. log' = stored(h, id) /\ log \in Seq(Entry)
    BY <1>6, <1>10, FollowerType
  <2>2. PICK l : l = stored(h, id)
    OBVIOUS
  <2>3. \/ id # 0 /\ (\E n \in DOMAIN log : log[n].id = id) /\ l = log
        \/ /\ ~(id # 0 /\ \E n \in DOMAIN log : log[n].id = id)
           /\ l \in Seq(Entry)
           /\ DOMAIN log = 1..Len(log) /\ Len(log) \in Nat
           /\ DOMAIN l = 1..(Len(log) + 1)
           /\ \A n \in DOMAIN log : l[n] = log[n]
           /\ l[Len(log) + 1].line = h
           /\ l[Len(log) + 1].id = id
    BY SMTT(40), <1>2, <1>4, <2>1, <2>2, StoredIs
  <2>4. l = log'
    BY <2>1, <2>2
  <2> QED BY <1>4, <1>7, <1>8, <2>3, <2>4
<1> QED BY <1>9, <1>10

\* The records of the lines before are still there, and the line taken has one or is lost.
LEMMA CompleteKept ==
  ASSUME TranscriptInv, NEW kinds, Forwards(kinds),
         \A n \in DOMAIN log : n \in DOMAIN log' /\ log'[n] = log[n],
         lost \subseteq lost',
         file[Head(channel)] \in {"record"} \cup Said
           => Head(channel) \in lost' \/ \E n \in DOMAIN log' : log'[n].line = Head(channel)
  PROVE  Complete'
<1>1. PICK h : h = Head(channel)
  OBVIOUS
<1>2. /\ file' = file /\ follower' = follower /\ remotely' = remotely
      /\ onChannel' = onChannel \ {h}
  BY <1>1, ForwardsLine
<1>3. \A i : recorded(i) => recorded(i)'
  BY DEF recorded
<1>4. file[h] \in {"record"} \cup Said => h \in lost' \/ recorded(h)'
  BY <1>1 DEF recorded
<1>5. \A i \in remotely : recorded(i)'
  BY <1>3 DEF TranscriptInv, Complete
<1>6. ASSUME NEW i \in 1..follower.pos, file[i] \in {"record"} \cup Said
      PROVE  i \in onChannel' \/ i \in lost' \/ recorded(i)'
  <2>1. i \in onChannel \/ i \in lost \/ recorded(i)
    BY <1>6 DEF TranscriptInv, Complete
  <2> QED BY <1>2, <1>3, <1>4, <1>6, <2>1
<1> QED BY <1>2, <1>5, <1>6 DEF Complete

\* What of the line taken was not seen is not heard.
LEMMA NotHeard ==
  ASSUME TranscriptInv, NEW kinds, Forwards(kinds), UNCHANGED <<told, running>>,
         \/ file[Head(channel)] = "record" /\ UNCHANGED unseen
         \/ unseen' = unseen \cup {Head(channel)}
  PROVE  Shown'
<1>1. PICK h : h = Head(channel)
  OBVIOUS
<1>2. /\ file' = file /\ follower' = follower /\ ofCodex' = ofCodex
      /\ onChannel' = onChannel \ {h} /\ h \in onChannel /\ h \in 1..follower.pos
      /\ \A k \in DOMAIN channel' : /\ k + 1 \in DOMAIN channel /\ channel'[k] = channel[k + 1]
                                    /\ h < channel'[k]
  BY <1>1, ForwardsLine
<1>3. heard' = heard
  BY <1>1, <1>2 DEF heard
<1>4. ofCodex => /\ unseen \subseteq 1..follower.pos
                 /\ \A k \in DOMAIN channel : channel[k] \notin unseen /\ \A i \in heard : i < channel[k]
  BY DEF TranscriptInv, Shown
<1>5. ofCodex => unseen' \subseteq 1..follower'.pos
  BY <1>1, <1>2, <1>4
<1>6. ASSUME NEW k \in DOMAIN channel', ofCodex
      PROVE  channel'[k] \notin unseen' /\ \A i \in heard : i < channel'[k]
  <2>1. channel'[k] # h
    BY <1>2
  <2> QED BY <1>1, <1>2, <1>4, <1>6, <2>1
<1> QED BY <1>2, <1>3, <1>5, <1>6, HeardSteady

\* The call that an output names is the last one before it.
LEMMA CallIs ==
  ASSUME TranscriptInv, ofCodex, NEW h \in DOMAIN file, file[h] = "output"
  PROVE  \A i \in 1..Len(file) : outputOf(i, h) <=> i = callOf(h)
<1>1. DOMAIN file = 1..Len(file) /\ Len(file) \in Nat /\ h \in 1..Len(file) /\ h \in Nat
  BY FollowerType
<1>2. PICK j \in 1..(h - 1) : file[j] = "call" /\ \A k \in (j + 1)..(h - 1) : file[k] \notin Tools
  BY DEF TranscriptInv, Alternates
<1>3. /\ j \in 1..h /\ j < h
      /\ \A k \in (j + 1)..h : file[k] # "call"
  <2>1. \A k \in (j + 1)..h : k \in (j + 1)..(h - 1) \/ k = h
    BY <1>1
  <2> QED BY <1>1, <1>2, <2>1 DEF Tools
<1>4. ASSUME NEW i \in 1..h, file[i] = "call", \A k \in (i + 1)..h : file[k] # "call"
      PROVE  i = j
  <2>1. i \notin (j + 1)..h /\ j \notin (i + 1)..h
    BY <1>2, <1>3, <1>4
  <2> QED BY <1>1, <1>3, <2>1
<1>5. callOf(h) = j
  BY <1>2, <1>3, <1>4 DEF callOf
<1>6. ASSUME NEW i \in 1..Len(file), outputOf(i, h)
      PROVE  i = j
  <2>1. /\ i < h /\ file[i] = "call" /\ \A k \in (i + 1)..h : file[k] # "call"
    BY <1>6 DEF outputOf
  <2>2. i \in 1..h
    BY <1>1, <2>1
  <2> QED BY <1>4, <2>1, <2>2
<1>7. outputOf(j, h)
  BY <1>2, <1>3 DEF outputOf
<1> QED BY <1>5, <1>6, <1>7

\* What of the line taken was seen is heard: the phone is a line further.
LEMMA ShownKept ==
  ASSUME TranscriptInv, NEW kinds, Forwards(kinds), "record" \notin kinds, UNCHANGED unseen,
         told' = (IF file[Head(channel)] \in Said THEN file[Head(channel)] = "user" ELSE told),
         ofCodex => running' = (IF file[Head(channel)] = "call" THEN running \cup {Head(channel)}
                                ELSE IF file[Head(channel)] = "output" THEN running \ {callOf(Head(channel))}
                                ELSE running)
  PROVE  Shown'
<1>1. PICK h : h = Head(channel)
  OBVIOUS
<1>2. /\ file' = file /\ follower' = follower /\ ofCodex' = ofCodex
      /\ onChannel' = onChannel \ {h} /\ h \in onChannel /\ h \in 1..follower.pos /\ h \in DOMAIN file
      /\ h \in Nat /\ file[h] # "record" /\ 1 \in DOMAIN channel /\ channel[1] = h
      /\ \A k \in DOMAIN channel' : /\ k + 1 \in DOMAIN channel /\ channel'[k] = channel[k + 1]
                                    /\ h < channel'[k]
  BY <1>1, ForwardsLine
<1>3. \A i, j : outputOf(i, j)' = outputOf(i, j)
  BY <1>2 DEF outputOf
<1>4. SUFFICES ASSUME ofCodex
               PROVE  /\ \A i \in heard' : \A k \in DOMAIN channel' : i < channel'[k]
                      /\ unseen \subseteq 1..follower.pos
                      /\ \A k \in DOMAIN channel' : channel'[k] \notin unseen
                      /\ \A i \in heard' : file[i] \in Said /\ (\A j \in heard' : i < j => file[j] \notin Said)
                                             => told' = (file[i] = "user")
                      /\ running' = {i \in heard' : file[i] = "call" /\ \A j \in heard' : ~outputOf(i, j)}
  BY <1>2, <1>3 DEF Shown
<1>5. /\ unseen \subseteq 1..follower.pos
      /\ \A k \in DOMAIN channel : channel[k] \notin unseen /\ \A i \in heard : i < channel[k]
      /\ \A i \in heard : file[i] \in Said /\ (\A j \in heard : i < j => file[j] \notin Said)
                            => told = (file[i] = "user")
      /\ running = {i \in heard : file[i] = "call" /\ \A j \in heard : ~outputOf(i, j)}
  BY <1>4 DEF TranscriptInv, Shown
<1>6. h \notin unseen /\ \A i \in heard : i < h
  BY <1>2, <1>5
<1>7. heard' = heard \cup {h} /\ \A i \in heard : i \in Nat /\ i # h /\ ~(h < i) /\ i \in 1..Len(file)
  <2>1. heard' = heard \cup {h}
    BY <1>2, <1>6 DEF heard
  <2>2. \A i \in heard : i \in Nat /\ i \in 1..Len(file)
    BY FollowerType DEF heard
  <2> QED BY <1>2, <1>6, <2>1, <2>2
<1>8. \A i \in heard' : \A k \in DOMAIN channel' : i < channel'[k]
  BY <1>2, <1>5, <1>7
<1>9. \A k \in DOMAIN channel' : channel'[k] \notin unseen
  BY <1>2, <1>5
<1>10. ASSUME NEW i \in heard', file[i] \in Said, \A j \in heard' : i < j => file[j] \notin Said
       PROVE  told' = (file[i] = "user")
  <2>1. CASE i = h
    BY <1>1, <1>10, <2>1
  <2>2. CASE i \in heard
    <3>1. file[h] \notin Said
      BY <1>6, <1>7, <1>10, <2>2
    <3> QED BY <1>1, <1>5, <1>7, <1>10, <2>2, <3>1
  <2> QED BY <1>7, <2>1, <2>2
<1>11. /\ \A j \in heard : ~outputOf(h, j)
       /\ ~outputOf(h, h)
       /\ \A i \in heard : outputOf(i, h) => file[h] = "output"
  BY <1>2, <1>7 DEF outputOf
<1>12. \A i \in heard : file[h] = "output" => (outputOf(i, h) <=> i = callOf(h))
  BY <1>2, <1>4, <1>7, CallIs
<1>13. ASSUME NEW i
       PROVE  i \in running' <=> i \in heard' /\ file[i] = "call" /\ \A j \in heard' : ~outputOf(i, j)
  <2>1. CASE file[h] = "call"
    <3>1. running' = running \cup {h}
      BY <1>1, <1>4, <2>1
    <3> QED BY <1>5, <1>7, <1>11, <2>1, <3>1
  <2>2. CASE file[h] = "output"
    <3>1. running' = running \ {callOf(h)}
      BY <1>1, <1>4, <2>2
    <3> QED BY <1>5, <1>7, <1>12, <2>2, <3>1
  <2>3. CASE file[h] # "call" /\ file[h] # "output"
    <3>1. running' = running
      BY <1>1, <1>4, <2>3
    <3> QED BY <1>5, <1>7, <1>11, <2>3, <3>1
  <2> QED BY <2>1, <2>2, <2>3
<1>14. running' = {i \in heard' : file[i] = "call" /\ \A j \in heard' : ~outputOf(i, j)}
  BY <1>13
<1> QED BY <1>5, <1>8, <1>9, <1>10, <1>14

LEMMA ForwardedKept ==
  ASSUME TranscriptInv, NEW kinds, Forwards(kinds), log' \in Seq(Entry), Once', Complete', Shown'
  PROVE  TranscriptInv'
<1>1. /\ UNCHANGED <<half, at, started, file, writing, remotely, follower>>
      /\ channel' \in Seq(Nat) /\ Follows' /\ Alternates'
  BY ForwardsLine
<1>2. TranscriptTyped'
  BY <1>1 DEF TranscriptInv, TranscriptTyped
<1> QED BY <1>1, <1>2 DEF TranscriptInv

LEMMA ForwardsRecordKept ==
  ASSUME TranscriptInv, ForwardsRecord
  PROVE  TranscriptInv'
<1>1. PICK took \in BOOLEAN :
        Forwards({"record"}) /\ records(took) /\ UNCHANGED <<told, running, unseen>>
  BY DEF ForwardsRecord
<1>2. file[Head(channel)] = "record"
  BY <1>1, ForwardsLine
<1>3. /\ log' \in Seq(Entry) /\ Once'
      /\ \A n \in DOMAIN log : n \in DOMAIN log' /\ log'[n] = log[n]
      /\ took => \E n \in DOMAIN log' : log'[n].line = Head(channel)
  BY <1>1, RecordStored
<1>4. lost \subseteq lost' /\ (~took => Head(channel) \in lost')
  BY <1>1 DEF records
<1>5. Complete'
  BY <1>1, <1>3, <1>4, CompleteKept
<1>6. Shown'
  BY <1>1, <1>2, NotHeard
<1> QED BY <1>1, <1>3, <1>5, <1>6, ForwardedKept

LEMMA ForwardsMessageKept ==
  ASSUME TranscriptInv, ForwardsMessage
  PROVE  TranscriptInv'
<1>1. PICK saw \in BOOLEAN, took \in BOOLEAN :
        /\ Forwards({"user", "text"})
        /\ told' = IF saw THEN working(file[Head(channel)]) ELSE told
        /\ reports(saw) /\ records(took) /\ UNCHANGED running
  BY DEF ForwardsMessage
<1>2. file[Head(channel)] \in Said /\ file[Head(channel)] \notin Tools
  <2>1. file[Head(channel)] \in {"user", "text"}
    BY <1>1, ForwardsLine
  <2> QED BY <2>1 DEF Said, Tools
<1>3. /\ log' \in Seq(Entry) /\ Once'
      /\ \A n \in DOMAIN log : n \in DOMAIN log' /\ log'[n] = log[n]
      /\ took => \E n \in DOMAIN log' : log'[n].line = Head(channel)
  BY <1>1, RecordStored
<1>4. lost \subseteq lost' /\ (~took => Head(channel) \in lost')
  BY <1>1 DEF records
<1>5. Complete'
  BY <1>1, <1>3, <1>4, CompleteKept
<1>6. Shown'
  <2>1. CASE saw
    <3>1. /\ told' = (IF file[Head(channel)] \in Said THEN file[Head(channel)] = "user" ELSE told)
          /\ unseen' = unseen /\ running' = running
      BY <1>1, <1>2, <2>1 DEF working, reports
    <3> QED BY <1>1, <1>2, <3>1, ShownKept DEF Tools
  <2>2. CASE ~saw
    BY <1>1, <2>2, NotHeard DEF reports
  <2> QED BY <2>1, <2>2
<1> QED BY <1>1, <1>3, <1>5, <1>6, ForwardedKept

\* Nothing is stored of a tool.
LEMMA ToolForwarded ==
  ASSUME TranscriptInv, NEW kinds, Forwards(kinds), kinds \subseteq Tools,
         UNCHANGED <<log, lost>>, Shown'
  PROVE  TranscriptInv'
<1>1. file[Head(channel)] \in Tools
  BY ForwardsLine
<1>2. file[Head(channel)] \notin {"record"} \cup Said
  BY <1>1 DEF Said, Tools
<1>3. Complete'
  BY <1>2, CompleteKept
<1>4. Once'
  <2>1. /\ UNCHANGED <<half, at, started, file, remotely, follower>>
        /\ ofCodex' = ofCodex /\ ofClaude' = ofClaude /\ ofTranscript' = ofTranscript
        /\ ofTranscript /\ follower.on
        /\ \A k \in DOMAIN channel' : /\ k + 1 \in DOMAIN channel /\ channel'[k] = channel[k + 1]
    BY ForwardsLine
  <2> QED BY <2>1 DEF TranscriptInv, Once
<1> QED BY <1>3, <1>4, ForwardedKept, FollowerType

LEMMA ForwardsToolKept ==
  ASSUME TranscriptInv, ForwardsCall \/ ForwardsOutput
  PROVE  TranscriptInv'
<1>1. CASE ForwardsCall
  <2>1. PICK saw \in BOOLEAN :
          /\ Forwards({"call"})
          /\ running' = IF saw THEN running \cup {Head(channel)} ELSE running
          /\ reports(saw) /\ UNCHANGED <<told, log, lost>>
    BY <1>1 DEF ForwardsCall
  <2>2. file[Head(channel)] = "call" /\ file[Head(channel)] \notin Said
    <3>1. file[Head(channel)] = "call"
      BY <2>1, ForwardsLine
    <3> QED BY <3>1 DEF Said
  <2>3. Shown'
    <3>1. CASE saw
      BY <2>1, <2>2, <3>1, ShownKept DEF reports
    <3>2. CASE ~saw
      BY <2>1, <3>2, NotHeard DEF reports
    <3> QED BY <3>1, <3>2
  <2> QED BY <2>1, <2>3, ToolForwarded DEF Tools
<1>2. CASE ForwardsOutput
  <2>1. PICK saw \in BOOLEAN :
          /\ Forwards({"output"})
          /\ running' = IF saw THEN running \ {callOf(Head(channel))} ELSE running
          /\ reports(saw) /\ UNCHANGED <<told, log, lost>>
    BY <1>2 DEF ForwardsOutput
  <2>2. file[Head(channel)] = "output" /\ file[Head(channel)] \notin Said
    <3>1. file[Head(channel)] = "output"
      BY <2>1, ForwardsLine
    <3> QED BY <3>1 DEF Said
  <2>3. Shown'
    <3>1. CASE saw
      BY <2>1, <2>2, <3>1, ShownKept DEF reports
    <3>2. CASE ~saw
      BY <2>1, <3>2, NotHeard DEF reports
    <3> QED BY <3>1, <3>2
  <2> QED BY <2>1, <2>3, ToolForwarded DEF Tools
<1> QED BY <1>1, <1>2

LEMMA TranscriptNextKept ==
  ASSUME ReportsInv, TranscriptInv, [Next]_vars
  PROVE  TranscriptInv'
<1>1. CASE half \in {"codex transcript", "claude transcript"} /\ TranscriptNext
  <2>1. ofTranscript
    BY <1>1 DEF ofTranscript, ofCodex, ofClaude
  <2> QED BY <1>1, <2>1, AgentWritesKept, RemoteTurnKept, RunsKept, ReaderOpensKept, ReadsPartKept,
             ReadsLineKept, ForwardsRecordKept, ForwardsMessageKept, ForwardsToolKept
          DEF TranscriptNext
<1>2. CASE UNCHANGED vars
  <2>1. UNCHANGED <<half, at, started, told, file, writing, remotely, follower, channel, running, log,
                    lost, unseen>>
    BY <1>2 DEF vars, eventVars, reportVars, runtimeVars, phoneVars, transcriptVars
  <2>2. ofCodex' = ofCodex /\ ofClaude' = ofClaude /\ ofTranscript' = ofTranscript
    BY <2>1 DEF ofCodex, ofClaude, ofTranscript
  <2>3. Alternates'
    BY <2>1, <2>2 DEF TranscriptInv, Alternates, calling, lastOf
  <2>4. TranscriptTyped' /\ Follows' /\ Once'
    BY <2>1, <2>2 DEF TranscriptInv, TranscriptTyped, Follows, Once
  <2>5. Complete'
    BY <2>1 DEF TranscriptInv, Complete, onChannel, recorded
  <2>6. Shown'
    BY <2>1, <2>2 DEF TranscriptInv, Shown, heard, onChannel, outputOf
  <2> QED BY <2>3, <2>4, <2>5, <2>6 DEF TranscriptInv
<1>3. CASE Next /\ ~(half \in {"codex transcript", "claude transcript"})
  <2>1. ~ofCodex /\ ~ofClaude /\ ~ofTranscript /\ UNCHANGED <<transcriptVars, half>> /\ started' \in Nat
    <3>1. ~ofCodex /\ ~ofClaude /\ ~ofTranscript
      BY <1>3 DEF ofTranscript, ofCodex, ofClaude
    <3>2. UNCHANGED transcriptVars
      BY <1>3 DEF Next, CodexLocalOnly, CodexRemoteOnly, ClaudeLocalOnly, ClaudeRemoteOnly, AcpOnly
    <3>3. started' \in Nat
      BY ReportsNext DEF ReportsGood, ReportsInv
    <3> QED BY <3>1, <3>2, <3>3, HalfKept
  <2>2. UNCHANGED <<file, writing, remotely, follower, channel, running, log, lost, unseen, half>>
    BY <2>1 DEF transcriptVars
  <2>3. ~follower.on /\ ~ofCodex' /\ ~ofClaude' /\ ~ofTranscript'
    BY <2>1 DEF TranscriptInv, Follows, ofTranscript, ofCodex, ofClaude
  <2>4. started' \in Nat
    BY <2>1
  <2>5. TranscriptTyped' /\ Once' /\ Alternates' /\ Shown'
    BY <2>1, <2>2, <2>3, <2>4
    DEF TranscriptInv, TranscriptTyped, Once, Alternates, Shown
  <2>6. Complete'
    BY <2>2 DEF TranscriptInv, Complete, onChannel, recorded
  <2>7. Follows'
    BY <2>1, <2>2, <2>3 DEF TranscriptInv, Follows
  <2> QED BY <2>5, <2>6, <2>7 DEF TranscriptInv
<1> QED BY <1>1, <1>2, <1>3 DEF Next

LEMMA TranscriptAlways == Spec => []TranscriptInv
<1>1. ReportsInv /\ TranscriptInv /\ [Next]_vars => ReportsInv' /\ TranscriptInv'
  BY ReportsNext, TranscriptNextKept DEF ReportsGood
<1> QED BY <1>1, InitReports, InitTranscript, PTL DEF Spec

\* However often a session is taken to the phone and back, what was said at the desktop
\* is a message of the session once; with Codex also what was said remotely.
THEOREM RecordsOnce == Spec => []RecordedOnce
<1>1. ASSUME TranscriptInv, NEW m \in DOMAIN log, NEW n \in DOMAIN log, log[m].line = log[n].line,
             ofCodex \/ log[m].line \notin remotely
      PROVE  m = n
  <2>1. CASE ofCodex
    BY <1>1, <2>1 DEF TranscriptInv, Once
  <2>2. CASE ofClaude /\ ~ofCodex
    <3>1. log[m].id # 0 /\ log[n].id # 0
      BY <1>1, <2>2 DEF TranscriptInv, Once
    <3>2. log[m].id = log[m].line /\ log[n].id = log[n].line
      BY <1>1, <2>2, <3>1 DEF TranscriptInv, Once
    <3> QED BY <1>1, <2>2, <3>1, <3>2 DEF TranscriptInv, Once
  <2>3. CASE ~ofTranscript
    BY <1>1, <2>3 DEF TranscriptInv, Once
  <2> QED BY <2>1, <2>2, <2>3 DEF ofTranscript
<1>2. TranscriptInv => RecordedOnce
  BY <1>1 DEF RecordedOnce
<1> QED BY <1>2, TranscriptAlways, PTL

\* What the follower is past is a message of the session, waits on the channel, or is lost;
\* with Claude nothing is lost any more once the Scanner has begun anew.
THEOREM RecordsComplete == Spec => []TranscriptComplete
<1>1. TranscriptInv => TranscriptComplete
  BY DEF TranscriptInv, Complete, TranscriptComplete, messagesOf, recorded, Said
<1> QED BY <1>1, TranscriptAlways, PTL

\* When Codex's file is read to the end, the phone is told of the turn that it is in and
\* shows the tools whose call was seen and whose output was not.
THEOREM ActivityShown == Spec => []ActivityFollows
<1>1. ASSUME TranscriptInv, ofCodex, follower.pos = Len(file), channel = <<>>
      PROVE  /\ \A i \in lastOf({"user", "text"}) \ unseen : told = (file[i] = "user")
             /\ running = {i \in DOMAIN file \ unseen :
                             file[i] = "call" /\ \A j \in DOMAIN file \ unseen : ~outputOf(i, j)}
  <2>1. heard = {i \in DOMAIN file \ unseen : file[i] # "record"}
    <3>1. onChannel = {}
      <4>1. DOMAIN channel = {}
        BY <1>1
      <4> QED BY <4>1 DEF onChannel
    <3> QED BY <1>1, <3>1, FollowerType DEF heard
  <2>2. /\ \A i \in heard : file[i] \in Said /\ (\A j \in heard : i < j => file[j] \notin Said)
                              => told = (file[i] = "user")
        /\ running = {i \in heard : file[i] = "call" /\ \A j \in heard : ~outputOf(i, j)}
    BY <1>1 DEF TranscriptInv, Shown
  <2>3. ASSUME NEW i \in lastOf(Said) \ unseen
        PROVE  told = (file[i] = "user")
    <3>1. i \in DOMAIN file /\ file[i] \in Said /\ \A j \in DOMAIN file : j > i => file[j] \notin Said
      BY <2>3 DEF lastOf
    <3>2. i \in heard
      BY <2>1, <2>3, <3>1 DEF Said
    <3>3. \A j \in heard : i < j => file[j] \notin Said
      BY <2>1, <3>1, FollowerType
    <3> QED BY <2>2, <3>1, <3>2, <3>3
  <2>4. \A i, j : file[j] = "record" => ~outputOf(i, j)
    BY DEF outputOf
  <2>5. running = {i \in DOMAIN file \ unseen :
                     file[i] = "call" /\ \A j \in DOMAIN file \ unseen : ~outputOf(i, j)}
    BY <2>1, <2>2, <2>4
  <2> QED BY <2>3, <2>5 DEF Said
<1>2. TranscriptInv => ActivityFollows
  BY <1>1 DEF ActivityFollows
<1> QED BY <1>2, TranscriptAlways, PTL

----------------------------------------------------------------------------
(* The calls to the Codex app-server. *)

ofCodexRemote == half = "codex remote"

Methods == {"none", "initialize", "turn/interrupt"} \cup threadOpens \cup turnStarts
Gots == {"none", "result", "oversized", "refused", "error"}
Call == [client : 0..MaxRuns, id : Nat, method : Methods,
         pc : {"none", "register", "send", "await", "done"}, got : Gots]
Request == [id : Nat, method : Methods]
Line == [kind : {"response", "thread/started", "turn/started", "turn/completed"}, n : Nat, got : Gots]
Readers == {"none", "read", "update", "set busy", "set idle", "emit busy", "emit idle", "over"}
EngineState == [enabled : BOOLEAN, thread : Nat, turn : Nat, working : BOOLEAN, ch : Nat]
MessageState == [pc : {"none", "read", "call", "await"}, client : Nat, ch : Nat, begun : BOOLEAN]

CodexTyped ==
  /\ pending \in [Runs -> SUBSET Nat] /\ nextID \in [Runs -> Nat]
  /\ calls \in [Callers -> Call]
  /\ stdin \in [Runs -> Seq(Request)] /\ inbox \in [Runs -> Seq(Line)]
  /\ reader \in [Runs -> Readers]
  /\ turn \in [Runs -> Nat] /\ turns \in Nat
  /\ engine \in EngineState /\ message \in MessageState
  /\ ofCodexRemote => /\ started \in 0..MaxRuns /\ current \in 0..started /\ handle \in 0..started
                      /\ at = "initialize" => started # 0
                      /\ proc \in [Runs -> {"none", "up", "killed", "dead"}]

\* The half that is not studied stays where it began.
CodexIdle ==
  ~ofCodexRemote => /\ \A who \in Callers : calls[who].pc = "none"
                    /\ message.pc = "none"
                    /\ \A c \in Runs : reader[c] = "none"

LEMMA InitCodex == Init => CodexTyped /\ CodexIdle
<1> SUFFICES ASSUME Init PROVE CodexTyped /\ CodexIdle
  OBVIOUS
<1> USE DEF Init, EventsInit, ClientInit, CodexRemoteInit
<1>1. none \in Call /\ none.pc = "none"
  BY Bounds DEF none, Call, Methods, Gots
<1>2. /\ engine \in EngineState /\ message \in MessageState /\ message.pc = "none"
  BY DEF EngineState, MessageState, notSending
<1>3. <<>> \in Seq(Request) /\ <<>> \in Seq(Line)
  OBVIOUS
<1>4. stdin \in [Runs -> Seq(Request)] /\ inbox \in [Runs -> Seq(Line)]
  BY <1>3
<1>5. /\ calls \in [Callers -> Call] /\ \A who \in Callers : calls[who].pc = "none"
  BY <1>1
<1>6. /\ pending \in [Runs -> SUBSET Nat] /\ nextID \in [Runs -> Nat]
      /\ reader \in [Runs -> Readers] /\ (\A c \in Runs : reader[c] = "none")
      /\ turn \in [Runs -> Nat] /\ turns \in Nat
      /\ started \in 0..MaxRuns /\ current \in 0..started /\ handle \in 0..started /\ at = "rest"
      /\ proc \in [Runs -> {"none", "up", "killed", "dead"}]
  BY Bounds DEF Readers
<1> QED BY <1>2, <1>4, <1>5, <1>6 DEF CodexTyped, CodexIdle

LEMMA CallType ==
  ASSUME CodexTyped, NEW who \in Callers
  PROVE  /\ calls[who] \in Call
         /\ calls[who].client \in 0..MaxRuns /\ calls[who].client \in Nat /\ calls[who].id \in Nat
         /\ calls[who].method \in Methods
         /\ calls[who].pc \in {"none", "register", "send", "await", "done"}
         /\ calls[who].got \in Gots
<1>1. calls[who] \in Call
  BY DEF CodexTyped
<1> QED BY <1>1, Bounds DEF Call

LEMMA CallersAre ==
  /\ "runtime" \in Callers /\ "sender" \in Callers
  /\ \A who \in Callers : who = "runtime" \/ who = "sender"
BY DEF Callers

LEMMA MethodsAre ==
  \A m \in {"initialize", "thread", "thread again", "turn/interrupt", "turn/start", "turn/start again"} :
    m \in Methods
BY DEF Methods, threadOpens, turnStarts

\* What becomes of the calls in the steps that change one.
LEMMA CallBegun ==
  ASSUME CodexTyped, NEW who \in Callers, NEW c \in 0..MaxRuns, NEW m \in Methods, BeginCall(who, c, m)
  PROVE  /\ calls' \in [Callers -> Call]
         /\ calls'[who].client = c /\ calls'[who].pc = "register" /\ calls'[who].method = m
         /\ \A w \in Callers : w # who => calls'[w] = calls[w]
<1> DEFINE k == [none EXCEPT !.client = c, !.method = m, !.pc = "register"]
<1>1. k \in Call /\ k.client = c /\ k.pc = "register" /\ k.method = m
  BY Bounds DEF Call, none, Methods, Gots
<1>2. calls' = [calls EXCEPT ![who] = k]
  BY DEF BeginCall
<1> HIDE DEF k
<1> QED BY <1>1, <1>2 DEF CodexTyped

LEMMA CallGone ==
  ASSUME CodexTyped, NEW who \in Callers, calls' = [calls EXCEPT ![who] = none]
  PROVE  /\ calls' \in [Callers -> Call]
         /\ calls'[who].client = 0 /\ calls'[who].pc = "none"
         /\ \A w \in Callers : w # who => calls'[w] = calls[w]
<1>1. none \in Call /\ none.client = 0 /\ none.pc = "none"
  BY Bounds DEF Call, none, Methods, Gots
<1> QED BY <1>1 DEF CodexTyped

LEMMA CallReturned ==
  ASSUME CodexTyped, NEW who \in Callers, calls' = returns(who, "error")
  PROVE  /\ calls' \in [Callers -> Call]
         /\ calls'[who].client = calls[who].client /\ calls'[who].pc = "done"
         /\ calls'[who].method = calls[who].method
         /\ \A w \in Callers : w # who => calls'[w] = calls[w]
<1> DEFINE k == [calls[who] EXCEPT !.pc = "done", !.got = "error"]
<1>1. k \in Call /\ k.client = calls[who].client /\ k.pc = "done" /\ k.method = calls[who].method
  BY CallType DEF Call, Gots
<1>2. calls' = [calls EXCEPT ![who] = k]
  BY DEF returns, CodexTyped
<1> HIDE DEF k
<1> QED BY <1>1, <1>2 DEF CodexTyped

LEMMA CallNumbered ==
  ASSUME CodexTyped, NEW who \in Callers, NEW n \in Nat,
         calls' = [calls EXCEPT ![who].pc = "send", ![who].id = n]
  PROVE  /\ calls' \in [Callers -> Call]
         /\ calls'[who].client = calls[who].client /\ calls'[who].pc = "send" /\ calls'[who].id = n
         /\ calls'[who].method = calls[who].method
         /\ \A w \in Callers : w # who => calls'[w] = calls[w]
<1> DEFINE k == [calls[who] EXCEPT !.pc = "send", !.id = n]
<1>1. /\ k \in Call /\ k.client = calls[who].client /\ k.pc = "send" /\ k.id = n
      /\ k.method = calls[who].method
  BY CallType DEF Call
<1>2. calls' = [calls EXCEPT ![who] = k]
  BY DEF CodexTyped
<1> HIDE DEF k
<1> QED BY ZenonT(60), <1>1, <1>2 DEF CodexTyped

LEMMA CallSent ==
  ASSUME CodexTyped, NEW who \in Callers, calls' = [calls EXCEPT ![who].pc = "await"]
  PROVE  /\ calls' \in [Callers -> Call]
         /\ calls'[who].client = calls[who].client /\ calls'[who].pc = "await"
         /\ calls'[who].id = calls[who].id /\ calls'[who].method = calls[who].method
         /\ \A w \in Callers : w # who => calls'[w] = calls[w]
<1> DEFINE k == [calls[who] EXCEPT !.pc = "await"]
<1>1. /\ k \in Call /\ k.client = calls[who].client /\ k.pc = "await" /\ k.id = calls[who].id
      /\ k.method = calls[who].method
  BY CallType DEF Call
<1>2. calls' = [calls EXCEPT ![who] = k]
  BY DEF CodexTyped
<1> HIDE DEF k
<1> QED BY <1>1, <1>2 DEF CodexTyped

LEMMA CallsAnswered ==
  ASSUME CodexTyped, NEW c, NEW ids, NEW got \in Gots, calls' = answered(c, ids, got)
  PROVE  /\ calls' \in [Callers -> Call]
         /\ \A who \in Callers :
              IF calls[who].pc = "await" /\ calls[who].client = c /\ calls[who].id \in ids
              THEN /\ calls'[who].pc = "done" /\ calls'[who].client = calls[who].client
                   /\ calls'[who].method = calls[who].method
              ELSE calls'[who] = calls[who]
<1> DEFINE k(who) == [calls[who] EXCEPT !.pc = "done", !.got = got]
           gets(who) == calls[who].pc = "await" /\ calls[who].client = c /\ calls[who].id \in ids
<1>1. \A who \in Callers : /\ k(who) \in Call /\ k(who).client = calls[who].client
                            /\ k(who).pc = "done" /\ k(who).method = calls[who].method
  BY CallType DEF Call
<1>2. calls' = [who \in Callers |-> IF gets(who) THEN k(who) ELSE calls[who]]
  BY DEF answered
<1> HIDE DEF k, gets
<1>3. \A who \in Callers : calls[who] \in Call
  BY CallType
<1>4. calls' \in [Callers -> Call]
  BY <1>1, <1>2, <1>3
<1>5. \A who \in Callers : calls'[who] = IF gets(who) THEN k(who) ELSE calls[who]
  BY <1>2
<1> QED BY <1>1, <1>4, <1>5 DEF gets

LEMMA CodexTypes ==
  ASSUME CodexTyped, NEW c \in Runs
  PROVE  /\ pending[c] \subseteq Nat /\ nextID[c] \in Nat
         /\ stdin[c] \in Seq(Request) /\ inbox[c] \in Seq(Line)
         /\ reader[c] \in Readers /\ turn[c] \in Nat /\ c \in Nat \ {0}
BY Bounds DEF CodexTyped, Runs

LEMMA EngineType ==
  ASSUME CodexTyped
  PROVE  /\ engine.enabled \in BOOLEAN /\ engine.thread \in Nat /\ engine.turn \in Nat
         /\ engine.working \in BOOLEAN /\ engine.ch \in Nat
         /\ message.pc \in {"none", "read", "call", "await"} /\ message.client \in Nat
         /\ message.ch \in Nat /\ message.begun \in BOOLEAN
BY DEF CodexTyped, EngineState, MessageState

LEMMA LineType ==
  ASSUME NEW m \in Line
  PROVE  /\ m.kind \in {"response", "thread/started", "turn/started", "turn/completed"}
         /\ m.n \in Nat /\ m.got \in Gots
BY DEF Line

LEMMA LinesAre ==
  ASSUME NEW id \in Nat, NEW n \in Nat
  PROVE  /\ \A got \in {"result", "oversized", "refused"} :
              /\ response(id, got) \in Line /\ response(id, got).n = id
              /\ response(id, got).kind = "response"
         /\ \A kind \in {"thread/started", "turn/started", "turn/completed"} :
              /\ notification(kind, n) \in Line /\ notification(kind, n).kind = kind
              /\ notification(kind, n).n = n
BY DEF response, notification, Line, Gots

\* The app-server answers with one line or two; one of two is a notification.
LEMMA Replies ==
  ASSUME NEW q \in Request, NEW begun \in Nat, NEW out \in replies(q.method, q.id, begun)
  PROVE  \/ /\ begun = 0
            /\ \E a \in Line : out = <<a>> /\ a.kind = "response" /\ a.n = q.id
         \/ /\ begun = 0
            /\ \E a, b \in Line : /\ out = <<a, b>> /\ a.kind = "response" /\ a.n = q.id
                                  /\ b.kind = "thread/started"
         \/ /\ begun # 0
            /\ \E a, b \in Line :
                 /\ out = <<a, b>>
                 /\ \/ /\ a.kind = "response" /\ a.n = q.id
                       /\ b.kind = "turn/started" /\ b.n = begun
                    \/ /\ a.kind = "turn/started" /\ a.n = begun
                       /\ b.kind = "response" /\ b.n = q.id
<1> DEFINE id == q.id
           r(got) == response(id, got)
           t(kind, n) == notification(kind, n)
<1>1. id \in Nat /\ 0 \in Nat
  BY DEF Request
<1>2. \A got \in {"result", "oversized", "refused"} :
        r(got) \in Line /\ r(got).n = id /\ r(got).kind = "response"
  BY <1>1, LinesAre
<1>3. t("thread/started", 0) \in Line /\ t("thread/started", 0).kind = "thread/started"
  BY <1>1, LinesAre
<1>4. /\ t("turn/started", begun) \in Line /\ t("turn/started", begun).kind = "turn/started"
      /\ t("turn/started", begun).n = begun
  BY <1>1, LinesAre
<1>5. \/ /\ begun # 0
         /\ out \in {<<r("result"), t("turn/started", begun)>>,
                    <<t("turn/started", begun), r("result")>>}
      \/ /\ begun = 0
         /\ out \in {<<r("result"), t("thread/started", 0)>>,
                    <<r("oversized"), t("thread/started", 0)>>}
      \/ /\ begun = 0
         /\ out \in {<<r("result")>>, <<r("refused")>>}
  BY DEF replies
<1> HIDE DEF r, t, id
<1>6. CASE /\ begun # 0
           /\ out \in {<<r("result"), t("turn/started", begun)>>,
                      <<t("turn/started", begun), r("result")>>}
  BY <1>2, <1>4, <1>6 DEF id
<1>7. CASE /\ begun = 0
           /\ out \in {<<r("result"), t("thread/started", 0)>>,
                      <<r("oversized"), t("thread/started", 0)>>}
  BY <1>2, <1>3, <1>7 DEF id
<1>8. CASE begun = 0 /\ out \in {<<r("result")>>, <<r("refused")>>}
  BY <1>2, <1>8 DEF id
<1> QED BY <1>5, <1>6, <1>7, <1>8

LEMMA OneMore ==
  ASSUME NEW S, NEW s \in Seq(S), NEW a \in S
  PROVE  /\ Append(s, a) \in Seq(S) /\ Len(Append(s, a)) = Len(s) + 1 /\ Len(s) \in Nat
         /\ DOMAIN s = 1..Len(s) /\ DOMAIN Append(s, a) = 1..(Len(s) + 1)
         /\ \A i \in DOMAIN s : Append(s, a)[i] = s[i]
         /\ Append(s, a)[Len(s) + 1] = a
         /\ s \o <<a>> = Append(s, a)
OBVIOUS

LEMMA TwoMore ==
  ASSUME NEW S, NEW s \in Seq(S), NEW a \in S, NEW b \in S
  PROVE  s \o <<a, b>> = Append(Append(s, a), b)
OBVIOUS

LEMMA OneLess ==
  ASSUME NEW S, NEW s \in Seq(S), s # <<>>
  PROVE  /\ Tail(s) \in Seq(S) /\ Len(Tail(s)) = Len(s) - 1 /\ Head(s) \in S /\ Head(s) = s[1]
         /\ Len(s) \in Nat \ {0} /\ DOMAIN s = 1..Len(s) /\ DOMAIN Tail(s) = 1..(Len(s) - 1)
         /\ \A i \in DOMAIN Tail(s) : i + 1 \in DOMAIN s /\ Tail(s)[i] = s[i + 1]
OBVIOUS

LEMMA KilledIs ==
  ASSUME NEW P, proc \in [Runs -> P], "killed" \in P, NEW r \in Nat, proc' = Killed(r)
  PROVE  /\ proc' \in [Runs -> P]
         /\ \A d \in Runs : proc'[d] = IF d = r /\ proc[d] = "up" THEN "killed" ELSE proc[d]
<1>1. \A d \in Runs : d # 0
  BY Bounds DEF Runs
<1>2. CASE r # 0 /\ proc[r] = "up"
  BY <1>2 DEF Killed
<1>3. CASE ~(r # 0 /\ proc[r] = "up")
  BY <1>1, <1>3 DEF Killed
<1> QED BY <1>2, <1>3

LEMMA CloseIs ==
  ASSUME CodexTyped, proc \in [Runs -> {"none", "up", "killed", "dead"}], NEW c \in Runs, Close(c)
  PROVE  /\ pending' \in [Runs -> SUBSET Nat]
         /\ \A d \in Runs : pending'[d] = IF d = c THEN {} ELSE pending[d]
         /\ calls' \in [Callers -> Call]
         /\ \A who \in Callers :
              IF calls[who].pc = "await" /\ calls[who].client = c /\ calls[who].id \in pending[c] /\ c \notin closed
              THEN /\ calls'[who].pc = "done" /\ calls'[who].client = calls[who].client
                   /\ calls'[who].method = calls[who].method
              ELSE calls'[who] = calls[who]
         /\ proc' \in [Runs -> {"none", "up", "killed", "dead"}]
         /\ \A d \in Runs : proc'[d] = IF d = c /\ proc[d] = "up" THEN "killed" ELSE proc[d]
<1>1. /\ pending' = [pending EXCEPT ![c] = {}]
      /\ calls' = IF c \in closed THEN calls ELSE answered(c, pending[c], "error")
      /\ proc' = Killed(c)
  BY DEF Close, failWaiting
<1>2. /\ pending' \in [Runs -> SUBSET Nat]
      /\ \A d \in Runs : pending'[d] = IF d = c THEN {} ELSE pending[d]
  BY <1>1 DEF CodexTyped
<1>3. c \in Nat
  BY CodexTypes
<1>4. /\ proc' \in [Runs -> {"none", "up", "killed", "dead"}]
      /\ \A d \in Runs : proc'[d] = IF d = c /\ proc[d] = "up" THEN "killed" ELSE proc[d]
  BY <1>1, <1>3, KilledIs
<1>5. CASE c \in closed
  BY <1>1, <1>2, <1>4, <1>5 DEF CodexTyped
<1>6. CASE c \notin closed
  <2>1. "error" \in Gots
    BY DEF Gots
  <2> QED BY <1>1, <1>2, <1>4, <1>6, <2>1, CallsAnswered
<1> QED BY <1>5, <1>6

\* Everything but what a step changes keeps its type.
LEMMA TypedKept ==
  ASSUME CodexTyped, ofCodexRemote, UNCHANGED half,
         UNCHANGED pending \/ pending' \in [Runs -> SUBSET Nat],
         UNCHANGED nextID \/ nextID' \in [Runs -> Nat],
         UNCHANGED calls \/ calls' \in [Callers -> Call],
         UNCHANGED stdin \/ stdin' \in [Runs -> Seq(Request)],
         UNCHANGED inbox \/ inbox' \in [Runs -> Seq(Line)],
         UNCHANGED reader \/ reader' \in [Runs -> Readers],
         UNCHANGED turn \/ turn' \in [Runs -> Nat],
         UNCHANGED turns \/ turns' \in Nat,
         UNCHANGED engine \/ engine' \in EngineState,
         UNCHANGED message \/ message' \in MessageState,
         UNCHANGED started \/ (started' = started + 1 /\ started < MaxRuns),
         UNCHANGED current \/ current' \in {0, started},
         UNCHANGED handle \/ handle' \in {0, current},
         UNCHANGED at \/ at' # "initialize" \/ started' # 0,
         UNCHANGED proc \/ proc' \in [Runs -> {"none", "up", "killed", "dead"}]
  PROVE  CodexTyped'
<1>1. ofCodexRemote'
  BY DEF ofCodexRemote
<1>2. /\ started \in 0..MaxRuns /\ current \in 0..started /\ handle \in 0..started
      /\ at = "initialize" => started # 0
      /\ proc \in [Runs -> {"none", "up", "killed", "dead"}]
  BY DEF CodexTyped
<1>3. started' \in 0..MaxRuns /\ started <= started' /\ (started' # started => started' # 0)
  BY <1>2, Bounds
<1>4. current' \in 0..started' /\ handle' \in 0..started'
  BY <1>2, <1>3
<1>5. /\ pending' \in [Runs -> SUBSET Nat] /\ nextID' \in [Runs -> Nat]
      /\ calls' \in [Callers -> Call]
      /\ stdin' \in [Runs -> Seq(Request)] /\ inbox' \in [Runs -> Seq(Line)]
      /\ reader' \in [Runs -> Readers]
      /\ turn' \in [Runs -> Nat] /\ turns' \in Nat
      /\ engine' \in EngineState /\ message' \in MessageState
      /\ proc' \in [Runs -> {"none", "up", "killed", "dead"}]
  BY ZenonT(60), <1>2 DEF CodexTyped
<1>6. at' = "initialize" => started' # 0
  BY <1>2, <1>3
<1> QED BY <1>3, <1>4, <1>5, <1>6 DEF CodexTyped

LEMMA RunsTyped ==
  ASSUME CodexTyped, ofCodexRemote
  PROVE  /\ started \in 0..MaxRuns /\ current \in 0..started /\ handle \in 0..started
         /\ at = "initialize" => started # 0
         /\ proc \in [Runs -> {"none", "up", "killed", "dead"}]
         /\ started \in Nat /\ current \in 0..MaxRuns /\ handle \in Nat
         /\ (current # 0 => current \in Runs) /\ (handle # 0 => handle \in Runs)
         /\ (started # 0 => started \in Runs) /\ (started < MaxRuns => started + 1 \in Runs)
<1>1. /\ started \in 0..MaxRuns /\ current \in 0..started /\ handle \in 0..started
      /\ at = "initialize" => started # 0
      /\ proc \in [Runs -> {"none", "up", "killed", "dead"}]
  BY DEF CodexTyped
<1> QED BY <1>1, Bounds DEF Runs

LEMMA RuntimeTyped ==
  ASSUME CodexTyped, ofCodexRemote,
         RuntimeStep \/ CodexStartRemote \/ CodexStopRemote \/ CodexAbort
  PROVE  CodexTyped'
<1> USE DEF keepClient, reportVars, runtimeVars, phoneVars, clientVars, codexRemoteVars, GoTo
<1>1. "runtime" \in Callers /\ {"thread", "thread again", "initialize", "turn/interrupt"} \subseteq Methods
  BY DEF Callers, Methods, threadOpens, turnStarts
<1>2. CASE CodexStartRemote
  <2>1. /\ started < MaxRuns /\ started' = started + 1 /\ started' \in Runs /\ started' \in 0..MaxRuns
    <3>1. started < MaxRuns /\ started' = started + 1
      BY <1>2 DEF CodexStartRemote, Started
    <3>2. started + 1 \in Runs
      BY <3>1, RunsTyped
    <3>3. started + 1 \in 0..MaxRuns
      BY <3>2, Bounds DEF Runs
    <3> QED BY <3>1, <3>2, <3>3
  <2>2. engine' \in EngineState
    BY <1>2 DEF CodexStartRemote, CodexTyped, EngineState
  <2>3. /\ UNCHANGED calls \/ calls' \in [Callers -> Call]
        /\ UNCHANGED proc \/ proc' \in [Runs -> {"none", "up", "killed", "dead"}]
        /\ UNCHANGED reader \/ reader' \in [Runs -> Readers]
    <3>1. CASE BeginCall("runtime", current, "thread") /\ UNCHANGED <<proc, reader>>
      BY <1>1, <3>1, CallBegun, RunsTyped
    <3>2. CASE /\ BeginCall("runtime", started', "initialize")
               /\ proc' = [proc EXCEPT ![started'] = "up"]
               /\ reader' = [reader EXCEPT ![started'] = "read"]
      <4>1. calls' \in [Callers -> Call]
        <5>1. PICK s \in 0..MaxRuns : s = started'
          BY <2>1
        <5>2. BeginCall("runtime", s, "initialize")
          BY <3>2, <5>1
        <5> QED BY <1>1, <5>2, CallBegun
      <4>2. reader' \in [Runs -> Readers]
        BY <3>2 DEF CodexTyped, Readers
      <4> QED BY <3>2, <4>1, <4>2, RunsTyped
    <3>3. CASE UNCHANGED <<proc, reader, calls>>
      BY <3>3
    <3> QED BY <1>2, <3>1, <3>2, <3>3 DEF CodexStartRemote
  <2>4. UNCHANGED <<half, pending, nextID, stdin, inbox, turn, turns, message, current, handle>>
    BY <1>2 DEF CodexStartRemote
  <2>5. started' # 0
    BY <2>1, Bounds DEF Runs
  <2> QED BY <2>1, <2>2, <2>3, <2>4, <2>5, TypedKept
<1>3. CASE CodexRemoteNotSpawned \/ CodexRemoteReady \/ CodexStopEmits
  BY <1>3, TypedKept DEF CodexRemoteNotSpawned, CodexRemoteReady, CodexStopEmits, Failed, EvReady, EvWorking
<1>4. CASE CodexInitialized
  <2>1. BeginCall("runtime", started, "thread") /\ started \in 0..MaxRuns
    BY <1>4, RunsTyped DEF CodexInitialized
  <2>2. calls' \in [Callers -> Call]
    BY <1>1, <2>1, CallBegun
  <2> QED BY <1>4, <2>2, TypedKept DEF CodexInitialized
<1>5. CASE CodexNotInitialized
  <2>1. calls' \in [Callers -> Call]
    BY <1>1, <1>5, CallGone DEF CodexNotInitialized
  <2>2. pending' \in [Runs -> SUBSET Nat]
    BY <1>5 DEF CodexNotInitialized, CodexTyped
  <2>3. proc' \in [Runs -> {"none", "up", "killed", "dead"}]
    BY <1>5, RunsTyped, KilledIs DEF CodexNotInitialized
  <2> QED BY <1>5, <2>1, <2>2, <2>3, TypedKept DEF CodexNotInitialized, Failed
<1>6. CASE CodexOpensThread
  <2>1. calls' \in [Callers -> Call]
    BY <1>1, <1>6, CallGone DEF CodexOpensThread
  <2>2. UNCHANGED engine \/ engine' \in EngineState
    <3>1. UNCHANGED engine \/ engine' = [engine EXCEPT !.thread = calls["runtime"].client]
      BY <1>6 DEF CodexOpensThread
    <3>2. PICK t \in Nat : t = calls["runtime"].client
      BY <1>1, CallType
    <3> QED BY <3>1, <3>2 DEF CodexTyped, EngineState
  <2> QED BY <1>6, <2>1, <2>2, TypedKept DEF CodexOpensThread, Failed
<1>7. CASE CodexStopRemote
  <2>1. engine' \in EngineState
    BY <1>7, EngineType DEF CodexStopRemote, EngineState
  <2>2. at' # "initialize"
    BY <1>7 DEF CodexStopRemote
  <2> QED BY <1>7, <2>1, <2>2, TypedKept DEF CodexStopRemote
<1>8. CASE CodexStopCloses
  <2>1. CASE handle # 0 /\ Close(handle)
    <3>1. handle \in Runs
      BY <2>1, RunsTyped
    <3>2. /\ pending' \in [Runs -> SUBSET Nat] /\ calls' \in [Callers -> Call]
          /\ proc' \in [Runs -> {"none", "up", "killed", "dead"}]
      BY <2>1, <3>1, RunsTyped, CloseIs
    <3> QED BY <1>8, <3>2, TypedKept DEF CodexStopCloses
  <2>2. CASE UNCHANGED <<closed, pending, calls, proc>>
    BY <1>8, <2>2, TypedKept DEF CodexStopCloses
  <2> QED BY <1>8, <2>1, <2>2 DEF CodexStopCloses
<1>9. CASE CodexAborted
  <2>1. calls' \in [Callers -> Call]
    BY <1>1, <1>9, CallGone DEF CodexAborted
  <2> QED BY <1>9, <2>1, TypedKept DEF CodexAborted
<1>10. CASE CodexAbort
  <2>1. calls' \in [Callers -> Call]
    BY <1>1, <1>10, RunsTyped, CallBegun DEF CodexAbort
  <2> QED BY <1>10, <2>1, TypedKept DEF CodexAbort
<1>11. CASE CodexOpensAgain
  <2>1. PICK c \in 0..MaxRuns : c = calls["runtime"].client
    BY <1>1, CallType
  <2>2. calls' \in [Callers -> Call]
    BY <1>1, <1>11, <2>1, CallBegun DEF CodexOpensAgain
  <2> QED BY <1>11, <2>2, TypedKept DEF CodexOpensAgain
<1> QED BY <1>2, <1>3, <1>4, <1>5, <1>6, <1>7, <1>8, <1>9, <1>10, <1>11 DEF RuntimeStep

\* A call is made with the client of a run.
Addressed == \A who \in Callers : calls[who].pc # "none" => calls[who].client \in Runs

LEMMA SenderTyped ==
  ASSUME CodexTyped, ofCodexRemote, Addressed,
         \/ CodexSend \/ CodexStartsTurn \/ CodexTurnAccepted \/ CodexStartsAgain
         \/ CodexTurnBegun \/ CodexTurnNotBegun
         \/ \E who \in Callers : CallStep(who)
  PROVE  CodexTyped'
<1> USE DEF keepClient, eventVars, reportVars, runtimeVars, phoneVars, clientVars, codexRemoteVars
<1>1. notSending \in MessageState
  BY DEF notSending, MessageState
<1>2. CASE CodexSend
  <2>1. [notSending EXCEPT !.pc = "read"] \in MessageState
    BY DEF notSending, MessageState
  <2> QED BY <1>2, <2>1, TypedKept DEF CodexSend
<1>3. CASE CodexStartsTurn
  <2>1. UNCHANGED calls \/ calls' \in [Callers -> Call]
    <3>1. "sender" \in Callers /\ "turn/start" \in Methods
      BY DEF Callers, Methods, threadOpens, turnStarts
    <3> QED BY <1>3, <3>1, RunsTyped, CallBegun DEF CodexStartsTurn
  <2>2. message' \in MessageState
    <3>1. current \in Nat /\ engine.ch \in Nat
      BY RunsTyped, EngineType, Bounds
    <3>2. CASE message' = [notSending EXCEPT !.pc = "call", !.client = current, !.ch = engine.ch]
      BY <3>1, <3>2 DEF notSending, MessageState
    <3> QED BY <1>1, <1>3, <3>2 DEF CodexStartsTurn
  <2> QED BY <1>3, <2>1, <2>2, TypedKept DEF CodexStartsTurn
<1>4. CASE CodexTurnAccepted
  <2>1. calls' \in [Callers -> Call]
    BY <1>4, CallGone, CallersAre DEF CodexTurnAccepted
  <2>2. message' \in MessageState
    <3>1. accepted \in MessageState
      BY DEF accepted, CodexTyped, MessageState
    <3> QED BY <1>1, <1>4, <3>1 DEF CodexTurnAccepted
  <2> QED BY <1>4, <2>1, <2>2, TypedKept DEF CodexTurnAccepted
<1>5. CASE CodexTurnBegun \/ CodexTurnNotBegun
  BY <1>1, <1>5, TypedKept DEF CodexTurnBegun, CodexTurnNotBegun
<1>6. ASSUME NEW who \in Callers, CallStep(who)
      PROVE  CodexTyped'
  <2>1. UNCHANGED codexRemoteVars
    BY <1>6 DEF CallStep
  <2>2. PICK c : c = calls[who].client
    OBVIOUS
  <2>3. calls[who].id \in Nat /\ calls[who].method \in Methods
    BY CallType
  <2>4. CASE Register(who)
    <3>1. c \in Runs
      BY <2>2, <2>4 DEF Register, Addressed
    <3>2. nextID' = [nextID EXCEPT ![c] = @ + 1]
      BY <2>2, <2>4 DEF Register
    <3>3. nextID' \in [Runs -> Nat] /\ nextID'[c] \in Nat
      BY <3>1, <3>2 DEF CodexTyped
    <3>4. PICK n \in Nat : n = nextID'[c]
      BY <3>3
    <3>5. \/ calls' = returns(who, "error") /\ UNCHANGED pending
          \/ /\ pending' = [pending EXCEPT ![c] = @ \cup {n}]
             /\ calls' = [calls EXCEPT ![who].pc = "send", ![who].id = n]
      BY <2>2, <2>4, <3>4 DEF Register
    <3>6. calls' \in [Callers -> Call]
      BY <3>5, CallReturned, CallNumbered
    <3>7. pending' \in [Runs -> SUBSET Nat]
      <4>1. pending[c] \cup {n} \in SUBSET Nat
        BY <3>1, CodexTypes
      <4> QED BY <3>5, <4>1 DEF CodexTyped
    <3> QED BY <2>1, <2>4, <3>3, <3>6, <3>7, TypedKept DEF Register
  <2>5. CASE SendRequest(who)
    <3>1. c \in Runs
      BY <2>2, <2>5 DEF SendRequest, Addressed
    <3> DEFINE q == [id |-> calls[who].id, method |-> calls[who].method]
    <3>2. q \in Request
      BY <2>3 DEF Request
    <3>3. \/ pending' = forget(who) /\ calls' = returns(who, "error") /\ UNCHANGED stdin
          \/ /\ stdin' = [stdin EXCEPT ![c] = Append(@, q)]
             /\ calls' = [calls EXCEPT ![who].pc = "await"]
             /\ UNCHANGED pending
      BY <2>2, <2>5 DEF SendRequest
    <3> HIDE DEF q
    <3>4. calls' \in [Callers -> Call]
      BY <3>3, CallReturned, CallSent
    <3>5. pending' \in [Runs -> SUBSET Nat]
      <4>1. pending' = pending \/ pending' = [pending EXCEPT ![c] = @ \ {calls[who].id}]
        BY <2>2, <3>3 DEF forget
      <4>2. pending[c] \ {calls[who].id} \in SUBSET Nat
        BY <3>1, CodexTypes
      <4> QED BY <4>1, <4>2 DEF CodexTyped
    <3>6. Append(stdin[c], q) \in Seq(Request)
      BY <3>1, <3>2, CodexTypes, OneMore
    <3>7. stdin' \in [Runs -> Seq(Request)]
      BY <3>1, <3>3, <3>6 DEF CodexTyped
    <3> QED BY <2>1, <2>5, <3>4, <3>5, <3>7, TypedKept DEF SendRequest
  <2>6. CASE CallTimesOut(who)
    <3>1. calls' \in [Callers -> Call]
      BY <2>6, CallReturned DEF CallTimesOut
    <3>2. pending' \in [Runs -> SUBSET Nat]
      BY <2>6 DEF CallTimesOut, forget, CodexTyped
    <3> QED BY <2>1, <2>6, <3>1, <3>2, TypedKept DEF CallTimesOut
  <2> QED BY <1>6, <2>4, <2>5, <2>6 DEF CallStep
<1>7. CASE CodexStartsAgain
  <2>1. "sender" \in Callers /\ "turn/start again" \in Methods
    BY DEF Callers, Methods, turnStarts
  <2>2. PICK c \in 0..MaxRuns : c = calls["sender"].client
    BY <2>1, CallType
  <2>3. calls' \in [Callers -> Call]
    BY <1>7, <2>1, <2>2, CallBegun DEF CodexStartsAgain
  <2> QED BY <1>7, <2>3, TypedKept DEF CodexStartsAgain
<1> QED BY <1>2, <1>3, <1>4, <1>5, <1>6, <1>7

\* Only a request for a turn begins one, and only when none goes on.
LEMMA TurnBegins ==
  ASSUME NEW c \in Runs, AppServerAnswers(c), NEW q, q = Head(stdin[c])
  PROVE  \E begins \in BOOLEAN :
           /\ begins => q.method \in turnStarts /\ turn[c] = 0
           /\ turns' = IF begins THEN turns + 1 ELSE turns
           /\ turn' = IF begins THEN [turn EXCEPT ![c] = turns'] ELSE turn
           /\ \E out \in replies(q.method, q.id, IF begins THEN turns' ELSE 0) :
                inbox' = [inbox EXCEPT ![c] = @ \o out]
<1>1. PICK may \in BOOLEAN : may = (q.method \in turnStarts /\ turn[c] = 0)
  OBVIOUS
<1>2. \E begins \in {FALSE, may} :
        /\ turns' = IF begins THEN turns + 1 ELSE turns
        /\ turn' = IF begins THEN [turn EXCEPT ![c] = turns'] ELSE turn
        /\ \E out \in replies(q.method, q.id, IF begins THEN turns' ELSE 0) :
             inbox' = [inbox EXCEPT ![c] = @ \o out]
  BY <1>1 DEF AppServerAnswers
<1> QED BY <1>1, <1>2

LEMMA ReaderTyped ==
  ASSUME CodexTyped, ofCodexRemote, NEW c \in Runs,
         \/ ReaderStep(c)
         \/ (AppServerAnswers(c) \/ AppServerEndsTurn(c) \/ AppServerDies(c)) /\ UNCHANGED codexRemoteVars
  PROVE  CodexTyped'
<1> USE DEF keepClient, eventVars, reportVars, runtimeVars, phoneVars, clientVars, codexRemoteVars
<1>1. reader[c] \in Readers /\ stdin[c] \in Seq(Request) /\ inbox[c] \in Seq(Line)
  BY CodexTypes
<1>2. ASSUME NEW pc \in Readers, goOn(c, pc)
      PROVE  reader' \in [Runs -> Readers]
  BY <1>2 DEF goOn, CodexTyped
<1>3. {"read", "update", "set busy", "set idle", "emit busy", "emit idle", "over"} \subseteq Readers
  BY DEF Readers
<1>4. ASSUME NEW kind, next(c, kind), take(c)
      PROVE  /\ inbox' \in [Runs -> Seq(Line)] /\ Head(inbox[c]) \in Line
             /\ Head(inbox[c]).n \in Nat /\ Head(inbox[c]).got \in Gots
  <2>1. Tail(inbox[c]) \in Seq(Line) /\ Head(inbox[c]) \in Line
    BY <1>1, <1>4, OneLess DEF next
  <2> QED BY <1>4, <2>1, LineType DEF take, CodexTyped
<1>5. CASE ReadResponse(c)
  <2>1. /\ inbox' \in [Runs -> Seq(Line)] /\ Head(inbox[c]).got \in Gots
    BY <1>4, <1>5 DEF ReadResponse
  <2>2. calls' \in [Callers -> Call]
    BY <1>5, <2>1, CallsAnswered DEF ReadResponse, DispatchResponse
  <2>3. pending' \in [Runs -> SUBSET Nat]
    BY <1>5 DEF ReadResponse, DispatchResponse, CodexTyped
  <2> QED BY <1>5, <2>1, <2>2, <2>3, TypedKept DEF ReadResponse
<1>6. CASE handleThreadStarted(c)
  <2>1. inbox' \in [Runs -> Seq(Line)]
    BY <1>4, <1>6 DEF handleThreadStarted
  <2>2. engine' \in EngineState
    BY <1>6, CodexTypes DEF handleThreadStarted, CodexTyped, EngineState
  <2> QED BY <1>6, <2>1, <2>2, TypedKept DEF handleThreadStarted
<1>7. CASE handleTurnStarted(c)
  <2>1. PICK n \in Nat : n = Head(inbox[c]).n
    BY <1>4, <1>7 DEF handleTurnStarted
  <2>2. inbox' \in [Runs -> Seq(Line)]
    BY <1>4, <1>7 DEF handleTurnStarted
  <2>3. engine' \in EngineState
    <3>1. engine.ch + 1 \in Nat
      BY EngineType
    <3>2. PICK ch \in Nat : ch = engine.ch + 1
      BY <3>1
    <3>3. engine' = [engine EXCEPT !.turn = n, !.ch = ch]
      BY <1>7, <2>1, <3>2 DEF handleTurnStarted, CodexTyped, EngineState
    <3> QED BY <3>3 DEF CodexTyped, EngineState
  <2>4. PICK b \in BOOLEAN : b = (message.begun \/ message.client = c)
    BY EngineType
  <2>5. message' = [message EXCEPT !.begun = b]
    BY <1>7, <2>4 DEF handleTurnStarted, CodexTyped, MessageState
  <2>6. message' \in MessageState
    BY <2>5 DEF CodexTyped, MessageState
  <2>7. reader' \in [Runs -> Readers]
    BY <1>2, <1>3, <1>7 DEF handleTurnStarted
  <2> QED BY <1>7, <2>2, <2>3, <2>6, <2>7, TypedKept DEF handleTurnStarted
<1>8. CASE handleTurnCompleted(c)
  <2>1. inbox' \in [Runs -> Seq(Line)]
    BY <1>4, <1>8 DEF handleTurnCompleted
  <2>2. UNCHANGED engine \/ engine' \in EngineState
    <3>1. UNCHANGED engine \/ engine' = [engine EXCEPT !.turn = 0]
      BY <1>8 DEF handleTurnCompleted
    <3>2. [engine EXCEPT !.turn = 0] \in EngineState
      BY DEF CodexTyped, EngineState
    <3> QED BY <3>1, <3>2
  <2>3. UNCHANGED reader \/ reader' \in [Runs -> Readers]
    BY <1>2, <1>3, <1>8 DEF handleTurnCompleted, thenUpdates
  <2> QED BY <1>8, <2>1, <2>2, <2>3, TypedKept DEF handleTurnCompleted
<1>9. CASE ReadBusy(c)
  <2>1. reader' \in [Runs -> Readers]
    BY <1>2, <1>3, <1>9 DEF ReadBusy
  <2> QED BY <1>9, <2>1, TypedKept DEF ReadBusy
<1>10. CASE SetRemoteWorking(c)
  <2>1. reader' \in [Runs -> Readers]
    BY <1>2, <1>3, <1>10 DEF SetRemoteWorking
  <2>2. engine' \in EngineState
    <3>1. engine' = [engine EXCEPT !.working = TRUE] \/ engine' = [engine EXCEPT !.working = FALSE]
      BY <1>10 DEF SetRemoteWorking
    <3> QED BY <3>1 DEF CodexTyped, EngineState
  <2> QED BY <1>10, <2>1, <2>2, TypedKept DEF SetRemoteWorking
<1>11. CASE EmitWorking(c)
  <2>1. reader' \in [Runs -> Readers]
    BY <1>2, <1>3, <1>11 DEF EmitWorking
  <2> QED BY <1>11, <2>1, TypedKept DEF EmitWorking
<1>12. CASE ReaderEnds(c) /\ UNCHANGED codexRemoteVars
  <2>1. reader' \in [Runs -> Readers]
    BY <1>3, <1>12 DEF ReaderEnds, CodexTyped
  <2>2. <<>> \in Seq(Line)
    OBVIOUS
  <2>3. inbox' \in [Runs -> Seq(Line)]
    BY <1>12, <2>2 DEF ReaderEnds, CodexTyped
  <2>4. /\ pending' \in [Runs -> SUBSET Nat] /\ calls' \in [Callers -> Call]
        /\ proc' \in [Runs -> {"none", "up", "killed", "dead"}]
    BY <1>12, RunsTyped, CloseIs DEF ReaderEnds
  <2> QED BY <1>12, <2>1, <2>3, <2>4, TypedKept DEF ReaderEnds
<1>13. CASE AppServerAnswers(c) /\ UNCHANGED codexRemoteVars
  <2>1. PICK q \in Request : q = Head(stdin[c])
    BY <1>1, <1>13, OneLess DEF AppServerAnswers
  <2>2. Tail(stdin[c]) \in Seq(Request)
    BY <1>1, <1>13, OneLess DEF AppServerAnswers
  <2>3. stdin' \in [Runs -> Seq(Request)]
    BY <1>13, <2>2 DEF AppServerAnswers, CodexTyped
  <2>4. PICK begins \in BOOLEAN :
          /\ turns' = IF begins THEN turns + 1 ELSE turns
          /\ turn' = IF begins THEN [turn EXCEPT ![c] = turns'] ELSE turn
          /\ \E out \in replies(q.method, q.id, IF begins THEN turns' ELSE 0) :
               inbox' = [inbox EXCEPT ![c] = @ \o out]
    BY <1>13, <2>1, TurnBegins
  <2>5. turns' \in Nat
    BY <2>4 DEF CodexTyped
  <2>6. UNCHANGED turn \/ turn' \in [Runs -> Nat]
    BY <2>4, <2>5 DEF CodexTyped
  <2>7. PICK begun \in Nat : \E out \in replies(q.method, q.id, begun) : inbox' = [inbox EXCEPT ![c] = @ \o out]
    BY <2>4, <2>5
  <2>8. PICK out \in replies(q.method, q.id, begun) : inbox' = [inbox EXCEPT ![c] = @ \o out]
    BY <2>7
  <2>9. out \in Seq(Line)
    <3>1. (\E a \in Line : out = <<a>>) \/ \E a, b \in Line : out = <<a, b>>
      BY Replies
    <3>2. \A a \in Line : <<a>> \in Seq(Line)
      OBVIOUS
    <3>3. \A a, b \in Line : <<a, b>> \in Seq(Line)
      OBVIOUS
    <3> QED BY <3>1, <3>2, <3>3
  <2>10. inbox[c] \o out \in Seq(Line)
    BY <1>1, <2>9
  <2>11. inbox' \in [Runs -> Seq(Line)]
    BY <2>8, <2>10 DEF CodexTyped
  <2>12. UNCHANGED <<eventVars, closed, pending, nextID, calls, reader, engine, message>>
    BY <1>13 DEF AppServerAnswers
  <2> QED BY <2>3, <2>5, <2>6, <2>11, <2>12, TypedKept
<1>14. CASE AppServerEndsTurn(c) /\ UNCHANGED codexRemoteVars
  <2>1. turn' \in [Runs -> Nat]
    BY <1>14 DEF AppServerEndsTurn, CodexTyped
  <2>2. notification("turn/completed", turn[c]) \in Line
    BY CodexTypes, LinesAre
  <2>3. Append(inbox[c], notification("turn/completed", turn[c])) \in Seq(Line)
    BY <1>1, <2>2, OneMore
  <2>4. inbox' \in [Runs -> Seq(Line)]
    BY <1>14, <2>3 DEF AppServerEndsTurn, CodexTyped
  <2> QED BY <1>14, <2>1, <2>4, TypedKept DEF AppServerEndsTurn
<1>15. CASE AppServerDies(c) /\ UNCHANGED codexRemoteVars
  <2>1. <<>> \in Seq(Request)
    OBVIOUS
  <2>2. stdin' \in [Runs -> Seq(Request)] /\ turn' \in [Runs -> Nat]
    BY <1>15, <2>1 DEF AppServerDies, CodexTyped
  <2>3. proc' \in [Runs -> {"none", "up", "killed", "dead"}]
    BY <1>15, RunsTyped DEF AppServerDies
  <2> QED BY <1>15, <2>2, <2>3, TypedKept DEF AppServerDies
<1> QED BY <1>5, <1>6, <1>7, <1>8, <1>9, <1>10, <1>11, <1>12, <1>13, <1>14, <1>15 DEF ReaderStep

\* The ids that the app-server has to answer, and those of its answers.
ids(s) == {s[i].id : i \in DOMAIN s}
answers(s) == {s[i].n : i \in {j \in DOMAIN s : s[j].kind = "response"}}
inTransit(c) == ids(stdin[c]) \cup answers(inbox[c])

underWay(who) == calls[who].pc \in {"send", "await"}

CallOK(who) ==
  /\ calls[who].client <= started
  /\ underWay(who) => calls[who].id <= nextID[calls[who].client]
  /\ calls[who].pc = "send" =>
       /\ calls[who].client \in closed \/ calls[who].id \in pending[calls[who].client]
       /\ calls[who].id \notin inTransit(calls[who].client)
  /\ calls[who].pc = "await" =>
       calls[who].client \notin closed /\ calls[who].id \in pending[calls[who].client]

\* Also the two callers have ids of their own.
Apart ==
  underWay("runtime") /\ underWay("sender") /\ calls["runtime"].client = calls["sender"].client
    => calls["runtime"].id # calls["sender"].id

Numbered == \A c \in Runs : \A n \in inTransit(c) : n <= nextID[c]

\* The client that is being made is not attached, and no message is sent with it.
Initializing == at = "initialize" => current = 0 /\ calls["sender"].client < started

CallsInv ==
  /\ Addressed /\ (\A who \in Callers : CallOK(who))
  /\ Apart /\ Numbered /\ Initializing

LEMMA InitCalls == Init => CallsInv
<1> SUFFICES ASSUME Init PROVE CallsInv
  OBVIOUS
<1> USE DEF Init, EventsInit, ClientInit
<1>1. \A who \in Callers : calls[who].pc = "none" /\ calls[who].client = 0
  BY DEF none
<1>2. \A c \in Runs : inTransit(c) = {}
  BY DEF inTransit, ids, answers
<1>3. started = 0 /\ at = "rest"
  OBVIOUS
<1>4. \A who \in Callers : CallOK(who)
  BY <1>1, <1>3 DEF CallOK, underWay
<1>5. ~underWay("runtime")
  BY <1>1, CallersAre DEF underWay
<1> QED BY <1>1, <1>2, <1>3, <1>4, <1>5 DEF CallsInv, Addressed, Apart, Numbered, Initializing

LEMMA Asking ==
  ASSUME NEW s \in Seq(Request), NEW q \in Request
  PROVE  ids(Append(s, q)) = ids(s) \cup {q.id}
<1>1. /\ DOMAIN s = 1..Len(s) /\ DOMAIN Append(s, q) = 1..(Len(s) + 1) /\ Len(s) \in Nat
      /\ \A i \in DOMAIN s : Append(s, q)[i] = s[i]
      /\ Append(s, q)[Len(s) + 1] = q
  BY OneMore
<1> QED BY <1>1 DEF ids

LEMMA Asked ==
  ASSUME NEW s \in Seq(Request), s # <<>>
  PROVE  ids(Tail(s)) \subseteq ids(s) /\ Head(s).id \in ids(s)
<1>1. /\ Head(s) = s[1] /\ 1 \in DOMAIN s
      /\ \A i \in DOMAIN Tail(s) : i + 1 \in DOMAIN s /\ Tail(s)[i] = s[i + 1]
  BY OneLess
<1> QED BY <1>1 DEF ids

LEMMA Answering ==
  ASSUME NEW s \in Seq(Line), NEW m \in Line
  PROVE  answers(Append(s, m)) = answers(s) \cup (IF m.kind = "response" THEN {m.n} ELSE {})
<1>1. /\ DOMAIN s = 1..Len(s) /\ DOMAIN Append(s, m) = 1..(Len(s) + 1) /\ Len(s) \in Nat
      /\ \A i \in DOMAIN s : Append(s, m)[i] = s[i]
      /\ Append(s, m)[Len(s) + 1] = m
  BY OneMore
<1>2. ASSUME NEW n
      PROVE  n \in answers(Append(s, m)) <=> n \in answers(s) \/ (m.kind = "response" /\ n = m.n)
  BY <1>1 DEF answers
<1> QED BY <1>2

LEMMA Answered ==
  ASSUME NEW s \in Seq(Line), s # <<>>
  PROVE  /\ answers(Tail(s)) \subseteq answers(s)
         /\ Head(s).kind = "response" => Head(s).n \in answers(s)
<1>1. /\ Head(s) = s[1] /\ 1 \in DOMAIN s
      /\ \A i \in DOMAIN Tail(s) : i + 1 \in DOMAIN s /\ Tail(s)[i] = s[i + 1]
  BY OneLess
<1> QED BY <1>1 DEF answers

\* No call goes out, and those that wait keep waiting for something.
LEMMA CallsSettle ==
  ASSUME CodexTyped, CodexTyped', CallsInv, UNCHANGED nextID, started <= started', started \in Nat, started' \in Nat,
         \A c \in Runs : inTransit(c)' \subseteq inTransit(c),
         \A who \in Callers :
           \/ calls'[who].pc = "none" /\ calls'[who].client <= started'
           \/ /\ calls'[who].pc \in {"register", "done"}
              /\ calls'[who].client \in Runs /\ calls'[who].client <= started'
           \/ /\ calls'[who] = calls[who]
              /\ calls[who].pc = "send" =>
                   calls[who].client \in closed' \/ calls[who].id \in pending'[calls[who].client]
              /\ calls[who].pc = "await" =>
                   /\ calls[who].client \notin closed'
                   /\ calls[who].id \in pending'[calls[who].client],
         Initializing'
  PROVE  CallsInv'
<1>1. ASSUME NEW who \in Callers
      PROVE  CallOK(who)' /\ (calls'[who].pc # "none" => calls'[who].client \in Runs)
  <2>1. CASE calls'[who].pc = "none" /\ calls'[who].client <= started'
    BY <2>1 DEF CallOK, underWay
  <2>2. CASE /\ calls'[who].pc \in {"register", "done"}
             /\ calls'[who].client \in Runs /\ calls'[who].client <= started'
    BY <2>2 DEF CallOK, underWay
  <2>3. CASE /\ calls'[who] = calls[who]
             /\ calls[who].pc = "send" =>
                  calls[who].client \in closed' \/ calls[who].id \in pending'[calls[who].client]
             /\ calls[who].pc = "await" =>
                  /\ calls[who].client \notin closed'
                  /\ calls[who].id \in pending'[calls[who].client]
    <3>1. calls[who].client <= started'
      BY CallType DEF CallsInv, CallOK
    <3>2. calls[who].pc # "none" => calls[who].client \in Runs
      BY DEF CallsInv, Addressed
    <3>3. CallOK(who)
      BY DEF CallsInv
    <3>4. calls[who].pc = "send" => calls[who].id \notin inTransit(calls[who].client)'
      <4>1. PICK c : c = calls[who].client
        OBVIOUS
      <4>2. calls[who].pc = "send" => c \in Runs /\ calls[who].id \notin inTransit(c)
        BY <3>2, <3>3, <4>1 DEF CallOK
      <4>3. calls[who].pc = "send" => calls[who].id \notin inTransit(c)'
        BY <4>2
      <4> QED BY <2>3, <4>1, <4>3
    <3> QED BY <2>3, <3>1, <3>2, <3>3, <3>4 DEF CallOK, underWay
  <2> QED BY <2>1, <2>2, <2>3
<1>2. Apart'
  BY CallersAre DEF CallsInv, Apart, underWay
<1>3. Numbered'
  BY DEF CallsInv, Numbered
<1> QED BY <1>1, <1>2, <1>3 DEF CallsInv, Addressed

\* A client is closed: nobody is left who waits for it.
LEMMA CloseLeavesNobody ==
  ASSUME CodexTyped, ofCodexRemote, CallsInv, NEW c \in Runs, Close(c), NEW who \in Callers
  PROVE  \/ /\ calls'[who].pc = "done" /\ calls'[who].client = calls[who].client
            /\ calls'[who].client \in Runs
         \/ /\ calls'[who] = calls[who]
            /\ calls[who].pc = "send" =>
                 calls[who].client \in closed' \/ calls[who].id \in pending'[calls[who].client]
            /\ calls[who].pc = "await" =>
                 /\ calls[who].client \notin closed'
                 /\ calls[who].id \in pending'[calls[who].client]
<1>1. proc \in [Runs -> {"none", "up", "killed", "dead"}]
  BY RunsTyped
<1>2. /\ \A d \in Runs : pending'[d] = IF d = c THEN {} ELSE pending[d]
      /\ IF calls[who].pc = "await" /\ calls[who].client = c /\ calls[who].id \in pending[c] /\ c \notin closed
         THEN calls'[who].pc = "done" /\ calls'[who].client = calls[who].client
         ELSE calls'[who] = calls[who]
  BY <1>1, CloseIs
<1>3. closed' = closed \cup {c}
  BY DEF Close
<1>4. CallOK(who) /\ (calls[who].pc \in {"send", "await"} => calls[who].client \in Runs)
  BY DEF CallsInv, Addressed
<1> QED BY <1>2, <1>3, <1>4 DEF CallOK

LEMMA RuntimeCalls ==
  ASSUME CodexTyped, CodexTyped', ofCodexRemote, CallsInv,
         RuntimeStep \/ CodexStartRemote \/ CodexStopRemote \/ CodexAbort
  PROVE  CallsInv'
<1> USE DEF keepClient, reportVars, runtimeVars, phoneVars, clientVars, codexRemoteVars, GoTo
<1>1. UNCHANGED <<nextID, stdin, inbox>>
  BY DEF RuntimeStep, CodexStartRemote, CodexStopRemote, CodexAbort, CodexRemoteNotSpawned, CodexInitialized,
         CodexNotInitialized, CodexOpensThread, CodexOpensAgain, CodexRemoteReady, CodexStopEmits,
         CodexStopCloses, CodexAborted
<1>2. \A c \in Runs : inTransit(c)' \subseteq inTransit(c)
  BY <1>1 DEF inTransit
<1>3. started \in Nat /\ started' \in Nat /\ started <= started' /\ ofCodexRemote'
  <2>1. ofCodexRemote'
    BY DEF ofCodexRemote, RuntimeStep, CodexStartRemote, CodexStopRemote, CodexAbort, CodexRemoteNotSpawned,
           CodexInitialized, CodexNotInitialized, CodexOpensThread, CodexOpensAgain, CodexRemoteReady,
           CodexStopEmits, CodexStopCloses, CodexAborted
  <2>2. started \in Nat
    BY RunsTyped
  <2>3. started' = started \/ started' = started + 1
    BY DEF RuntimeStep, CodexStartRemote, CodexStopRemote, CodexAbort, CodexRemoteNotSpawned,
           CodexInitialized, CodexNotInitialized, CodexOpensThread, CodexOpensAgain, CodexRemoteReady,
           CodexStopEmits, CodexStopCloses, CodexAborted, Failed, EvReady, Started
  <2> QED BY <2>1, <2>2, <2>3
<1>4. "runtime" \in Callers /\ "sender" \in Callers
  BY CallersAre
<1> DEFINE settles(who) ==
             \/ calls'[who].pc = "none" /\ calls'[who].client <= started'
             \/ /\ calls'[who].pc \in {"register", "done"}
                /\ calls'[who].client \in Runs /\ calls'[who].client <= started'
             \/ /\ calls'[who] = calls[who]
                /\ calls[who].pc = "send" =>
                     calls[who].client \in closed' \/ calls[who].id \in pending'[calls[who].client]
                /\ calls[who].pc = "await" =>
                     /\ calls[who].client \notin closed'
                     /\ calls[who].id \in pending'[calls[who].client]
<1>5. ASSUME NEW who \in Callers, calls'[who] = calls[who], UNCHANGED <<closed, pending>>
      PROVE  settles(who)
  BY <1>5 DEF CallsInv, CallOK
<1>6. ASSUME NEW who \in Callers
      PROVE  calls[who].client <= started /\ calls[who].client \in Nat
  BY CallType DEF CallsInv, CallOK
<1>7. SUFFICES (\A who \in Callers : settles(who)) /\ Initializing'
  BY <1>1, <1>2, <1>3, CallsSettle
<1>8. CASE UNCHANGED <<closed, pending, calls>> /\ at' # "initialize"
  BY <1>5, <1>8 DEF Initializing
<1>9. CASE CodexStartRemote
  <2>1. UNCHANGED <<closed, pending>> /\ started' = started + 1 /\ started < MaxRuns
    BY <1>9 DEF CodexStartRemote, Started
  <2>2. CASE current # 0 /\ GoTo("thread") /\ BeginCall("runtime", current, "thread")
    <3>1. current \in 0..MaxRuns /\ current \in Runs /\ current <= started'
      BY <1>3, <2>2, RunsTyped
    <3>2. calls'["runtime"].pc = "register" /\ calls'["runtime"].client = current /\ calls'["sender"] = calls["sender"]
      BY <1>4, <2>2, <3>1, MethodsAre, CallBegun
    <3>3. settles("runtime") /\ settles("sender")
      BY <1>4, <1>5, <2>1, <3>1, <3>2
    <3>4. Initializing'
      BY <2>2 DEF Initializing
    <3> QED BY <3>3, <3>4, CallersAre
  <2>3. CASE current = 0 /\ GoTo("initialize") /\ BeginCall("runtime", started', "initialize")
    <3>1. PICK s : s = started'
      OBVIOUS
    <3>2. s \in Runs /\ s \in 0..MaxRuns
      BY <2>1, <3>1, RunsTyped, Bounds DEF Runs
    <3>3. BeginCall("runtime", s, "initialize")
      BY <2>3, <3>1
    <3>4. calls'["runtime"].pc = "register" /\ calls'["runtime"].client = s /\ calls'["sender"] = calls["sender"]
      BY <1>4, <3>2, <3>3, MethodsAre, CallBegun
    <3>5. settles("runtime") /\ settles("sender")
      BY <1>3, <1>4, <1>5, <2>1, <3>1, <3>2, <3>4
    <3>6. current' = current
      BY <1>9 DEF CodexStartRemote
    <3>7. Initializing'
      BY <1>3, <1>4, <1>6, <2>1, <2>3, <3>4, <3>6 DEF Initializing
    <3> QED BY <3>5, <3>7, CallersAre
  <2>4. CASE GoTo("not spawned") /\ UNCHANGED calls
    BY <1>8, <2>1, <2>4
  <2> QED BY <1>9, <2>2, <2>3, <2>4 DEF CodexStartRemote
<1>10. CASE CodexRemoteNotSpawned \/ CodexRemoteReady \/ CodexStopEmits \/ CodexStopRemote
  BY <1>8, <1>10 DEF CodexRemoteNotSpawned, CodexRemoteReady, CodexStopEmits, CodexStopRemote, Failed
<1>11. ASSUME NEW c \in Runs, c <= started', NEW m \in Methods, BeginCall("runtime", c, m),
              UNCHANGED <<closed, pending>>, at' # "initialize"
       PROVE  (\A who \in Callers : settles(who)) /\ Initializing'
  <2>1. c \in 0..MaxRuns
    BY Bounds DEF Runs
  <2>2. calls'["runtime"].pc = "register" /\ calls'["runtime"].client = c /\ calls'["sender"] = calls["sender"]
    BY <1>4, <1>11, <2>1, CallBegun
  <2>3. settles("runtime") /\ settles("sender")
    BY <1>4, <1>5, <1>11, <2>2
  <2> QED BY <1>11, <2>3, CallersAre DEF Initializing
<1>12. CASE CodexInitialized
  <2>1. started \in Runs /\ started <= started'
    BY <1>3, <1>12, RunsTyped DEF CodexInitialized
  <2> QED BY <1>11, <1>12, <2>1, MethodsAre DEF CodexInitialized
<1>13. CASE CodexAbort
  <2>1. current \in Runs /\ current <= started'
    BY <1>3, <1>13, RunsTyped DEF CodexAbort
  <2> QED BY <1>11, <1>13, <2>1, MethodsAre DEF CodexAbort
<1>14. ASSUME calls' = [calls EXCEPT !["runtime"] = none]
       PROVE  settles("runtime") /\ calls'["sender"] = calls["sender"]
  <2>1. "runtime" \in Callers /\ "sender" \in Callers /\ "sender" # "runtime"
    BY <1>4
  <2>2. calls'["runtime"].client = 0 /\ calls'["runtime"].pc = "none" /\ calls'["sender"] = calls["sender"]
    BY <1>14, <2>1, CallGone
  <2>3. calls'["runtime"].client <= started'
    BY <1>3, <2>2
  <2> QED BY <2>2, <2>3
<1>15. CASE CodexOpensThread \/ CodexAborted
  <2>1. UNCHANGED <<closed, pending>> /\ at' # "initialize" /\ calls' = [calls EXCEPT !["runtime"] = none]
    BY <1>15 DEF CodexOpensThread, CodexAborted, Failed
  <2>2. settles("sender")
    BY <1>4, <1>5, <1>14, <2>1
  <2> QED BY <1>14, <2>1, <2>2, CallersAre DEF Initializing
<1>16. CASE CodexNotInitialized
  <2>1. /\ closed' = closed \cup {started} /\ pending' = [pending EXCEPT ![started] = {}]
        /\ calls' = [calls EXCEPT !["runtime"] = none] /\ at' = "rest" /\ at = "initialize"
    BY <1>16 DEF CodexNotInitialized, Failed
  <2>2. calls["sender"].client < started
    BY <2>1 DEF CallsInv, Initializing
  <2>3. calls["sender"].pc \in {"send", "await"} =>
          pending'[calls["sender"].client] = pending[calls["sender"].client]
    <3>1. PICK c : c = calls["sender"].client
      OBVIOUS
    <3>2. "sender" \in Callers
      BY <1>4
    <3>3. c # started
      BY <1>3, <1>6, <2>2, <3>1, <3>2
    <3>4. calls["sender"].pc \in {"send", "await"} => c \in Runs
      BY <3>1, <3>2 DEF CallsInv, Addressed
    <3>5. c \in Runs => pending'[c] = pending[c]
      BY <2>1, <3>3 DEF CodexTyped
    <3> QED BY <3>1, <3>4, <3>5
  <2>4. settles("sender")
    BY <1>4, <1>6, <1>14, <2>1, <2>2, <2>3 DEF CallsInv, CallOK
  <2> QED BY <1>14, <2>1, <2>4, CallersAre DEF Initializing
<1>17. CASE CodexStopCloses
  <2>1. at' = "rest" /\ started' = started
    BY <1>17 DEF CodexStopCloses
  <2>2. CASE handle # 0 /\ Close(handle)
    <3>1. handle \in Runs
      BY <2>2, RunsTyped
    <3>2. \A who \in Callers : settles(who)
      BY <1>6, <2>1, <2>2, <3>1, CloseLeavesNobody
    <3> QED BY <2>1, <3>2 DEF Initializing
  <2>3. CASE UNCHANGED <<closed, pending, calls, proc>>
    BY <1>8, <2>1, <2>3
  <2> QED BY <1>17, <2>2, <2>3 DEF CodexStopCloses
<1>18. CASE CodexOpensAgain
  <2>1. PICK c : c = calls["runtime"].client
    OBVIOUS
  <2>2. c \in Runs /\ c <= started'
    BY <1>4, <1>6, <1>18, <2>1 DEF CodexOpensAgain, Returned, CallsInv, Addressed
  <2>3. BeginCall("runtime", c, "thread again") /\ UNCHANGED <<closed, pending>> /\ at' # "initialize"
    BY <1>18, <2>1 DEF CodexOpensAgain
  <2> QED BY <1>11, <2>2, <2>3, MethodsAre
<1> QED BY <1>9, <1>10, <1>12, <1>13, <1>15, <1>16, <1>17, <1>18 DEF RuntimeStep

LEMMA SenderCalls ==
  ASSUME CodexTyped, CodexTyped', ofCodexRemote, CallsInv,
         \/ CodexSend \/ CodexStartsTurn \/ CodexTurnAccepted \/ CodexStartsAgain
         \/ CodexTurnBegun \/ CodexTurnNotBegun
  PROVE  CallsInv'
<1> USE DEF keepClient, eventVars, reportVars, runtimeVars, phoneVars, clientVars, codexRemoteVars
<1>1. UNCHANGED <<closed, pending, nextID, stdin, inbox, at, current, started>>
  BY DEF CodexSend, CodexStartsTurn, CodexTurnAccepted, CodexStartsAgain,
         CodexTurnBegun, CodexTurnNotBegun
<1>2. \A c \in Runs : inTransit(c)' \subseteq inTransit(c)
  BY <1>1 DEF inTransit
<1>3. started \in Nat /\ started' = started
  BY <1>1, RunsTyped
<1>4. ASSUME NEW who \in Callers
      PROVE  /\ calls[who].client <= started /\ calls[who].client \in Nat
             /\ calls[who].pc = "send" =>
                  calls[who].client \in closed' \/ calls[who].id \in pending'[calls[who].client]
             /\ calls[who].pc = "await" =>
                  /\ calls[who].client \notin closed'
                  /\ calls[who].id \in pending'[calls[who].client]
  BY <1>1, CallType DEF CallsInv, CallOK
<1>5. CASE UNCHANGED calls
  <2>1. Initializing'
    BY <1>1, <1>5 DEF CallsInv, Initializing
  <2> QED BY <1>1, <1>2, <1>3, <1>4, <1>5, <2>1, CallsSettle
<1>6. CASE CodexStartsTurn /\ current # 0 /\ BeginCall("sender", current, "turn/start")
  <2>1. current \in Runs /\ current \in 0..MaxRuns /\ current <= started
    BY <1>6, RunsTyped
  <2>2. "turn/start" \in Methods
    BY DEF Methods, turnStarts
  <2>3. /\ calls'["sender"].pc = "register" /\ calls'["sender"].client = current
        /\ calls'["runtime"] = calls["runtime"]
    BY <1>6, <2>1, <2>2, CallBegun, CallersAre
  <2>4. Initializing'
    BY <1>1, <1>6 DEF CallsInv, Initializing
  <2> QED BY <1>1, <1>2, <1>3, <1>4, <2>1, <2>3, <2>4, CallsSettle, CallersAre
<1>7. CASE calls' = [calls EXCEPT !["sender"] = none]
  <2>1. /\ calls'["sender"].pc = "none" /\ calls'["sender"].client = 0
        /\ calls'["runtime"] = calls["runtime"]
    BY <1>7, CallGone, CallersAre
  <2>2. Initializing'
    BY <1>1, <1>3, <2>1, RunsTyped DEF CallsInv, Initializing
  <2> QED BY <1>1, <1>2, <1>3, <1>4, <2>1, <2>2, CallsSettle, CallersAre
<1>8. CASE CodexStartsAgain
  <2>1. PICK c : c = calls["sender"].client
    OBVIOUS
  <2>2. c \in Runs /\ c \in 0..MaxRuns /\ c <= started
    BY <1>4, <1>8, <2>1, CallersAre, CallType DEF CodexStartsAgain, Returned, CallsInv, Addressed
  <2>3. "turn/start again" \in Methods
    BY DEF Methods, turnStarts
  <2>4. /\ calls'["sender"].pc = "register" /\ calls'["sender"].client = c
        /\ calls'["runtime"] = calls["runtime"]
    BY ZenonT(60), <1>8, <2>1, <2>2, <2>3, CallBegun, CallersAre DEF CodexStartsAgain
  <2>5. Initializing'
    BY <1>1, <2>1, <2>4 DEF CallsInv, Initializing
  <2> QED BY <1>1, <1>2, <1>3, <1>4, <2>2, <2>4, <2>5, CallsSettle, CallersAre
<1> QED BY <1>5, <1>6, <1>7, <1>8 DEF CodexSend, CodexStartsTurn, CodexTurnAccepted, CodexStartsAgain,
         CodexTurnBegun, CodexTurnNotBegun

LEMMA CallerCalls ==
  ASSUME CodexTyped, CodexTyped', ofCodexRemote, CallsInv, NEW who \in Callers, CallStep(who)
  PROVE  CallsInv'
<1> USE DEF eventVars, reportVars, runtimeVars, phoneVars
<1>1. PICK c : c = calls[who].client
  OBVIOUS
<1>2. PICK i : i = calls[who].id
  OBVIOUS
<1>3. /\ c \in Runs /\ i \in Nat /\ c \in Nat /\ c <= started
      /\ started \in Nat /\ nextID[c] \in Nat
      /\ CallOK(who)
  BY <1>1, <1>2, RunsTyped, CallType, CodexTypes
  DEF CallStep, Register, SendRequest, CallTimesOut, CallsInv, Addressed, CallOK
<1>4. UNCHANGED <<started, at, current, closed, inbox>>
  BY DEF CallStep, Register, SendRequest, CallTimesOut
<1>5. ASSUME NEW w \in Callers
      PROVE  /\ CallOK(w) /\ calls[w].client <= started /\ calls[w].client \in Nat /\ calls[w].id \in Nat
             /\ calls[w].pc # "none" => calls[w].client \in Runs
  BY CallType DEF CallsInv, CallOK, Addressed
<1>6. ASSUME NEW w \in Callers, w # who, underWay(w), underWay(who), calls[w].client = c
      PROVE  calls[w].id # i
  BY <1>1, <1>2, <1>6, CallersAre DEF CallsInv, Apart
<1>7. ASSUME calls'["sender"].client = calls["sender"].client
      PROVE  Initializing'
  BY <1>4, <1>7 DEF CallsInv, Initializing
<1>8. CASE pending' = forget(who) /\ calls' = returns(who, "error") /\ UNCHANGED <<nextID, stdin>> /\ underWay(who)
  <2>1. /\ calls'[who].client = c /\ calls'[who].pc = "done"
        /\ \A w \in Callers : w # who => calls'[w] = calls[w]
    BY <1>1, <1>8, CallReturned
  <2>2. \A d \in Runs : pending'[d] = IF d = c THEN pending[d] \ {i} ELSE pending[d]
    BY <1>1, <1>2, <1>3, <1>8 DEF forget, CodexTyped
  <2>3. ASSUME NEW w \in Callers, w # who
        PROVE  /\ calls[w].pc = "send" =>
                    calls[w].client \in closed' \/ calls[w].id \in pending'[calls[w].client]
               /\ calls[w].pc = "await" =>
                    calls[w].client \notin closed' /\ calls[w].id \in pending'[calls[w].client]
    BY <1>4, <1>5, <1>6, <1>8, <2>2, <2>3 DEF CallOK, underWay
  <2>4. \A d \in Runs : inTransit(d)' \subseteq inTransit(d)
    BY <1>4, <1>8 DEF inTransit
  <2>5. Initializing'
    BY <1>1, <1>7, <2>1, CallersAre
  <2> QED BY <1>3, <1>4, <1>8, <2>1, <2>3, <2>4, <2>5, CallsSettle
<1>9. CASE SendRequest(who) /\ c \notin closed
           /\ stdin' = [stdin EXCEPT ![c] = Append(@, [id |-> i, method |-> calls[who].method])]
           /\ calls' = [calls EXCEPT ![who].pc = "await"]
           /\ UNCHANGED pending
  <2> DEFINE q == [id |-> i, method |-> calls[who].method]
  <2>1. q \in Request /\ q.id = i
    BY <1>3, CallType DEF Request
  <2> HIDE DEF q
  <2>2. ids(Append(stdin[c], q)) = ids(stdin[c]) \cup {i}
    BY <1>3, <2>1, CodexTypes, Asking
  <2>3. stdin' = [stdin EXCEPT ![c] = Append(@, q)]
    BY <1>9 DEF q
  <2>4. \A d \in Runs : stdin'[d] = IF d = c THEN Append(stdin[c], q) ELSE stdin[d]
    BY <2>3 DEF CodexTyped
  <2>5. \A d \in Runs : inTransit(d)' = IF d = c THEN inTransit(d) \cup {i} ELSE inTransit(d)
    BY <1>4, <2>2, <2>4 DEF inTransit
  <2>6. /\ calls'[who].client = c /\ calls'[who].pc = "await" /\ calls'[who].id = i
        /\ \A w \in Callers : w # who => calls'[w] = calls[w]
    BY <1>1, <1>2, <1>9, CallSent
  <2>7. nextID' = nextID /\ calls[who].pc = "send"
    BY <1>9 DEF SendRequest
  <2>8. i <= nextID[c] /\ i \in pending[c]
    BY <1>1, <1>2, <1>3, <1>9, <2>7 DEF CallOK, underWay
  <2>9. CallOK(who)'
    BY <1>3, <1>4, <1>9, <2>6, <2>7, <2>8 DEF CallOK, underWay
  <2>10. ASSUME NEW w \in Callers, w # who
         PROVE  CallOK(w)'
    <3>1. calls'[w] = calls[w] /\ CallOK(w)
      BY <1>5, <2>6, <2>10
    <3>2. PICK d : d = calls[w].client
      OBVIOUS
    <3>3. calls[w].pc = "send" => calls[w].id \notin inTransit(d)'
      BY <1>5, <1>6, <2>5, <2>7, <2>10, <3>1, <3>2 DEF CallOK, underWay
    <3>4. calls[w].pc = "send" => calls[w].id \notin inTransit(calls[w].client)'
      BY <3>1, <3>2, <3>3
    <3>5. closed' = closed /\ pending' = pending /\ nextID' = nextID /\ started' = started
      BY <1>4, <1>9, <2>7
    <3>6. /\ calls'[w].client <= started'
          /\ calls'[w].pc \in {"send", "await"} => calls'[w].id <= nextID'[calls'[w].client]
          /\ calls'[w].pc = "send" =>
               calls'[w].client \in closed' \/ calls'[w].id \in pending'[calls'[w].client]
          /\ calls'[w].pc = "await" =>
               calls'[w].client \notin closed' /\ calls'[w].id \in pending'[calls'[w].client]
      BY <3>1, <3>5 DEF CallOK, underWay
    <3>7. calls'[w].pc = "send" => calls'[w].id \notin inTransit(calls[w].client)'
      BY <3>1, <3>4
    <3> QED BY <3>6, <3>7 DEF CallOK, underWay
  <2>11. Apart'
    BY <1>6, <2>6, <2>7, CallersAre DEF CallsInv, Apart, underWay
  <2>12. Numbered'
    BY <2>5, <2>7, <2>8 DEF CallsInv, Numbered
  <2>13. Addressed'
    BY <1>3, <1>5, <2>6 DEF Addressed
  <2>14. Initializing'
    BY <1>1, <1>7, <2>6, CallersAre
  <2> QED BY <2>9, <2>10, <2>11, <2>12, <2>13, <2>14 DEF CallsInv
<1>10. CASE Register(who)
  <2>1. PICK n : n = nextID[c] + 1
    OBVIOUS
  <2>2. n \in Nat /\ n > nextID[c]
    BY <1>3, <2>1
  <2>3. nextID' = [nextID EXCEPT ![c] = n] /\ UNCHANGED stdin
    BY <1>1, <1>10, <2>1 DEF Register, CodexTyped
  <2>4. \A d \in Runs : nextID'[d] = IF d = c THEN n ELSE nextID[d]
    BY <2>3 DEF CodexTyped
  <2>5. /\ \A d \in Runs : nextID[d] <= nextID'[d] /\ nextID[d] \in Nat /\ nextID'[d] \in Nat
        /\ nextID'[c] = n
    <3>1. \A d \in Runs : nextID[d] \in Nat
      BY CodexTypes
    <3>2. c \in Runs
      BY <1>3
    <3> QED BY <2>2, <2>4, <3>1, <3>2
  <2>6. \A d \in Runs : inTransit(d)' = inTransit(d)
    BY <1>4, <2>3 DEF inTransit
  <2>7. \A d \in Runs : \A m \in inTransit(d) : m \in Nat
    <3>1. \A d \in Runs : stdin[d] \in Seq(Request) /\ inbox[d] \in Seq(Line)
      BY CodexTypes
    <3>2. \A d \in Runs : /\ \A j \in DOMAIN stdin[d] : stdin[d][j] \in Request
                          /\ \A j \in DOMAIN inbox[d] : inbox[d][j] \in Line
      BY <3>1
    <3> QED BY <3>2, LineType DEF inTransit, ids, answers, Request
  <2>8. Numbered'
    BY <2>5, <2>6, <2>7 DEF CallsInv, Numbered
  <2>9. n \notin inTransit(c)
    BY <1>3, <2>2, <2>7 DEF CallsInv, Numbered
  <2>10. CASE calls' = returns(who, "error") /\ UNCHANGED pending
    <3>1. /\ calls'[who].client = c /\ calls'[who].pc = "done"
          /\ \A w \in Callers : w # who => calls'[w] = calls[w]
      BY <1>1, <2>10, CallReturned
    <3>2. ASSUME NEW w \in Callers PROVE CallOK(w)'
      BY <1>3, <1>4, <1>5, <2>5, <2>6, <2>10, <3>1 DEF CallOK, underWay
    <3>3. Apart'
      BY <3>1, CallersAre DEF CallsInv, Apart, underWay
    <3>5. Addressed'
      BY <1>3, <1>5, <3>1 DEF Addressed
    <3>4. Initializing'
      BY <1>1, <1>7, <3>1, CallersAre
    <3> QED BY <2>8, <3>2, <3>3, <3>4, <3>5 DEF CallsInv
  <2>11. CASE /\ pending' = [pending EXCEPT ![c] = @ \cup {n}]
              /\ calls' = [calls EXCEPT ![who].pc = "send", ![who].id = n]
    <3>1. /\ calls'[who].client = c /\ calls'[who].pc = "send" /\ calls'[who].id = n
          /\ \A w \in Callers : w # who => calls'[w] = calls[w]
      BY <1>1, <2>2, <2>11, CallNumbered
    <3>2. \A d \in Runs : pending[d] \subseteq pending'[d] /\ n \in pending'[c]
      BY <1>3, <2>11 DEF CodexTyped
    <3>3. CallOK(who)'
      BY <1>3, <1>4, <2>2, <2>5, <2>6, <2>9, <3>1, <3>2 DEF CallOK, underWay
    <3>4. ASSUME NEW w \in Callers, w # who PROVE CallOK(w)'
      BY <1>3, <1>4, <1>5, <2>5, <2>6, <3>1, <3>2, <3>4 DEF CallOK, underWay
    <3>5. ASSUME NEW w \in Callers, w # who, underWay(w), calls[w].client = c PROVE calls[w].id # n
      BY <1>3, <1>5, <2>2, <3>5 DEF CallOK
    <3>6. Apart'
      BY <3>1, <3>5, CallersAre DEF Apart, underWay
    <3>7. Addressed'
      BY <1>3, <1>5, <3>1 DEF Addressed
    <3>8. Initializing'
      BY <1>1, <1>7, <3>1, CallersAre
    <3> QED BY <2>8, <3>3, <3>4, <3>6, <3>7, <3>8 DEF CallsInv
  <2>12. nextID'[c] = n
    BY <1>3, <2>4
  <2> QED BY <1>1, <1>10, <2>10, <2>11, <2>12 DEF Register
<1>11. CASE SendRequest(who)
  BY <1>1, <1>2, <1>8, <1>9, <1>11 DEF SendRequest, underWay
<1>12. CASE CallTimesOut(who)
  BY <1>8, <1>12 DEF CallTimesOut, underWay
<1> QED BY <1>10, <1>11, <1>12 DEF CallStep

LEMMA ReaderCalls ==
  ASSUME CodexTyped, CodexTyped', ofCodexRemote, CallsInv, NEW c \in Runs,
         \/ ReaderStep(c)
         \/ (AppServerAnswers(c) \/ AppServerEndsTurn(c) \/ AppServerDies(c)) /\ UNCHANGED codexRemoteVars
  PROVE  CallsInv'
<1> USE DEF keepClient, eventVars, reportVars, runtimeVars, phoneVars, codexRemoteVars
<1>1. reader[c] \in Readers /\ stdin[c] \in Seq(Request) /\ inbox[c] \in Seq(Line)
  BY CodexTypes
<1>2. UNCHANGED <<started, at, current, nextID>> /\ started \in Nat
  BY RunsTyped
  DEF ReaderStep, ReadResponse, handleThreadStarted, handleTurnStarted, handleTurnCompleted, ReadBusy,
      SetRemoteWorking, EmitWorking, ReaderEnds, AppServerAnswers, AppServerEndsTurn, AppServerDies
<1>3. ASSUME NEW w \in Callers
      PROVE  /\ CallOK(w) /\ calls[w].client <= started /\ calls[w].client \in Nat /\ calls[w].id \in Nat
             /\ calls[w].pc # "none" => calls[w].client \in Runs
  BY CallType DEF CallsInv, CallOK, Addressed
<1>4. ASSUME calls'["sender"].client = calls["sender"].client
      PROVE  Initializing'
  BY <1>2, <1>4 DEF CallsInv, Initializing
<1>5. ASSUME UNCHANGED <<calls, pending, closed>>, \A d \in Runs : inTransit(d)' \subseteq inTransit(d)
      PROVE  CallsInv'
  <2>1. Initializing'
    BY <1>4, <1>5
  <2>2. ASSUME NEW w \in Callers
        PROVE  /\ calls'[w] = calls[w]
               /\ calls[w].pc = "send" =>
                    calls[w].client \in closed' \/ calls[w].id \in pending'[calls[w].client]
               /\ calls[w].pc = "await" =>
                    calls[w].client \notin closed' /\ calls[w].id \in pending'[calls[w].client]
    BY <1>3, <1>5 DEF CallOK
  <2> QED BY <1>2, <1>5, <2>1, <2>2, CallsSettle
<1>6. ASSUME inbox[c] # <<>>, take(c), UNCHANGED stdin
      PROVE  \A d \in Runs : inTransit(d)' \subseteq inTransit(d)
  <2>1. \A d \in Runs : inbox'[d] = IF d = c THEN Tail(inbox[c]) ELSE inbox[d]
    BY <1>6 DEF take, CodexTyped
  <2> QED BY <1>1, <1>6, <2>1, Answered DEF inTransit
<1>7. CASE ReadResponse(c)
  <2>1. PICK m \in Line : m = Head(inbox[c])
    BY <1>1, <1>7, OneLess DEF ReadResponse, next
  <2>2. m.n \in answers(inbox[c])
    BY <1>1, <1>7, <2>1, Answered DEF ReadResponse, next
  <2>3. m.n \in inTransit(c)
    BY <2>2 DEF inTransit
  <2>4. /\ pending' = [pending EXCEPT ![c] = @ \ {m.n}]
        /\ calls' = answered(c, pending[c] \cap {m.n}, m.got)
        /\ UNCHANGED <<closed, stdin>>
    BY <1>7, <2>1 DEF ReadResponse, DispatchResponse
  <2>5. \A d \in Runs : pending'[d] = IF d = c THEN pending[d] \ {m.n} ELSE pending[d]
    BY <2>4 DEF CodexTyped
  <2>6. ASSUME NEW w \in Callers
        PROVE  IF calls[w].pc = "await" /\ calls[w].client = c /\ calls[w].id \in pending[c] \cap {m.n}
               THEN calls'[w].pc = "done" /\ calls'[w].client = calls[w].client
               ELSE calls'[w] = calls[w]
    <3>1. m.got \in Gots
      BY LineType
    <3>2. PICK a : a = pending[c] \cap {m.n}
      OBVIOUS
    <3>3. calls' = answered(c, a, m.got)
      BY <2>4, <3>2
    <3>4. IF calls[w].pc = "await" /\ calls[w].client = c /\ calls[w].id \in a
          THEN calls'[w].pc = "done" /\ calls'[w].client = calls[w].client
          ELSE calls'[w] = calls[w]
      BY <3>1, <3>3, CallsAnswered
    <3> QED BY <3>2, <3>4
  <2>7. ASSUME NEW w \in Callers
        PROVE  \/ /\ calls'[w].pc = "done" /\ calls'[w].client = calls[w].client
                  /\ calls'[w].client \in Runs
               \/ /\ calls'[w] = calls[w]
                  /\ calls[w].pc = "send" =>
                       calls[w].client \in closed' \/ calls[w].id \in pending'[calls[w].client]
                  /\ calls[w].pc = "await" =>
                       calls[w].client \notin closed' /\ calls[w].id \in pending'[calls[w].client]
    <3>1. CASE calls[w].pc = "await" /\ calls[w].client = c /\ calls[w].id \in pending[c] \cap {m.n}
      BY <1>3, <2>6, <3>1
    <3>2. CASE ~(calls[w].pc = "await" /\ calls[w].client = c /\ calls[w].id \in pending[c] \cap {m.n})
      <4>1. calls'[w] = calls[w]
        BY <2>6, <3>2
      <4>2. ASSUME calls[w].pc = "await"
            PROVE  calls[w].client \notin closed' /\ calls[w].id \in pending'[calls[w].client]
        BY <1>3, <2>4, <2>5, <3>2, <4>2 DEF CallOK
      <4>3. ASSUME calls[w].pc = "send"
            PROVE  calls[w].client \in closed' \/ calls[w].id \in pending'[calls[w].client]
        <5>1. calls[w].client = c => calls[w].id # m.n
          BY <1>3, <2>3, <4>3 DEF CallOK
        <5> QED BY <1>3, <2>4, <2>5, <4>3, <5>1 DEF CallOK
      <4> QED BY <4>1, <4>2, <4>3
    <3> QED BY <3>1, <3>2
  <2>8. Initializing'
    BY <1>4, <2>7, CallersAre
  <2>9. \A d \in Runs : inTransit(d)' \subseteq inTransit(d)
    BY <1>6, <1>7, <2>4 DEF ReadResponse, next
  <2> QED BY <1>2, <1>3, <2>7, <2>8, <2>9, CallsSettle
<1>8. CASE handleThreadStarted(c) \/ handleTurnStarted(c) \/ handleTurnCompleted(c)
  BY <1>5, <1>6, <1>8 DEF handleThreadStarted, handleTurnStarted, handleTurnCompleted, next
<1>9. CASE ReadBusy(c) \/ SetRemoteWorking(c) \/ EmitWorking(c)
  <2>1. UNCHANGED <<calls, pending, closed, stdin, inbox>>
    BY <1>9 DEF ReadBusy, SetRemoteWorking, EmitWorking
  <2> QED BY <1>5, <2>1 DEF inTransit
<1>10. CASE ReaderEnds(c) /\ UNCHANGED codexRemoteVars
  <2>1. Close(c) /\ inbox' = [inbox EXCEPT ![c] = <<>>] /\ UNCHANGED stdin
    BY <1>10 DEF ReaderEnds
  <2>2. \A d \in Runs : inTransit(d)' \subseteq inTransit(d)
    <3>1. answers(<<>>) = {}
      BY DEF answers
    <3>2. \A d \in Runs : inbox'[d] = IF d = c THEN <<>> ELSE inbox[d]
      BY <2>1 DEF CodexTyped
    <3> QED BY <2>1, <3>1, <3>2 DEF inTransit
  <2>3. ASSUME NEW w \in Callers
        PROVE  \/ /\ calls'[w].pc = "done" /\ calls'[w].client = calls[w].client
                  /\ calls'[w].client \in Runs
               \/ /\ calls'[w] = calls[w]
                  /\ calls[w].pc = "send" =>
                       calls[w].client \in closed' \/ calls[w].id \in pending'[calls[w].client]
                  /\ calls[w].pc = "await" =>
                       calls[w].client \notin closed' /\ calls[w].id \in pending'[calls[w].client]
    BY <2>1, CloseLeavesNobody
  <2>4. Initializing'
    BY <1>4, <2>3, CallersAre
  <2> QED BY <1>2, <1>3, <2>2, <2>3, <2>4, CallsSettle
<1>11. CASE AppServerAnswers(c) /\ UNCHANGED codexRemoteVars
  <2>1. PICK q \in Request : q = Head(stdin[c])
    BY <1>1, <1>11, OneLess DEF AppServerAnswers
  <2>2. turns' \in Nat
    BY DEF CodexTyped
  <2>3. PICK begun \in Nat : \E out \in replies(q.method, q.id, begun) : inbox' = [inbox EXCEPT ![c] = @ \o out]
    BY <1>11, <2>1, <2>2, TurnBegins
  <2>4. PICK out \in replies(q.method, q.id, begun) : inbox' = [inbox EXCEPT ![c] = @ \o out]
    BY <2>3
  <2>5. answers(inbox[c] \o out) \subseteq answers(inbox[c]) \cup {q.id}
    <3>1. ASSUME NEW a \in Line, out = <<a>>, a.n = q.id
          PROVE  answers(inbox[c] \o out) \subseteq answers(inbox[c]) \cup {q.id}
      <4>1. answers(Append(inbox[c], a)) = answers(inbox[c]) \cup (IF a.kind = "response" THEN {a.n} ELSE {})
        BY <1>1, Answering
      <4>2. inbox[c] \o out = Append(inbox[c], a)
        BY <1>1, <3>1, OneMore
      <4> QED BY <3>1, <4>1, <4>2
    <3>2. ASSUME NEW a \in Line, NEW b \in Line, out = <<a, b>>, 
                 a.kind = "response" => a.n = q.id, b.kind = "response" => b.n = q.id
          PROVE  answers(inbox[c] \o out) \subseteq answers(inbox[c]) \cup {q.id}
      <4>1. inbox[c] \o out = Append(Append(inbox[c], a), b)
        <5>1. inbox[c] \o <<a, b>> = Append(Append(inbox[c], a), b)
          <6>1. inbox[c] \in Seq(Line)
            BY <1>1
          <6> QED BY <6>1, TwoMore, SMTT(60)
        <5> QED BY <3>2, <5>1
      <4>2. Append(inbox[c], a) \in Seq(Line)
        BY <1>1, OneMore
      <4>3. answers(Append(inbox[c], a)) = answers(inbox[c]) \cup (IF a.kind = "response" THEN {a.n} ELSE {})
        BY <1>1, Answering
      <4>4. answers(Append(Append(inbox[c], a), b))
              = answers(Append(inbox[c], a)) \cup (IF b.kind = "response" THEN {b.n} ELSE {})
        BY <4>2, Answering
      <4> QED BY <3>2, <4>1, <4>3, <4>4
    <3>3. \/ \E a \in Line : out = <<a>> /\ a.n = q.id
          \/ \E a, b \in Line : /\ out = <<a, b>>
                                /\ a.kind = "response" => a.n = q.id
                                /\ b.kind = "response" => b.n = q.id
      BY Replies
    <3> QED BY <3>1, <3>2, <3>3
  <2>6. stdin' = [stdin EXCEPT ![c] = Tail(@)] /\ UNCHANGED <<closed, pending, calls>> /\ stdin[c] # <<>>
    BY <1>11 DEF AppServerAnswers
  <2>7. ids(Tail(stdin[c])) \subseteq ids(stdin[c]) /\ q.id \in ids(stdin[c])
    BY <1>1, <2>1, <2>6, Asked
  <2>8. \A d \in Runs : /\ stdin'[d] = IF d = c THEN Tail(stdin[c]) ELSE stdin[d]
                        /\ inbox'[d] = IF d = c THEN inbox[c] \o out ELSE inbox[d]
    BY <2>4, <2>6 DEF CodexTyped
  <2>9. \A d \in Runs : inTransit(d)' \subseteq inTransit(d)
    BY <2>5, <2>7, <2>8 DEF inTransit
  <2> QED BY <1>5, <2>6, <2>9
<1>12. CASE AppServerEndsTurn(c) /\ UNCHANGED codexRemoteVars
  <2>1. PICK m : m = notification("turn/completed", turn[c])
    OBVIOUS
  <2>2. m \in Line /\ m.kind = "turn/completed"
    BY <2>1, CodexTypes, LinesAre
  <2>3. answers(Append(inbox[c], m)) = answers(inbox[c])
    BY <1>1, <2>2, Answering
  <2>4. /\ inbox' = [inbox EXCEPT ![c] = Append(@, m)]
        /\ UNCHANGED <<calls, pending, closed, stdin>>
    BY <1>12, <2>1 DEF AppServerEndsTurn
  <2>5. \A d \in Runs : inbox'[d] = IF d = c THEN Append(inbox[c], m) ELSE inbox[d]
    BY <2>4 DEF CodexTyped
  <2>6. \A d \in Runs : inTransit(d)' \subseteq inTransit(d)
    BY <2>3, <2>4, <2>5 DEF inTransit
  <2> QED BY <1>5, <2>4, <2>6
<1>13. CASE AppServerDies(c) /\ UNCHANGED codexRemoteVars
  <2>1. stdin' = [stdin EXCEPT ![c] = <<>>] /\ UNCHANGED <<calls, pending, closed, inbox>>
    BY <1>13 DEF AppServerDies
  <2>2. ids(<<>>) = {}
    BY DEF ids
  <2>3. \A d \in Runs : stdin'[d] = IF d = c THEN <<>> ELSE stdin[d]
    BY <2>1 DEF CodexTyped
  <2>4. \A d \in Runs : inTransit(d)' \subseteq inTransit(d)
    BY <2>1, <2>2, <2>3 DEF inTransit
  <2> QED BY <1>5, <2>1, <2>4
<1> QED BY <1>7, <1>8, <1>9, <1>10, <1>11, <1>12, <1>13 DEF ReaderStep

CodexInv == CodexTyped /\ CodexIdle /\ (ofCodexRemote => CallsInv)

LEMMA CodexNextKept ==
  ASSUME CodexInv, [Next]_vars
  PROVE  CodexInv'
<1>1. ofCodexRemote' = ofCodexRemote
  BY HalfKept DEF ofCodexRemote
<1>2. CASE half = "codex remote" /\ CodexRemoteNext
  <2>1. ofCodexRemote /\ CodexTyped /\ CallsInv
    BY <1>2 DEF ofCodexRemote, CodexInv
  <2>2. CASE RuntimeStep \/ CodexStartRemote \/ CodexStopRemote \/ CodexAbort
    <3>1. CodexTyped'
      BY <2>1, <2>2, RuntimeTyped
    <3>2. CallsInv'
      BY <2>1, <2>2, <3>1, RuntimeCalls
    <3> QED BY <1>1, <2>1, <3>1, <3>2 DEF CodexInv, CodexIdle
  <2>3. CASE \/ CodexSend \/ CodexStartsTurn \/ CodexTurnAccepted \/ CodexStartsAgain
             \/ CodexTurnBegun \/ CodexTurnNotBegun
    <3>1. CodexTyped'
      BY <2>1, <2>3, SenderTyped DEF CallsInv
    <3>2. CallsInv'
      BY <2>1, <2>3, <3>1, SenderCalls
    <3> QED BY <1>1, <2>1, <3>1, <3>2 DEF CodexInv, CodexIdle
  <2>4. ASSUME NEW who \in Callers, CallStep(who)
        PROVE  CodexInv'
    <3>1. CodexTyped'
      BY <2>1, <2>4, SenderTyped DEF CallsInv
    <3>2. CallsInv'
      BY <2>1, <2>4, <3>1, CallerCalls
    <3> QED BY <1>1, <2>1, <3>1, <3>2 DEF CodexInv, CodexIdle
  <2>5. ASSUME NEW c \in Runs,
               \/ ReaderStep(c)
               \/ (AppServerAnswers(c) \/ AppServerEndsTurn(c) \/ AppServerDies(c)) /\ UNCHANGED codexRemoteVars
        PROVE  CodexInv'
    <3>1. CodexTyped'
      BY <2>1, <2>5, ReaderTyped
    <3>2. CallsInv'
      BY <2>1, <2>5, <3>1, ReaderCalls
    <3> QED BY <1>1, <2>1, <3>1, <3>2 DEF CodexInv, CodexIdle
  <2> QED BY <1>2, <2>2, <2>3, <2>4, <2>5 DEF CodexRemoteNext, CodexRemoteStep
<1>3. CASE ~ofCodexRemote /\ UNCHANGED <<clientVars, codexRemoteVars>>
  BY <1>1, <1>3 DEF CodexInv, CodexTyped, CodexIdle, clientVars, codexRemoteVars
<1>4. CASE UNCHANGED vars
  <2>1. UNCHANGED <<started, current, handle, at, proc, closed, pending, nextID, calls, stdin, inbox, reader,
                    turn, turns, engine, message>>
    BY <1>4 DEF vars, eventVars, reportVars, runtimeVars, clientVars, codexRemoteVars
  <2>2. CodexTyped' /\ CodexIdle'
    BY <1>1, <2>1 DEF CodexInv, CodexTyped, CodexIdle
  <2>3. ofCodexRemote => Addressed' /\ Apart' /\ Numbered' /\ Initializing' /\ \A who \in Callers : CallOK(who)'
    BY <2>1 DEF CodexInv, CallsInv, Addressed, Apart, Numbered, Initializing, CallOK, underWay, inTransit
  <2> QED BY <1>1, <2>2, <2>3 DEF CodexInv, CallsInv
<1>5. CASE Next /\ half # "codex remote"
  BY <1>3, <1>5
  DEF Next, ofCodexRemote, CodexLocalOnly, ClaudeLocalOnly, ClaudeRemoteOnly, AcpOnly, TranscriptOnly
<1> QED BY <1>2, <1>4, <1>5 DEF Next

LEMMA CodexAlways == Spec => []CodexInv
<1>1. Init => CodexInv
  BY InitCodex, InitCalls DEF CodexInv
<1>2. CodexInv /\ [Next]_vars => CodexInv'
  BY CodexNextKept
<1> QED BY <1>1, <1>2, PTL DEF Spec

\* A call that waits is one its client will answer or fail: a client that is closed
\* leaves nobody waiting, whoever else is between the registration and the request.
THEOREM CallsAttended == Spec => []NoOrphanCall
<1>1. ASSUME CodexInv
      PROVE  NoOrphanCall
  <2>1. CASE ofCodexRemote
    BY <1>1, <2>1 DEF CodexInv, CallsInv, CallOK, NoOrphanCall
  <2>2. CASE ~ofCodexRemote
    BY <1>1, <2>2 DEF CodexInv, CodexIdle, NoOrphanCall
  <2> QED BY <2>1, <2>2
<1> QED BY <1>1, CodexAlways, PTL

\* The channel a message waits on was read before its turn could begin.
Waits == message.ch <= engine.ch /\ (message.begun => message.ch < engine.ch)

LEMMA WaitsKept ==
  ASSUME CodexInv, CodexInv', Waits, [Next]_vars
  PROVE  Waits'
<1> USE DEF keepClient, eventVars, reportVars, runtimeVars, phoneVars, codexRemoteVars
<1>1. /\ engine.ch \in Nat /\ message.ch \in Nat /\ message.begun \in BOOLEAN
      /\ engine \in EngineState /\ message \in MessageState
  BY EngineType DEF CodexInv, CodexTyped
<1>2. /\ notSending.begun = FALSE /\ notSending.ch = 0
  BY DEF notSending
<1>3. ASSUME message' = message \/ message' = notSending,
             engine' = engine \/ engine'.ch = engine.ch \/ engine'.ch = engine.ch + 1
      PROVE  Waits'
  BY <1>1, <1>2, <1>3 DEF Waits
<1>4. CASE RuntimeStep \/ CodexStartRemote \/ CodexStopRemote \/ CodexAbort
  <2>1. message' = message
    BY <1>4
    DEF RuntimeStep, CodexStartRemote, CodexStopRemote, CodexAbort, CodexRemoteNotSpawned, CodexInitialized,
        CodexNotInitialized, CodexOpensThread, CodexOpensAgain, CodexRemoteReady, CodexStopEmits,
        CodexStopCloses, CodexAborted
  <2>2. \/ engine' = engine \/ engine' = [engine EXCEPT !.enabled = TRUE]
        \/ engine' = [engine EXCEPT !.thread = calls["runtime"].client]
        \/ engine' = [enabled |-> FALSE, thread |-> 0, turn |-> 0, working |-> FALSE, ch |-> engine.ch + 1]
    BY <1>4
    DEF RuntimeStep, CodexStartRemote, CodexStopRemote, CodexAbort, CodexRemoteNotSpawned, CodexInitialized,
        CodexNotInitialized, CodexOpensThread, CodexOpensAgain, CodexRemoteReady, CodexStopEmits,
        CodexStopCloses, CodexAborted
  <2>3. engine' = engine \/ engine'.ch = engine.ch \/ engine'.ch = engine.ch + 1
    BY <1>1, <2>2 DEF EngineState
  <2> QED BY <1>3, <2>1, <2>3
<1>5. CASE \/ CodexSend \/ CodexStartsTurn \/ CodexTurnAccepted \/ CodexStartsAgain
           \/ CodexTurnBegun \/ CodexTurnNotBegun
  <2>1. engine' = engine
    BY <1>5 DEF CodexSend, CodexStartsTurn, CodexTurnAccepted, CodexStartsAgain,
         CodexTurnBegun, CodexTurnNotBegun
  <2>2. \/ message' = message \/ message' = notSending \/ message' = [notSending EXCEPT !.pc = "read"]
        \/ message' = [notSending EXCEPT !.pc = "call", !.client = current, !.ch = engine.ch]
        \/ message' = [message EXCEPT !.pc = "await"]
    BY <1>5 DEF CodexSend, CodexStartsTurn, CodexTurnAccepted, CodexStartsAgain,
         CodexTurnBegun, CodexTurnNotBegun, accepted
  <2>3. \/ message' = message \/ message' = notSending
        \/ message'.begun = FALSE /\ message'.ch = 0
        \/ message'.begun = FALSE /\ message'.ch = engine.ch
        \/ message'.begun = message.begun /\ message'.ch = message.ch
    BY <1>1, <2>2 DEF notSending, MessageState
  <2> QED BY <1>1, <1>2, <2>1, <2>3 DEF Waits
<1>6. ASSUME NEW who \in Callers, CallStep(who)
      PROVE  Waits'
  BY <1>3, <1>6 DEF CallStep
<1>7. ASSUME NEW c \in Runs, ReaderStep(c)
      PROVE  Waits'
  <2>1. CASE handleTurnStarted(c)
    <3>2. engine' = [engine EXCEPT !.turn = Head(inbox[c]).n, !.ch = @ + 1]
      BY <2>1 DEF handleTurnStarted
    <3>3. message' = [message EXCEPT !.begun = message.begun \/ message.client = c]
      BY <1>1, <2>1 DEF handleTurnStarted, MessageState
    <3>4. engine'.ch = engine.ch + 1
      BY <1>1, <3>2 DEF EngineState
    <3>5. message'.ch = message.ch
      BY <1>1, <3>3 DEF MessageState
    <3> QED BY <1>1, <3>4, <3>5 DEF Waits
  <2>2. CASE ReadResponse(c) \/ ReadBusy(c) \/ EmitWorking(c) \/ (ReaderEnds(c) /\ UNCHANGED codexRemoteVars)
    BY <1>3, <2>2 DEF ReadResponse, ReadBusy, EmitWorking
  <2>3. CASE handleThreadStarted(c) \/ handleTurnCompleted(c) \/ SetRemoteWorking(c)
    <3>1. /\ message' = message
          /\ \/ engine' = engine \/ engine' = [engine EXCEPT !.thread = c]
             \/ engine' = [engine EXCEPT !.turn = 0]
             \/ engine' = [engine EXCEPT !.working = (reader[c] = "set busy")]
      BY <2>3 DEF handleThreadStarted, handleTurnCompleted, SetRemoteWorking
    <3>2. engine'.ch = engine.ch
      BY <1>1, <3>1 DEF EngineState
    <3> QED BY <1>3, <3>1, <3>2
  <2> QED BY <1>7, <2>1, <2>2, <2>3 DEF ReaderStep
<1>8. CASE UNCHANGED codexRemoteVars
  BY <1>3, <1>8
<1>9. CASE half = "codex remote" /\ CodexRemoteNext
  BY <1>4, <1>5, <1>6, <1>7, <1>8, <1>9 DEF CodexRemoteNext, CodexRemoteStep
<1>10. CASE UNCHANGED vars
  BY <1>8, <1>10 DEF vars
<1>11. CASE Next /\ half # "codex remote"
  BY <1>8, <1>11
  DEF Next, CodexLocalOnly, ClaudeLocalOnly, ClaudeRemoteOnly, AcpOnly, TranscriptOnly
<1> QED BY <1>9, <1>10, <1>11 DEF Next

LEMMA WaitsAlways == Spec => []Waits
<1>1. Init => Waits
  BY DEF Init, CodexRemoteInit, notSending, Waits
<1>2. CodexInv /\ CodexInv' /\ Waits /\ [Next]_vars => Waits'
  BY WaitsKept
<1> QED BY <1>1, <1>2, CodexAlways, PTL DEF Spec

\* A message is not reported as "timed out waiting for turn/started" when the turn
\* was seen to start, also not before the answer to turn/start was.
THEOREM StartNotLost == Spec => NoLostStart
<1>1. CodexInv /\ Waits => (CodexTurnNotBegun => ~message.begun)
  BY EngineType DEF CodexInv, Waits, CodexTurnNotBegun
<1>2. CodexInv /\ Waits /\ [Next]_vars => [CodexTurnNotBegun => ~message.begun]_vars
  BY <1>1
<1> QED BY <1>2, CodexAlways, WaitsAlways, PTL DEF Spec, NoLostStart

----------------------------------------------------------------------------
(* The turns of the Codex app-server. *)

isTurn(m) == m.kind \in {"turn/started", "turn/completed"}

\* The turn of whoever read m and had turn t before.
turnAfter(m, t) == IF m.kind = "turn/started" THEN m.n ELSE IF m.kind = "turn/completed" THEN 0 ELSE t

\* Whoever has read the first i lines of s, and had turn t before, has turn n.
reading(s, i, t, n) ==
  \/ (\A k \in 1..i : ~isTurn(s[k])) /\ n = t
  \/ \E j \in 1..i : /\ isTurn(s[j]) /\ \A k \in (j + 1)..i : ~isTurn(s[k])
                     /\ n = turnAfter(s[j], 0)

\* Who has turn t, and reads the lines of s, has turn n; a turn is completed when it
\* was the one that was begun.
Lined(s, t, n) ==
  /\ reading(s, Len(s), t, n)
  /\ \A i \in DOMAIN s : /\ s[i].kind = "turn/started" => s[i].n # 0
                         /\ s[i].kind = "turn/completed" => reading(s, i - 1, t, s[i].n)

LEMMA LinedEmpty ==
  ASSUME NEW t, NEW n
  PROVE  Lined(<<>>, t, n) <=> n = t
BY DEF Lined, reading

LEMMA LinedAppend ==
  ASSUME NEW s \in Seq(Line), NEW m \in Line, NEW t, NEW n, Lined(s, t, n),
         m.kind = "turn/started" => m.n # 0,
         m.kind = "turn/completed" => m.n = n
  PROVE  Lined(Append(s, m), t, turnAfter(m, n))
<1>1. PICK l : l = Len(s)
  OBVIOUS
<1>2. PICK a : a = Append(s, m)
  OBVIOUS
<1>3. /\ l \in Nat /\ DOMAIN s = 1..l /\ DOMAIN a = 1..(l + 1) /\ Len(a) = l + 1
      /\ \A i \in DOMAIN s : a[i] = s[i]
      /\ a[l + 1] = m
  BY <1>1, <1>2, OneMore
<1>4. ASSUME NEW i \in 0..l, NEW x, reading(s, i, t, x)
      PROVE  reading(a, i, t, x)
  <2>1. \A k \in 1..i : a[k] = s[k]
    BY <1>3
  <2>2. CASE (\A k \in 1..i : ~isTurn(s[k])) /\ x = t
    BY <2>1, <2>2 DEF reading
  <2>3. CASE \E j \in 1..i : /\ isTurn(s[j]) /\ \A k \in (j + 1)..i : ~isTurn(s[k])
                             /\ x = turnAfter(s[j], 0)
    <3>1. PICK j \in 1..i : /\ isTurn(s[j]) /\ \A k \in (j + 1)..i : ~isTurn(s[k])
                            /\ x = turnAfter(s[j], 0)
      BY <2>3
    <3>2. \A k \in (j + 1)..i : k \in 1..i
      BY <1>3
    <3>3. isTurn(a[j]) /\ (\A k \in (j + 1)..i : ~isTurn(a[k])) /\ x = turnAfter(a[j], 0)
      BY <2>1, <3>1, <3>2
    <3> QED BY <3>3 DEF reading
  <2> QED BY <1>4, <2>2, <2>3 DEF reading
<1>5. reading(a, l + 1, t, turnAfter(m, n))
  <2>1. CASE isTurn(m)
    <3>1. l + 1 \in 1..(l + 1) /\ \A k \in (l + 1 + 1)..(l + 1) : FALSE
      BY <1>3
    <3>2. turnAfter(m, n) = turnAfter(m, 0)
      BY <2>1 DEF turnAfter, isTurn
    <3> QED BY <1>3, <2>1, <3>1, <3>2 DEF reading
  <2>2. CASE ~isTurn(m)
    <3>1. turnAfter(m, n) = n
      BY <2>2 DEF turnAfter, isTurn
    <3>2. reading(s, l, t, n)
      BY <1>1 DEF Lined
    <3>3. CASE (\A k \in 1..l : ~isTurn(s[k])) /\ n = t
      <4>1. \A k \in 1..(l + 1) : ~isTurn(a[k])
        BY <1>3, <2>2, <3>3
      <4> QED BY <3>1, <3>3, <4>1 DEF reading
    <3>4. CASE \E j \in 1..l : /\ isTurn(s[j]) /\ \A k \in (j + 1)..l : ~isTurn(s[k])
                               /\ n = turnAfter(s[j], 0)
      <4>1. PICK j \in 1..l : /\ isTurn(s[j]) /\ \A k \in (j + 1)..l : ~isTurn(s[k])
                              /\ n = turnAfter(s[j], 0)
        BY <3>4
      <4>2. j \in 1..(l + 1) /\ a[j] = s[j]
        BY <1>3, <4>1
      <4>3. \A k \in (j + 1)..(l + 1) : ~isTurn(a[k])
        BY <1>3, <2>2, <4>1
      <4> QED BY <3>1, <4>1, <4>2, <4>3 DEF reading
    <3> QED BY <3>2, <3>3, <3>4 DEF reading
  <2> QED BY <2>1, <2>2
<1>6. ASSUME NEW i \in DOMAIN a
      PROVE  /\ a[i].kind = "turn/started" => a[i].n # 0
             /\ a[i].kind = "turn/completed" => reading(a, i - 1, t, a[i].n)
  <2>1. CASE i \in DOMAIN s
    <3>1. i - 1 \in 0..l /\ a[i] = s[i]
      BY <1>3, <2>1
    <3> QED BY <1>4, <2>1, <3>1 DEF Lined
  <2>2. CASE i = l + 1
    <3>1. reading(s, l, t, n)
      BY <1>1 DEF Lined
    <3>2. i - 1 = l /\ l \in 0..l
      BY <1>3, <2>2
    <3>3. reading(a, l, t, n)
      BY <1>4, <3>1, <3>2
    <3> QED BY <1>3, <2>2, <3>2, <3>3
  <2> QED BY <1>3, <2>1, <2>2
<1> QED BY <1>2, <1>3, <1>5, <1>6 DEF Lined

LEMMA LinedTail ==
  ASSUME NEW s \in Seq(Line), s # <<>>, NEW t, NEW n, Lined(s, t, n)
  PROVE  /\ Lined(Tail(s), turnAfter(Head(s), t), n)
         /\ Head(s).kind = "turn/completed" => Head(s).n = t
         /\ Head(s).kind = "turn/started" => Head(s).n # 0
<1>1. PICK l : l = Len(s)
  OBVIOUS
<1>2. PICK a : a = Tail(s)
  OBVIOUS
<1>3. PICK m : m = Head(s)
  OBVIOUS
<1>4. /\ l \in Nat \ {0} /\ DOMAIN s = 1..l /\ DOMAIN a = 1..(l - 1) /\ Len(a) = l - 1
      /\ \A i \in DOMAIN a : i + 1 \in DOMAIN s /\ a[i] = s[i + 1]
      /\ m = s[1]
  BY <1>1, <1>2, <1>3, OneLess
<1>5. ASSUME NEW i \in 1..l, NEW x, reading(s, i, t, x)
      PROVE  reading(a, i - 1, turnAfter(m, t), x)
  <2>1. \A k \in 1..(i - 1) : k + 1 \in 1..i /\ a[k] = s[k + 1]
    BY <1>4
  <2>2. CASE (\A k \in 1..i : ~isTurn(s[k])) /\ x = t
    <3>1. \A k \in 1..(i - 1) : ~isTurn(a[k])
      BY <2>1, <2>2
    <3>2. ~isTurn(m)
      BY <1>4, <2>2
    <3> QED BY <2>2, <3>1, <3>2 DEF reading, turnAfter, isTurn
  <2>3. CASE \E j \in 1..i : /\ isTurn(s[j]) /\ \A k \in (j + 1)..i : ~isTurn(s[k])
                             /\ x = turnAfter(s[j], 0)
    <3>1. PICK j \in 1..i : /\ isTurn(s[j]) /\ \A k \in (j + 1)..i : ~isTurn(s[k])
                            /\ x = turnAfter(s[j], 0)
      BY <2>3
    <3>2. CASE j = 1
      <4>1. \A k \in 1..(i - 1) : k + 1 \in (j + 1)..i
        BY <1>4, <3>2
      <4>2. \A k \in 1..(i - 1) : ~isTurn(a[k])
        BY <2>1, <3>1, <4>1
      <4>3. x = turnAfter(m, t)
        BY <1>4, <3>1, <3>2 DEF turnAfter, isTurn
      <4> QED BY <4>2, <4>3 DEF reading
    <3>3. CASE j # 1
      <4>1. j - 1 \in 1..(i - 1) /\ (j - 1) + 1 = j
        BY <1>4, <3>3
      <4>2. a[j - 1] = s[j]
        BY <2>1, <4>1
      <4>3. \A k \in ((j - 1) + 1)..(i - 1) : k \in 1..(i - 1) /\ k + 1 \in (j + 1)..i
        BY <1>4, <3>3
      <4>4. \A k \in ((j - 1) + 1)..(i - 1) : ~isTurn(a[k])
        BY <2>1, <3>1, <4>3
      <4> QED BY <3>1, <4>1, <4>2, <4>4 DEF reading
    <3> QED BY <3>2, <3>3
  <2> QED BY <1>5, <2>2, <2>3 DEF reading
<1>6. reading(a, l - 1, turnAfter(m, t), n)
  <2>1. reading(s, l, t, n) /\ l \in 1..l
    BY <1>1, <1>4 DEF Lined
  <2> QED BY <1>5, <2>1
<1>7. ASSUME NEW i \in DOMAIN a
      PROVE  /\ a[i].kind = "turn/started" => a[i].n # 0
             /\ a[i].kind = "turn/completed" => reading(a, i - 1, turnAfter(m, t), a[i].n)
  <2>1. i + 1 \in DOMAIN s /\ a[i] = s[i + 1] /\ i \in 1..l /\ (i + 1) - 1 = i
    BY <1>4
  <2>2. /\ s[i + 1].kind = "turn/started" => s[i + 1].n # 0
        /\ s[i + 1].kind = "turn/completed" => reading(s, (i + 1) - 1, t, s[i + 1].n)
    BY <2>1 DEF Lined
  <2> QED BY <1>5, <2>1, <2>2
<1>8. /\ m.kind = "turn/completed" => m.n = t
      /\ m.kind = "turn/started" => m.n # 0
  <2>1. 1 \in DOMAIN s /\ 1 - 1 = 0 /\ 1..0 = {}
    BY <1>4
  <2>2. /\ m.kind = "turn/started" => m.n # 0
        /\ m.kind = "turn/completed" => reading(s, 0, t, m.n)
    BY <1>4, <2>1 DEF Lined
  <2>3. reading(s, 0, t, m.n) => m.n = t
    BY <2>1 DEF reading
  <2> QED BY <2>2, <2>3
<1> QED BY <1>2, <1>3, <1>4, <1>6, <1>7, <1>8 DEF Lined

\* Nobody uses a client that was not made.
Unused ==
  \A d \in Runs : d > started =>
    proc[d] = "none" /\ reader[d] = "none" /\ turn[d] = 0 /\ inbox[d] = <<>> /\ stdin[d] = <<>>

noTurn(s) == \A i \in DOMAIN s : ~isTurn(s[i])
initializes(s) == \A i \in DOMAIN s : s[i].method = "initialize"

\* The client that is being made is asked nothing else, and hears of no turn.
Making(c) ==
  /\ turn[c] = 0 /\ noTurn(inbox[c]) /\ initializes(stdin[c])
  /\ reader[c] \in {"read", "over"}
  /\ calls["runtime"].method = "initialize"

\* The engine and its report are behind the attached client by what its reader has not done.
Attends(c) ==
  /\ proc[c] # "dead" => Lined(inbox[c], engine.turn, turn[c])
  /\ reader[c] = "read" => engine.working = (engine.turn # 0)
  /\ reader[c] \in {"set busy", "emit busy"} => engine.turn # 0
  /\ reader[c] \in {"set idle", "emit idle"} => engine.turn = 0
  /\ reader[c] = "emit busy" => engine.working
  /\ reader[c] = "emit idle" => ~engine.working

\* What was reported last, or is about to be, is what the engine believes.
toTell == IF engine.working THEN "emit busy" ELSE "emit idle"
Reported == told = engine.working \/ at = "emit" \/ \E d \in Runs : reader[d] = toTell

Followed ==
  /\ current = 0 => engine.turn = 0 /\ ~engine.working
  /\ Reported
  /\ \A c \in Runs : c = current => Attends(c)

TurnInv ==
  /\ told \in BOOLEAN /\ Unused
  /\ \A c \in Runs : (at = "initialize" /\ c = started) => Making(c)
  /\ at = "emit" => current = 0
  /\ ~intruded => Followed

LEMMA NoTurnLined ==
  ASSUME NEW s \in Seq(Line), noTurn(s), NEW t
  PROVE  Lined(s, t, t)
<1>1. DOMAIN s = 1..Len(s) /\ Len(s) \in Nat
  OBVIOUS
<1>2. reading(s, Len(s), t, t)
  BY <1>1 DEF reading, noTurn
<1> QED BY <1>2 DEF Lined, noTurn, isTurn

LEMMA NoTurnTail ==
  ASSUME NEW s \in Seq(Line), s # <<>>, noTurn(s)
  PROVE  noTurn(Tail(s)) /\ ~isTurn(Head(s))
<1>1. /\ Head(s) = s[1] /\ 1 \in DOMAIN s
      /\ \A i \in DOMAIN Tail(s) : i + 1 \in DOMAIN s /\ Tail(s)[i] = s[i + 1]
  BY OneLess
<1> QED BY <1>1 DEF noTurn

LEMMA NoTurnAppend ==
  ASSUME NEW s \in Seq(Line), noTurn(s), NEW m \in Line, ~isTurn(m)
  PROVE  noTurn(Append(s, m))
<1>1. /\ DOMAIN s = 1..Len(s) /\ DOMAIN Append(s, m) = 1..(Len(s) + 1) /\ Len(s) \in Nat
      /\ \A i \in DOMAIN s : Append(s, m)[i] = s[i]
      /\ Append(s, m)[Len(s) + 1] = m
  BY OneMore
<1> QED BY <1>1 DEF noTurn

LEMMA InitializesTail ==
  ASSUME NEW s \in Seq(Request), s # <<>>, initializes(s)
  PROVE  initializes(Tail(s)) /\ Head(s).method = "initialize"
<1>1. /\ Head(s) = s[1] /\ 1 \in DOMAIN s
      /\ \A i \in DOMAIN Tail(s) : i + 1 \in DOMAIN s /\ Tail(s)[i] = s[i + 1]
  BY OneLess
<1> QED BY <1>1 DEF initializes

LEMMA InitializesAppend ==
  ASSUME NEW s \in Seq(Request), initializes(s), NEW q \in Request, q.method = "initialize"
  PROVE  initializes(Append(s, q))
<1>1. /\ DOMAIN s = 1..Len(s) /\ DOMAIN Append(s, q) = 1..(Len(s) + 1) /\ Len(s) \in Nat
      /\ \A i \in DOMAIN s : Append(s, q)[i] = s[i]
      /\ Append(s, q)[Len(s) + 1] = q
  BY OneMore
<1> QED BY <1>1 DEF initializes

LEMMA TurnTypes ==
  ASSUME CodexTyped, ofCodexRemote
  PROVE  /\ started \in Nat /\ current \in Nat /\ started <= MaxRuns
         /\ proc \in [Runs -> {"none", "up", "killed", "dead"}]
         /\ inbox \in [Runs -> Seq(Line)] /\ reader \in [Runs -> Readers] /\ turn \in [Runs -> Nat]
         /\ stdin \in [Runs -> Seq(Request)]
         /\ engine \in EngineState /\ engine.turn \in Nat /\ engine.working \in BOOLEAN
         /\ \A d \in Runs : d \in Nat \ {0}
BY RunsTyped, EngineType, CodexTypes, Bounds DEF CodexTyped

\* The engine believes and reports what it did.
LEMMA FollowedKept ==
  ASSUME Followed, UNCHANGED <<told, current>>,
         engine'.turn = engine.turn, engine'.working = engine.working,
         at = "emit" => at' = "emit",
         \A d \in Runs : reader[d] \in {"emit busy", "emit idle"} => reader'[d] = reader[d],
         \A c \in Runs : (c = current /\ Attends(c)) => Attends(c)'
  PROVE  Followed'
<1>1. Reported'
  <2>1. toTell' = toTell /\ toTell \in {"emit busy", "emit idle"}
    BY DEF toTell
  <2> QED BY <2>1 DEF Followed, Reported
<1>2. \A c \in Runs : c = current' => Attends(c)'
  BY DEF Followed
<1> QED BY <1>1, <1>2 DEF Followed

\* A step that says nothing of turns, other than the start of a client.
LEMMA NothingSaid ==
  ASSUME CodexTyped, ofCodexRemote, TurnInv,
         started' \in {started, started + 1},
         UNCHANGED <<reader, turn, inbox, stdin, told, current>>,
         \A d \in Runs : (proc'[d] = "none" <=> proc[d] = "none") /\ (proc'[d] = "dead" <=> proc[d] = "dead"),
         engine'.turn = engine.turn, engine'.working = engine.working,
         at' \notin {"initialize", "emit"}, at # "emit",
         intruded' = intruded
  PROVE  TurnInv'
<1>1. Unused'
  <2>1. \A d \in Runs : d > started' => d > started
    BY TurnTypes
  <2> QED BY <2>1 DEF TurnInv, Unused
<1>2. ASSUME Followed
      PROVE  Followed'
  <2>1. \A c \in Runs : Attends(c) => Attends(c)'
    BY DEF Attends
  <2> QED BY <1>2, <2>1, FollowedKept
<1> QED BY <1>1, <1>2 DEF TurnInv

LEMMA RuntimeTurn ==
  ASSUME CodexTyped, ofCodexRemote, TurnInv, Initializing,
         RuntimeStep \/ CodexStartRemote \/ CodexStopRemote \/ CodexAbort
  PROVE  TurnInv'
<1> USE DEF keepClient, reportVars, runtimeVars, phoneVars, clientVars, codexRemoteVars, GoTo
<1>1. /\ Unused /\ told \in BOOLEAN
      /\ proc \in [Runs -> {"none", "up", "killed", "dead"}] /\ engine \in EngineState
  BY TurnTypes DEF TurnInv
<1>2. CASE CodexStartRemote
  <2>1. /\ started' = started + 1 /\ started < MaxRuns /\ at = "rest"
        /\ engine' = [engine EXCEPT !.enabled = TRUE]
        /\ UNCHANGED <<turn, inbox, stdin, told, current, intruded>>
    BY <1>2 DEF CodexStartRemote, Started
  <2>2. engine'.turn = engine.turn /\ engine'.working = engine.working
    BY <1>1, <2>1 DEF EngineState
  <2>3. CASE UNCHANGED <<proc, reader>> /\ at' \in {"thread", "not spawned"}
    BY <2>1, <2>2, <2>3, NothingSaid
  <2>4. CASE /\ current = 0 /\ at' = "initialize" /\ BeginCall("runtime", started', "initialize")
             /\ proc' = [proc EXCEPT ![started'] = "up"]
             /\ reader' = [reader EXCEPT ![started'] = "read"]
    <3>1. PICK s \in Runs : s = started'
      BY <2>1, RunsTyped
    <3>2. /\ \A d \in Runs : proc'[d] = IF d = s THEN "up" ELSE proc[d]
          /\ \A d \in Runs : reader'[d] = IF d = s THEN "read" ELSE reader[d]
      BY <2>4, <3>1, TurnTypes
    <3>3. s > started /\ s # 0 /\ \A d \in Runs : d > s => d > started /\ d # s
      BY <2>1, <3>1, TurnTypes
    <3>4. reader[s] = "none" /\ turn[s] = 0 /\ inbox[s] = <<>> /\ stdin[s] = <<>>
      BY <1>1, <3>3 DEF Unused
    <3>5. Unused'
      BY <1>1, <2>1, <3>1, <3>2, <3>3 DEF Unused
    <3>6. Making(s)'
      <4>1. calls'["runtime"].method = "initialize"
        <5>1. s \in 0..MaxRuns
          BY <3>1, Bounds DEF Runs
        <5>2. BeginCall("runtime", s, "initialize")
          BY <2>4, <3>1
        <5> QED BY <5>1, <5>2, CallBegun, CallersAre, MethodsAre
      <4>2. noTurn(<<>>) /\ initializes(<<>>)
        BY DEF noTurn, initializes
      <4>3. turn'[s] = 0 /\ inbox'[s] = <<>> /\ stdin'[s] = <<>> /\ reader'[s] = "read"
        BY <2>1, <3>2, <3>4
      <4> QED BY <4>1, <4>2, <4>3 DEF Making
    <3>7. ASSUME Followed
          PROVE  Followed'
      <4>1. \A d \in Runs : reader[d] \in {"emit busy", "emit idle"} => reader'[d] = reader[d]
        BY <3>2, <3>4
      <4>2. \A d \in Runs : d # current
        BY <2>4, TurnTypes
      <4> QED BY <2>1, <2>2, <2>4, <3>7, <4>1, <4>2, FollowedKept
    <3> QED BY <1>1, <2>1, <2>4, <3>1, <3>5, <3>6, <3>7 DEF TurnInv
  <2> QED BY <1>2, <2>3, <2>4 DEF CodexStartRemote
<1>3. CASE CodexRemoteNotSpawned \/ CodexRemoteReady \/ CodexAborted \/ CodexAbort \/ CodexOpensAgain
  <2>1. /\ UNCHANGED <<started, proc, reader, turn, inbox, stdin, current, engine, told, intruded>>
        /\ at # "emit" /\ at' \notin {"initialize", "emit"}
    BY <1>3
    DEF CodexRemoteNotSpawned, CodexRemoteReady, CodexAborted, CodexAbort, CodexOpensAgain, Failed, EvReady,
        PressStop
  <2> QED BY <2>1, NothingSaid
<1>4. CASE CodexInitialized
  <2>1. /\ at = "initialize" /\ at' = "thread" /\ current' = started
        /\ UNCHANGED <<started, proc, reader, turn, inbox, stdin, engine, told, intruded>>
    BY <1>4 DEF CodexInitialized
  <2>2. started \in Runs /\ current = 0
    BY <2>1, RunsTyped DEF Initializing
  <2>3. Making(started)
    BY <2>1, <2>2 DEF TurnInv
  <2>4. ASSUME Followed
        PROVE  Followed'
    <3>1. engine.turn = 0 /\ ~engine.working
      BY <2>2, <2>4 DEF Followed
    <3>2. Lined(inbox[started], engine.turn, turn[started])
      <4>1. inbox[started] \in Seq(Line) /\ noTurn(inbox[started]) /\ turn[started] = 0
        BY <2>2, <2>3, CodexTypes DEF Making
      <4>2. Lined(inbox[started], 0, 0)
        BY <4>1, NoTurnLined
      <4> QED BY <3>1, <4>1, <4>2
    <3>3. engine.working = (engine.turn # 0)
      BY <3>1, TurnTypes
    <3>4. Attends(started)
      BY <2>3, <3>2, <3>3 DEF Attends, Making
    <3>5. \A c \in Runs : c = current' => Attends(c)'
      BY <2>1, <3>4 DEF Attends
    <3>6. Reported'
      BY <2>1, <2>4 DEF Followed, Reported, toTell
    <3> QED BY <2>1, <3>1, <3>5, <3>6 DEF Followed
  <2>5. Unused'
    BY <1>1, <2>1 DEF Unused
  <2> QED BY <1>1, <2>1, <2>4, <2>5 DEF TurnInv
<1>5. CASE CodexNotInitialized
  <2>1. \A d \in Runs : proc'[d] = IF d = started /\ proc[d] = "up" THEN "killed" ELSE proc[d]
    BY <1>1, <1>5, RunsTyped, KilledIs DEF CodexNotInitialized
  <2>2. /\ UNCHANGED <<started, reader, turn, inbox, stdin, current, engine, told, intruded>>
        /\ at = "initialize" /\ at' = "rest"
    BY <1>5 DEF CodexNotInitialized, Failed
  <2> QED BY <2>1, <2>2, NothingSaid
<1>6. CASE CodexOpensThread
  <2>1. /\ UNCHANGED <<started, proc, reader, turn, inbox, stdin, current, told, intruded>>
        /\ at = "thread" /\ at' \in {"rest", "ready"}
    BY <1>6 DEF CodexOpensThread, Failed
  <2>2. engine' = engine \/ engine' = [engine EXCEPT !.thread = calls["runtime"].client]
    BY <1>6 DEF CodexOpensThread
  <2>3. engine'.turn = engine.turn /\ engine'.working = engine.working
    BY <1>1, <2>2 DEF EngineState
  <2> QED BY <2>1, <2>3, NothingSaid
<1>7. CASE CodexStopRemote
  <2>1. /\ at = "rest" /\ at' = IF engine.working THEN "emit" ELSE "close"
        /\ current' = 0
        /\ engine'.turn = 0 /\ engine'.working = FALSE
        /\ UNCHANGED <<started, proc, reader, turn, inbox, stdin, told, intruded>>
    BY <1>7 DEF CodexStopRemote
  <2>2. ASSUME Followed
        PROVE  Followed'
    <3>1. \A c \in Runs : c # current'
      BY <2>1, TurnTypes
    <3>2. Reported'
      <4>1. CASE engine.working
        BY <2>1, <4>1 DEF Reported
      <4>2. CASE ~engine.working
        <5>1. engine.working = FALSE /\ toTell = "emit idle" /\ toTell' = "emit idle" /\ at # "emit"
          BY <1>1, <2>1, <4>2, TurnTypes DEF toTell
        <5>2. told = FALSE \/ \E d \in Runs : reader[d] = "emit idle"
          BY <2>2, <5>1 DEF Followed, Reported
        <5> QED BY <2>1, <5>1, <5>2 DEF Reported
      <4> QED BY <4>1, <4>2
    <3> QED BY <2>1, <3>1, <3>2 DEF Followed
  <2>3. Unused'
    BY <1>1, <2>1 DEF Unused
  <2> QED BY <1>1, <2>1, <2>2, <2>3 DEF TurnInv
<1>8. CASE CodexStopEmits
  <2>1. /\ UNCHANGED <<started, proc, reader, turn, inbox, stdin, current, engine, intruded>>
        /\ at = "emit" /\ at' = "close" /\ told' = FALSE
    BY <1>8 DEF CodexStopEmits, EvWorking
  <2>2. current = 0
    BY <2>1 DEF TurnInv
  <2>3. ASSUME Followed
        PROVE  Followed'
    <3>1. engine.working = FALSE
      BY <2>2, <2>3, TurnTypes DEF Followed
    <3>2. Reported'
      BY <2>1, <3>1 DEF Reported
    <3>3. \A c \in Runs : c # current
      BY <2>2, TurnTypes
    <3> QED BY <2>1, <2>3, <3>2, <3>3 DEF Followed
  <2>4. Unused'
    BY <1>1, <2>1 DEF Unused
  <2> QED BY <2>1, <2>3, <2>4 DEF TurnInv
<1>9. CASE CodexStopCloses
  <2>1. /\ UNCHANGED <<started, reader, turn, inbox, stdin, current, engine, told, intruded>>
        /\ at = "close" /\ at' = "rest"
    BY <1>9 DEF CodexStopCloses
  <2>2. \A d \in Runs : (proc'[d] = "none" <=> proc[d] = "none") /\ (proc'[d] = "dead" <=> proc[d] = "dead")
    <3>1. CASE handle # 0 /\ Close(handle)
      <4>1. handle \in Runs
        BY <3>1, RunsTyped
      <4> QED BY <1>1, <3>1, <4>1, CloseIs
    <3>2. CASE UNCHANGED <<closed, pending, calls, proc>>
      BY <3>2
    <3> QED BY <1>9, <3>1, <3>2 DEF CodexStopCloses
  <2> QED BY <2>1, <2>2, NothingSaid
<1> QED BY <1>2, <1>3, <1>4, <1>5, <1>6, <1>7, <1>8, <1>9 DEF RuntimeStep

\* A call puts at most a request on its client's stream, and stays the call it is.
LEMMA CallKeeps ==
  ASSUME CodexTyped, NEW who \in Callers, CallStep(who)
  PROVE  /\ \A w \in Callers : calls'[w].method = calls[w].method
         /\ \/ UNCHANGED stdin
            \/ \E q \in Request : /\ q.method = calls[who].method /\ calls[who].pc = "send"
                                  /\ stdin' = [stdin EXCEPT ![calls[who].client] = Append(@, q)]
<1>1. calls[who].id \in Nat /\ calls[who].method \in Methods
  BY CallType
<1>2. ASSUME calls' = returns(who, "error")
      PROVE  \A w \in Callers : calls'[w].method = calls[w].method
  BY <1>2, CallReturned
<1>3. CASE Register(who)
  <2>1. PICK n : n = nextID'[calls[who].client]
    OBVIOUS
  <2>2. CASE calls' = [calls EXCEPT ![who].pc = "send", ![who].id = n]
    <3>1. calls' = [calls EXCEPT ![who] = [calls[who] EXCEPT !.pc = "send", !.id = n]]
      BY <2>2 DEF CodexTyped
    <3>2. \A w \in Callers : calls'[w].method = calls[w].method
      BY <3>1, CallType DEF CodexTyped, Call
    <3> QED BY <1>3, <3>2 DEF Register
  <2> QED BY <1>2, <1>3, <2>1, <2>2 DEF Register
<1>4. CASE SendRequest(who)
  <2>1. CASE calls' = [calls EXCEPT ![who].pc = "await"]
    <3>1. \A w \in Callers : calls'[w].method = calls[w].method
      BY <2>1, CallSent
    <3>2. PICK q : q = [id |-> calls[who].id, method |-> calls[who].method]
      OBVIOUS
    <3>3. q \in Request /\ q.method = calls[who].method
      BY <1>1, <3>2 DEF Request
    <3>4. UNCHANGED stdin \/ stdin' = [stdin EXCEPT ![calls[who].client] = Append(@, q)]
      BY <1>4, <3>2 DEF SendRequest
    <3>5. calls[who].pc = "send"
      BY <1>4 DEF SendRequest
    <3> QED BY <3>1, <3>3, <3>4, <3>5
  <2>2. CASE calls' = returns(who, "error") /\ UNCHANGED stdin
    BY <1>2, <2>2
  <2> QED BY <1>4, <2>1, <2>2 DEF SendRequest
<1>5. CASE CallTimesOut(who)
  BY <1>2, <1>5 DEF CallTimesOut
<1> QED BY <1>3, <1>4, <1>5 DEF CallStep

LEMMA SenderTurn ==
  ASSUME CodexTyped, ofCodexRemote, TurnInv, CallsInv,
         \/ CodexSend \/ CodexStartsTurn \/ CodexTurnAccepted \/ CodexStartsAgain
         \/ CodexTurnBegun \/ CodexTurnNotBegun
         \/ \E who \in Callers : CallStep(who)
  PROVE  TurnInv'
<1>1. UNCHANGED <<started, proc, reader, turn, inbox, current, at, engine, told, intruded>>
  BY DEF CodexSend, CodexStartsTurn, CodexTurnAccepted, CodexStartsAgain, CodexTurnBegun, CodexTurnNotBegun,
         CallStep, Register, SendRequest, CallTimesOut, keepClient, eventVars, reportVars, runtimeVars,
         phoneVars, clientVars, codexRemoteVars
<1>2. Followed => Followed'
  BY ZenonT(60), <1>1 DEF Followed, Attends, Reported, toTell
<1>3. ASSUME calls'["runtime"].method = calls["runtime"].method,
             \A d \in Runs : /\ d > started => stdin'[d] = stdin[d]
                             /\ (at = "initialize" /\ d = started /\ Making(d)) => initializes(stdin'[d])
      PROVE  TurnInv'
  <2>1. Unused'
    BY <1>1, <1>3 DEF TurnInv, Unused
  <2>2. \A c \in Runs : (at' = "initialize" /\ c = started') => Making(c)'
    BY <1>1, <1>3 DEF TurnInv, Making
  <2> QED BY <1>1, <1>2, <2>1, <2>2 DEF TurnInv
<1>4. CASE \/ CodexSend \/ CodexStartsTurn \/ CodexTurnAccepted \/ CodexStartsAgain
           \/ CodexTurnBegun \/ CodexTurnNotBegun
  <2>1. UNCHANGED stdin
    BY <1>4
    DEF CodexSend, CodexStartsTurn, CodexTurnAccepted, CodexStartsAgain, CodexTurnBegun, CodexTurnNotBegun,
        keepClient, eventVars, clientVars
  <2>2. calls'["runtime"] = calls["runtime"]
    BY <1>4
    DEF CodexSend, CodexStartsTurn, CodexTurnAccepted, CodexStartsAgain, CodexTurnBegun, CodexTurnNotBegun,
        clientVars, BeginCall, CodexTyped, Callers
  <2> QED BY <1>3, <2>1, <2>2 DEF Making
<1>5. ASSUME NEW who \in Callers, CallStep(who)
      PROVE  TurnInv'
  <2>1. calls'["runtime"].method = calls["runtime"].method
    BY <1>5, CallKeeps, CallersAre
  <2>2. CASE UNCHANGED stdin
    BY <1>3, <2>1, <2>2 DEF Making
  <2>3. CASE \E q \in Request : /\ q.method = calls[who].method /\ calls[who].pc = "send"
                                /\ stdin' = [stdin EXCEPT ![calls[who].client] = Append(@, q)]
    <3>1. PICK q \in Request : /\ q.method = calls[who].method /\ calls[who].pc = "send"
                               /\ stdin' = [stdin EXCEPT ![calls[who].client] = Append(@, q)]
      BY <2>3
    <3>2. PICK c : c = calls[who].client
      OBVIOUS
    <3>3. c \in Runs /\ c \in Nat /\ c <= started
      BY <3>1, <3>2, CallType DEF CallsInv, CallOK, Addressed
    <3>4. \A d \in Runs : stdin'[d] = IF d = c THEN Append(stdin[d], q) ELSE stdin[d]
      BY <3>1, <3>2, <3>3, TurnTypes
    <3>5. \A d \in Runs : d > started => stdin'[d] = stdin[d]
      BY <3>3, <3>4, TurnTypes
    <3>6. ASSUME NEW d \in Runs, at = "initialize", d = started, Making(d)
          PROVE  initializes(stdin'[d])
      <4>1. CASE d # c
        BY <3>4, <3>6, <4>1 DEF Making
      <4>2. CASE d = c
        <5>1. who = "runtime"
          BY <3>2, <3>3, <3>6, <4>2, CallersAre, TurnTypes DEF CallsInv, Initializing
        <5>2. q.method = "initialize"
          BY <3>1, <3>6, <5>1 DEF Making
        <5>3. initializes(Append(stdin[d], q))
          BY <3>6, <5>2, CodexTypes, InitializesAppend DEF Making
        <5> QED BY <3>4, <4>2, <5>3
      <4> QED BY <4>1, <4>2
    <3> QED BY <1>3, <2>1, <3>5, <3>6
  <2> QED BY <1>5, <2>2, <2>3, CallKeeps
<1> QED BY <1>4, <1>5

\* What one client does, or its app-server.
LEMMA OneClientTurn ==
  ASSUME CodexTyped, ofCodexRemote, TurnInv, NEW c \in Runs, c <= started,
         UNCHANGED <<started, current, at>>,
         \A d \in Runs \ {c} : /\ proc'[d] = proc[d] /\ reader'[d] = reader[d] /\ turn'[d] = turn[d]
                               /\ inbox'[d] = inbox[d] /\ stdin'[d] = stdin[d],
         calls'["runtime"].method = calls["runtime"].method,
         Making(c) => Making(c)',
         told' \in BOOLEAN,
         ~intruded' => ~intruded,
         (Followed /\ ~intruded') => Followed'
  PROVE  TurnInv'
<1>1. \A d \in Runs : d > started => d # c
  BY TurnTypes
<1>2. Unused'
  BY <1>1 DEF TurnInv, Unused
<1>3. ASSUME NEW d \in Runs, at' = "initialize", d = started'
      PROVE  Making(d)'
  <2>1. Making(d)
    BY <1>3 DEF TurnInv
  <2>2. CASE d # c
    BY <2>1, <2>2 DEF Making
  <2> QED BY <2>1, <2>2
<1> QED BY <1>2, <1>3 DEF TurnInv

\* What the reader takes from its client's stream.
LEMMA Taken ==
  ASSUME CodexTyped, ofCodexRemote, TurnInv, NEW c \in Runs, NEW kind, next(c, kind), take(c)
  PROVE  /\ c <= started /\ reader[c] = "read"
         /\ inbox'[c] = Tail(inbox[c]) /\ \A d \in Runs \ {c} : inbox'[d] = inbox[d]
         /\ Head(inbox[c]).kind = kind /\ Head(inbox[c]).n \in Nat
         /\ Making(c) => noTurn(inbox'[c]) /\ kind \notin {"turn/started", "turn/completed"}
         /\ (Attends(c) /\ proc[c] # "dead") =>
              /\ Lined(inbox'[c], turnAfter(Head(inbox[c]), engine.turn), turn[c])
              /\ kind = "turn/completed" => Head(inbox[c]).n = engine.turn
              /\ kind = "turn/started" => Head(inbox[c]).n # 0
<1>1. reader[c] = "read" /\ inbox[c] # <<>> /\ Head(inbox[c]).kind = kind
  BY DEF next
<1>2. inbox[c] \in Seq(Line) /\ Head(inbox[c]) \in Line
  BY <1>1, CodexTypes, OneLess
<1>3. Head(inbox[c]).n \in Nat
  BY <1>2, LineType
<1>4. inbox'[c] = Tail(inbox[c]) /\ \A d \in Runs \ {c} : inbox'[d] = inbox[d]
  BY TurnTypes DEF take
<1>5. c <= started
  BY <1>1, TurnTypes DEF TurnInv, Unused
<1>6. ASSUME Making(c)
      PROVE  noTurn(Tail(inbox[c])) /\ kind \notin {"turn/started", "turn/completed"}
  BY <1>1, <1>2, <1>6, NoTurnTail DEF Making, isTurn
<1>7. ASSUME Attends(c), proc[c] # "dead"
      PROVE  /\ Lined(Tail(inbox[c]), turnAfter(Head(inbox[c]), engine.turn), turn[c])
             /\ kind = "turn/completed" => Head(inbox[c]).n = engine.turn
             /\ kind = "turn/started" => Head(inbox[c]).n # 0
  <2>1. Lined(inbox[c], engine.turn, turn[c])
    BY <1>7 DEF Attends
  <2> QED BY <1>1, <1>2, <2>1, LinedTail
<1> QED BY <1>1, <1>3, <1>4, <1>5, <1>6, <1>7

LEMMA ReaderTurn ==
  ASSUME CodexTyped, ofCodexRemote, TurnInv, NEW c \in Runs, ReaderStep(c)
  PROVE  TurnInv'
<1> USE DEF keepClient, eventVars, reportVars, runtimeVars, phoneVars, clientVars, codexRemoteVars
<1>1. /\ told \in BOOLEAN /\ engine \in EngineState /\ engine.turn \in Nat /\ engine.working \in BOOLEAN
      /\ reader \in [Runs -> Readers]
  BY TurnTypes DEF TurnInv
<1>2. reader[c] # "none" => c <= started
  BY TurnTypes DEF TurnInv, Unused
<1>3. ASSUME NEW pc, goOn(c, pc)
      PROVE  reader'[c] = pc /\ \A d \in Runs \ {c} : reader'[d] = reader[d]
  BY <1>1, <1>3 DEF goOn
<1>4. CASE ReadResponse(c) \/ handleThreadStarted(c)
  <2>1. PICK kind \in {"response", "thread/started"} : next(c, kind) /\ take(c)
    BY <1>4 DEF ReadResponse, handleThreadStarted
  <2>2. UNCHANGED <<reader, turn, stdin, proc, started, current, at, told, intruded>>
    BY <1>4 DEF ReadResponse, handleThreadStarted
  <2>3. engine'.turn = engine.turn /\ engine'.working = engine.working
    <3>1. engine' = engine \/ engine' = [engine EXCEPT !.thread = c]
      BY <1>4 DEF ReadResponse, handleThreadStarted
    <3> QED BY <1>1, <3>1 DEF EngineState
  <2>4. calls'["runtime"].method = calls["runtime"].method
    <3>1. CASE ReadResponse(c)
      <4>1. PICK m \in Line : m = Head(inbox[c])
        BY <3>1, CodexTypes, OneLess DEF ReadResponse, next
      <4>2. PICK a : a = pending[c] \cap {m.n}
        OBVIOUS
      <4>3. calls' = answered(c, a, m.got) /\ m.got \in Gots
        BY <3>1, <4>1, <4>2, LineType DEF ReadResponse, DispatchResponse
      <4>4. "runtime" \in Callers
        BY CallersAre
      <4> QED BY <4>3, <4>4, CallsAnswered
    <3>2. CASE handleThreadStarted(c)
      BY <3>2 DEF handleThreadStarted
    <3> QED BY <1>4, <3>1, <3>2
  <2>5. Making(c) => Making(c)'
    BY <2>1, <2>2, <2>4, Taken DEF Making
  <2>6. ASSUME Followed
        PROVE  Followed'
    <3>1. turnAfter(Head(inbox[c]), engine.turn) = engine.turn
      BY <2>1, Taken DEF turnAfter
    <3>2. Attends(c) => Attends(c)'
      <4>1. UNCHANGED <<proc, turn>> /\ reader'[c] = reader[c]
        BY <2>2
      <4>2. Attends(c) /\ proc[c] # "dead" => Lined(inbox'[c], engine.turn, turn[c])
        BY <2>1, <3>1, Taken
      <4>3. Attends(c) /\ proc'[c] # "dead" => Lined(inbox[c], engine.turn, turn[c])'
        BY <2>3, <4>1, <4>2
      <4> QED BY <2>3, <4>1, <4>3 DEF Attends
    <3>3. \A d \in Runs \ {c} : Attends(d) => Attends(d)'
      BY <2>1, <2>2, <2>3, Taken DEF Attends
    <3> QED BY <2>2, <2>3, <2>6, <3>2, <3>3, FollowedKept
  <2>7. c <= started /\ \A d \in Runs \ {c} : inbox'[d] = inbox[d]
    BY <2>1, Taken
  <2> QED BY <1>1, <2>2, <2>4, <2>5, <2>6, <2>7, OneClientTurn
<1>5. CASE handleTurnStarted(c)
  <2>1. /\ next(c, "turn/started") /\ take(c) /\ goOn(c, "update")
        /\ UNCHANGED <<turn, stdin, proc, started, current, at, told, calls>>
        /\ ~intruded' => ~intruded /\ c = current
    BY <1>5 DEF handleTurnStarted, intrudes
  <2>2. PICK n \in Nat : n = Head(inbox[c]).n
    BY <2>1, Taken
  <2>3. engine'.turn = n /\ engine'.working = engine.working
    <3>1. PICK ch : ch = engine.ch + 1
      OBVIOUS
    <3>2. engine' = [engine EXCEPT !.turn = n, !.ch = ch]
      BY <1>1, <1>5, <2>2, <3>1 DEF handleTurnStarted, EngineState
    <3> QED BY <1>1, <3>2 DEF EngineState
  <2>4. reader'[c] = "update" /\ reader[c] = "read" /\ \A d \in Runs \ {c} : reader'[d] = reader[d]
    BY <1>3, <2>1, Taken
  <2>5. ~Making(c)
    BY <2>1, Taken
  <2>6. ASSUME Followed, ~intruded'
        PROVE  Followed'
    <3>1. c = current /\ c = current' /\ current' # 0 /\ Attends(c)
      BY <2>1, <2>6, TurnTypes DEF Followed
    <3>2. turnAfter(Head(inbox[c]), engine.turn) = n
      BY <2>1, <2>2, Taken DEF turnAfter
    <3>3. proc[c] # "dead" => Lined(inbox'[c], n, turn[c])
      BY <2>1, <3>1, <3>2, Taken
    <3>4. Attends(c)'
      BY <2>1, <2>3, <2>4, <3>3 DEF Attends
    <3>5. Reported'
      <4>1. toTell' = toTell /\ toTell # "read"
        BY <2>3 DEF toTell
      <4>2. \A d \in Runs : reader[d] = toTell => reader'[d] = toTell
        BY <2>4, <4>1
      <4> QED BY <2>1, <2>3, <2>6, <4>1, <4>2 DEF Followed, Reported
    <3> QED BY <3>1, <3>4, <3>5 DEF Followed
  <2>7. c <= started /\ \A d \in Runs \ {c} : inbox'[d] = inbox[d]
    BY <2>1, Taken
  <2> QED BY <1>1, <2>1, <2>4, <2>5, <2>6, <2>7, OneClientTurn
<1>6. CASE handleTurnCompleted(c)
  <2>1. /\ next(c, "turn/completed") /\ take(c)
        /\ UNCHANGED <<turn, stdin, proc, started, current, at, told, calls>>
    BY <1>6 DEF handleTurnCompleted
  <2>2. \/ /\ engine' = [engine EXCEPT !.turn = 0] /\ goOn(c, "update")
           /\ ~intruded' => ~intruded /\ c = current
        \/ /\ engine.turn # Head(inbox[c]).n
           /\ UNCHANGED <<engine, reader, intruded>>
    BY <1>6 DEF handleTurnCompleted, thenUpdates, intrudes
  <2>3. reader[c] = "read" /\ \A d \in Runs \ {c} : reader'[d] = reader[d]
    BY <1>3, <2>1, <2>2, Taken
  <2>4. ~Making(c)
    BY <2>1, Taken
  <2>5. ASSUME Followed, ~intruded', engine' = [engine EXCEPT !.turn = 0], goOn(c, "update"), c = current
        PROVE  Followed'
    <3>1. engine'.turn = 0 /\ engine'.working = engine.working /\ reader'[c] = "update"
      BY <1>1, <1>3, <2>5 DEF EngineState
    <3>2. c = current' /\ current' # 0 /\ Attends(c)
      BY <2>1, <2>5, TurnTypes DEF Followed
    <3>3. turnAfter(Head(inbox[c]), engine.turn) = 0
      BY <2>1, Taken DEF turnAfter
    <3>4. proc[c] # "dead" => Lined(inbox'[c], 0, turn[c])
      BY <2>1, <3>2, <3>3, Taken
    <3>5. Attends(c)'
      BY <2>1, <3>1, <3>4 DEF Attends
    <3>6. Reported'
      <4>1. toTell' = toTell /\ toTell # "read"
        BY <3>1 DEF toTell
      <4>2. \A d \in Runs : reader[d] = toTell => reader'[d] = toTell
        BY <2>3, <4>1
      <4> QED BY <2>1, <2>5, <3>1, <4>1, <4>2 DEF Followed, Reported
    <3> QED BY <3>2, <3>5, <3>6 DEF Followed
  <2>6. ASSUME Followed, engine.turn # Head(inbox[c]).n, UNCHANGED <<engine, reader, intruded>>
        PROVE  Followed'
    <3>1. Attends(c) => Attends(c)'
      BY <2>1, <2>6, Taken DEF Attends
    <3>2. \A d \in Runs \ {c} : Attends(d) => Attends(d)'
      BY <2>1, <2>6, Taken DEF Attends
    <3> QED BY <2>1, <2>6, <3>1, <3>2, FollowedKept
  <2>7. c <= started /\ \A d \in Runs \ {c} : inbox'[d] = inbox[d]
    BY <2>1, Taken
  <2> QED BY <1>1, <2>1, <2>2, <2>3, <2>4, <2>5, <2>6, <2>7, OneClientTurn
<1>7. CASE ReadBusy(c)
  <2>1. /\ reader[c] = "update" /\ goOn(c, IF engine.turn # 0 THEN "set busy" ELSE "set idle")
        /\ UNCHANGED <<inbox, stdin, turn, proc, calls, started, current, at, told, engine, intruded>>
    BY <1>7 DEF ReadBusy
  <2>2. /\ reader'[c] = IF engine.turn # 0 THEN "set busy" ELSE "set idle"
        /\ \A d \in Runs \ {c} : reader'[d] = reader[d]
    BY <1>3, <2>1
  <2>3. ~Making(c)
    BY <2>1 DEF Making
  <2>4. ASSUME Followed
        PROVE  Followed'
    <3>1. \A d \in Runs : Attends(d) => Attends(d)'
      BY <2>1, <2>2 DEF Attends
    <3>2. \A d \in Runs : reader[d] \in {"emit busy", "emit idle"} => reader'[d] = reader[d]
      BY <2>1, <2>2
    <3> QED BY <2>1, <2>4, <3>1, <3>2, FollowedKept
  <2> QED BY <1>1, <1>2, <2>1, <2>2, <2>3, <2>4, OneClientTurn
<1>8. CASE SetRemoteWorking(c)
  <2>1. PICK busy \in BOOLEAN : busy = (reader[c] = "set busy")
    OBVIOUS
  <2>2. /\ reader[c] \in {"set busy", "set idle"}
        /\ engine' = [engine EXCEPT !.working = busy]
        /\ goOn(c, IF engine.working = busy THEN "read" ELSE IF busy THEN "emit busy" ELSE "emit idle")
        /\ UNCHANGED <<inbox, stdin, turn, proc, calls, started, current, at, told>>
        /\ ~intruded' => ~intruded /\ (c = current \/ busy = (engine.turn # 0))
    BY <1>8, <2>1 DEF SetRemoteWorking, intrudes
  <2>3. /\ reader'[c] = IF engine.working = busy THEN "read" ELSE IF busy THEN "emit busy" ELSE "emit idle"
        /\ \A d \in Runs \ {c} : reader'[d] = reader[d]
    BY <1>3, <2>2
  <2>4. engine'.turn = engine.turn /\ engine'.working = busy
    BY <1>1, <2>2 DEF EngineState
  <2>5. ~Making(c)
    BY <2>2 DEF Making
  <2>6. ASSUME Followed, ~intruded'
        PROVE  Followed'
    <3>1. busy = (engine.turn # 0)
      <4>1. CASE c = current
        <5>1. Attends(c)
          BY <2>6, <4>1 DEF Followed
        <5> QED BY <2>1, <2>2, <5>1 DEF Attends
      <4> QED BY <2>2, <2>6, <4>1
    <3>2. Reported'
      <4>1. CASE engine.working = busy
        <5>1. toTell' = toTell /\ reader[c] # toTell
          BY <2>2, <2>4, <4>1 DEF toTell
        <5>2. \A d \in Runs : reader[d] = toTell => reader'[d] = toTell
          BY <2>3, <5>1
        <5>3. engine'.working = engine.working
          BY <2>4, <4>1
        <5> QED BY <2>2, <2>6, <5>1, <5>2, <5>3 DEF Followed, Reported
      <4>2. CASE engine.working # busy
        <5>1. reader'[c] = toTell'
          BY <2>3, <2>4, <4>2 DEF toTell
        <5> QED BY <5>1 DEF Reported
      <4> QED BY <4>1, <4>2
    <3>3. ASSUME NEW d \in Runs, d = current
          PROVE  Attends(d)'
      <4>1. Attends(d) /\ inbox'[d] = inbox[d] /\ turn'[d] = turn[d] /\ proc'[d] = proc[d]
        BY <2>2, <2>6, <3>3 DEF Followed
      <4>2. proc'[d] # "dead" => Lined(inbox'[d], engine'.turn, turn'[d])
        BY <2>4, <4>1 DEF Attends
      <4>3. CASE d = c
        <5>1. reader'[c] \in {"read", "emit busy", "emit idle"}
              /\ (reader'[c] = "emit busy" => busy) /\ (reader'[c] = "emit idle" => ~busy)
          BY <2>3
        <5> QED BY <2>4, <3>1, <4>2, <4>3, <5>1 DEF Attends
      <4>4. CASE d # c
        <5>1. reader'[d] = reader[d]
          BY <2>3, <4>4
        <5> QED BY <2>4, <3>1, <4>1, <4>2, <5>1 DEF Attends
      <4> QED BY <4>3, <4>4
    <3>4. current' = 0 => engine'.turn = 0 /\ ~engine'.working
      BY <2>2, <2>4, <2>6, <3>1 DEF Followed
    <3> QED BY <2>2, <3>2, <3>3, <3>4 DEF Followed
  <2>7. ~intruded' => ~intruded
    BY <2>2
  <2> QED BY <1>1, <1>2, <2>2, <2>3, <2>5, <2>6, <2>7, OneClientTurn
<1>9. CASE EmitWorking(c)
  <2>1. PICK busy \in BOOLEAN : busy = (reader[c] = "emit busy")
    OBVIOUS
  <2>2. /\ reader[c] \in {"emit busy", "emit idle"} /\ told' = busy
        /\ goOn(c, "read")
        /\ UNCHANGED <<inbox, stdin, turn, proc, calls, started, current, at, engine>>
        /\ ~intruded' => ~intruded /\ (c = current \/ told' = engine.working)
    BY <1>9, <2>1 DEF EmitWorking, EvWorking, intrudes
  <2>3. reader'[c] = "read" /\ \A d \in Runs \ {c} : reader'[d] = reader[d]
    BY <1>3, <2>2
  <2>4. ~Making(c)
    BY <2>2 DEF Making
  <2>5. ASSUME Followed, ~intruded'
        PROVE  Followed'
    <3>1. c = current => engine.working = (engine.turn # 0) /\ told' = engine.working
      <4>1. SUFFICES ASSUME c = current
                     PROVE  engine.working = (engine.turn # 0) /\ told' = engine.working
        OBVIOUS
      <4>2. Attends(c)
        BY <2>5, <4>1 DEF Followed
      <4>3. CASE reader[c] = "emit busy"
        BY <1>1, <2>1, <2>2, <4>2, <4>3 DEF Attends
      <4>4. CASE reader[c] = "emit idle"
        BY <1>1, <2>1, <2>2, <4>2, <4>4 DEF Attends
      <4> QED BY <2>2, <4>3, <4>4
    <3>2. told' = engine'.working
      BY <2>2, <2>5, <3>1
    <3>3. ASSUME NEW d \in Runs, d = current
          PROVE  Attends(d)'
      <4>1. Attends(d)
        BY <2>5, <3>3 DEF Followed
      <4>2. CASE d = c
        BY <2>2, <2>3, <3>1, <3>3, <4>1, <4>2 DEF Attends
      <4>3. CASE d # c
        BY <2>2, <2>3, <4>1, <4>3 DEF Attends
      <4> QED BY <4>2, <4>3
    <3>4. current' = 0 => engine'.turn = 0 /\ ~engine'.working
      BY <2>2, <2>5 DEF Followed
    <3> QED BY <2>2, <3>2, <3>3, <3>4 DEF Followed, Reported
  <2>6. told' \in BOOLEAN /\ (~intruded' => ~intruded)
    BY <2>2
  <2> QED BY <1>2, <2>2, <2>3, <2>4, <2>5, <2>6, OneClientTurn
<1>10. CASE ReaderEnds(c) /\ UNCHANGED codexRemoteVars
  <2>1. /\ reader[c] = "read" /\ proc[c] = "dead" /\ Close(c)
        /\ UNCHANGED <<turn, stdin, started, current, at, told, engine, intruded>>
        /\ reader' = [reader EXCEPT ![c] = "over"]
        /\ inbox' = [inbox EXCEPT ![c] = <<>>]
    BY <1>10 DEF ReaderEnds
  <2>2. /\ \A d \in Runs : proc'[d] = proc[d]
        /\ calls'["runtime"].method = calls["runtime"].method
    <3>1. "runtime" \in Callers
      BY CallersAre
    <3>2. calls'["runtime"].method = calls["runtime"].method
      BY <2>1, <3>1, TurnTypes, CloseIs
    <3>3. \A d \in Runs : proc'[d] = IF d = c /\ proc[d] = "up" THEN "killed" ELSE proc[d]
      BY <2>1, TurnTypes, CloseIs
    <3> QED BY <2>1, <3>2, <3>3
  <2>3. /\ \A d \in Runs \ {c} : reader'[d] = reader[d] /\ inbox'[d] = inbox[d]
        /\ reader'[c] = "over" /\ inbox'[c] = <<>>
    BY <2>1, TurnTypes
  <2>4. Making(c) => Making(c)'
    <3>1. noTurn(<<>>)
      BY DEF noTurn
    <3> QED BY <2>1, <2>2, <2>3, <3>1 DEF Making
  <2>5. ASSUME Followed
        PROVE  Followed'
    <3>1. Attends(c)'
      BY <2>1, <2>2, <2>3 DEF Attends
    <3>2. \A d \in Runs \ {c} : Attends(d) => Attends(d)'
      BY <2>1, <2>2, <2>3 DEF Attends
    <3>3. \A d \in Runs : reader[d] \in {"emit busy", "emit idle"} => reader'[d] = reader[d]
      BY <2>1, <2>3
    <3> QED BY <2>1, <2>5, <3>1, <3>2, <3>3, FollowedKept
  <2> QED BY <1>1, <1>2, <2>1, <2>2, <2>3, <2>4, <2>5, OneClientTurn
<1> QED BY <1>4, <1>5, <1>6, <1>7, <1>8, <1>9, <1>10 DEF ReaderStep

LEMMA AppServerTurn ==
  ASSUME CodexTyped, ofCodexRemote, TurnInv, NEW c \in Runs,
         AppServerAnswers(c) \/ AppServerEndsTurn(c) \/ AppServerDies(c), UNCHANGED codexRemoteVars
  PROVE  TurnInv'
<1> USE DEF eventVars, reportVars, runtimeVars, phoneVars, codexRemoteVars
<1>1. /\ inbox[c] \in Seq(Line) /\ turn[c] \in Nat /\ stdin[c] \in Seq(Request) /\ turns \in Nat
      /\ told \in BOOLEAN
  BY CodexTypes DEF TurnInv, CodexTyped
<1>2. proc[c] # "none" => c <= started
  BY TurnTypes DEF TurnInv, Unused
<1>3. ASSUME NEW s \in Seq(Line), NEW n \in Nat,
             UNCHANGED <<proc, reader, calls, started, current, at, told, engine, intruded>>,
             proc[c] = "up", inbox' = [inbox EXCEPT ![c] = s], turn'[c] = n,
             \A d \in Runs \ {c} : turn'[d] = turn[d] /\ stdin'[d] = stdin[d],
             \A t : Lined(inbox[c], t, turn[c]) => Lined(s, t, n),
             Making(c) => n = 0 /\ noTurn(s) /\ initializes(stdin'[c])
      PROVE  TurnInv'
  <2>1. inbox'[c] = s /\ \A d \in Runs \ {c} : inbox'[d] = inbox[d]
    BY <1>3, TurnTypes
  <2>2. Making(c) => Making(c)'
    BY <1>3, <2>1 DEF Making
  <2>3. Attends(c) => Attends(c)'
    BY <1>3, <2>1 DEF Attends
  <2>4. \A d \in Runs \ {c} : Attends(d) => Attends(d)'
    BY <1>3, <2>1 DEF Attends
  <2>5. Followed => Followed'
    BY <1>3, <2>3, <2>4, FollowedKept
  <2> QED BY <1>1, <1>2, <1>3, <2>1, <2>2, <2>5, OneClientTurn
<1>4. CASE AppServerAnswers(c)
  <2>1. /\ proc[c] = "up" /\ UNCHANGED <<proc, reader, calls, started, current, at, told, engine, intruded>>
        /\ stdin[c] # <<>> /\ stdin' = [stdin EXCEPT ![c] = Tail(stdin[c])]
    BY <1>4, TurnTypes DEF AppServerAnswers
  <2>2. PICK q \in Request : q = Head(stdin[c])
    BY <1>1, <2>1, OneLess
  <2>3. PICK begins \in BOOLEAN :
          /\ begins => q.method \in turnStarts /\ turn[c] = 0
          /\ turns' = IF begins THEN turns + 1 ELSE turns
          /\ turn' = IF begins THEN [turn EXCEPT ![c] = turns'] ELSE turn
          /\ \E out \in replies(q.method, q.id, IF begins THEN turns' ELSE 0) :
               inbox' = [inbox EXCEPT ![c] = @ \o out]
    BY <1>4, <2>2, TurnBegins
  <2>4. PICK begun \in Nat : begun = IF begins THEN turns' ELSE 0
    BY <1>1, <2>3
  <2>5. PICK out \in replies(q.method, q.id, begun) : inbox' = [inbox EXCEPT ![c] = @ \o out]
    BY <2>3, <2>4
  <2>6. begins <=> begun # 0
    BY <1>1, <2>3, <2>4
  <2>7. PICK n \in Nat : n = IF begun # 0 THEN begun ELSE turn[c]
    BY <1>1
  <2>8. turn'[c] = n /\ \A d \in Runs \ {c} : turn'[d] = turn[d] /\ stdin'[d] = stdin[d]
    BY <2>1, <2>3, <2>4, <2>6, <2>7, TurnTypes
  <2>9. Making(c) => /\ n = 0 /\ begun = 0 /\ noTurn(inbox[c]) /\ initializes(stdin'[c])
    <3>1. SUFFICES ASSUME Making(c)
                   PROVE  n = 0 /\ begun = 0 /\ noTurn(inbox[c]) /\ initializes(stdin'[c])
      OBVIOUS
    <3>2. turn[c] = 0 /\ noTurn(inbox[c]) /\ initializes(stdin[c])
      BY <3>1 DEF Making
    <3>3. initializes(Tail(stdin[c])) /\ q.method = "initialize"
      BY <1>1, <2>1, <2>2, <3>2, InitializesTail
    <3>4. ~begins
      BY <2>3, <3>3 DEF turnStarts
    <3>5. stdin'[c] = Tail(stdin[c])
      BY <2>1, TurnTypes
    <3> QED BY <2>6, <2>7, <3>2, <3>3, <3>4, <3>5
  <2>10. ASSUME NEW s \in Seq(Line), NEW a \in Line, a.kind \in {"response", "thread/started"}
         PROVE  /\ Append(s, a) \in Seq(Line)
                /\ \A t, m : Lined(s, t, m) => Lined(Append(s, a), t, m)
                /\ noTurn(s) => noTurn(Append(s, a))
    <3>1. ASSUME NEW t, NEW m, Lined(s, t, m)
          PROVE  Lined(Append(s, a), t, m)
      <4>1. turnAfter(a, m) = m
        BY <2>10 DEF turnAfter
      <4>2. a.kind # "turn/started" /\ a.kind # "turn/completed"
        BY <2>10
      <4>3. Lined(Append(s, a), t, turnAfter(a, m))
        BY <3>1, <4>2, LinedAppend
      <4> QED BY <4>1, <4>3
    <3>2. ~isTurn(a)
      BY <2>10 DEF isTurn
    <3> QED BY <3>1, <3>2, NoTurnAppend, OneMore
  <2>11. CASE /\ begun = 0
              /\ \E a \in Line : out = <<a>> /\ a.kind = "response" /\ a.n = q.id
    <3>1. PICK a \in Line : out = <<a>> /\ a.kind = "response"
      BY <2>11
    <3>2. n = turn[c]
      BY <2>7, <2>11
    <3>3. PICK s \in Seq(Line) : s = Append(inbox[c], a)
      BY <1>1, OneMore
    <3>4. inbox' = [inbox EXCEPT ![c] = s]
      <4>1. inbox[c] \o <<a>> = Append(inbox[c], a)
        BY <1>1, OneMore
      <4> QED BY <2>5, <3>1, <3>3, <4>1
    <3>5. \A t : Lined(inbox[c], t, turn[c]) => Lined(s, t, n)
      BY <1>1, <2>10, <3>1, <3>2, <3>3
    <3>6. Making(c) => n = 0 /\ noTurn(s) /\ initializes(stdin'[c])
      BY <1>1, <2>9, <2>10, <3>1, <3>3
    <3> QED BY <1>3, <2>1, <2>8, <3>4, <3>5, <3>6
  <2>12. CASE /\ begun = 0
              /\ \E a, b \in Line : /\ out = <<a, b>> /\ a.kind = "response" /\ a.n = q.id
                                    /\ b.kind = "thread/started"
    <3>1. PICK a \in Line, b \in Line :
                out = <<a, b>> /\ a.kind = "response" /\ b.kind = "thread/started"
      BY <2>12
    <3>2. n = turn[c]
      BY <2>7, <2>12
    <3>3. PICK s \in Seq(Line) : s = Append(inbox[c], a)
      BY <1>1, OneMore
    <3>4. PICK z \in Seq(Line) : z = Append(s, b)
      BY OneMore
    <3>5. inbox' = [inbox EXCEPT ![c] = z]
      <4>1. inbox[c] \o <<a, b>> = Append(Append(inbox[c], a), b)
        <5>1. inbox[c] \in Seq(Line)
          BY <1>1
        <5> QED BY <5>1, TwoMore, SMTT(60)
      <4> QED BY <2>5, <3>1, <3>3, <3>4, <4>1
    <3>6. \A t : Lined(inbox[c], t, turn[c]) => Lined(s, t, n)
      BY <1>1, <2>10, <3>1, <3>2, <3>3
    <3>7. \A t : Lined(s, t, n) => Lined(z, t, n)
      BY <2>10, <3>1, <3>4
    <3>8. Making(c) => noTurn(s)
      BY <1>1, <2>9, <2>10, <3>1, <3>3
    <3>9. Making(c) => n = 0 /\ noTurn(z) /\ initializes(stdin'[c])
      BY <2>9, <2>10, <3>1, <3>4, <3>8
    <3> QED BY <1>3, <2>1, <2>8, <3>5, <3>6, <3>7, <3>9
  <2>13. CASE /\ begun # 0
              /\ \E a, b \in Line :
                   /\ out = <<a, b>>
                   /\ \/ a.kind = "response" /\ a.n = q.id /\ b.kind = "turn/started" /\ b.n = begun
                      \/ a.kind = "turn/started" /\ a.n = begun /\ b.kind = "response" /\ b.n = q.id
    <3>1. PICK a \in Line, b \in Line :
                /\ out = <<a, b>>
                /\ \/ a.kind = "response" /\ b.kind = "turn/started" /\ b.n = begun
                   \/ a.kind = "turn/started" /\ a.n = begun /\ b.kind = "response"
      BY <2>13
    <3>2. n = begun /\ begun # 0
      BY <2>7, <2>13
    <3>3. PICK s \in Seq(Line) : s = Append(inbox[c], a)
      BY <1>1, OneMore
    <3>4. PICK z \in Seq(Line) : z = Append(s, b)
      BY OneMore
    <3>5. inbox' = [inbox EXCEPT ![c] = z]
      <4>1. inbox[c] \o <<a, b>> = Append(Append(inbox[c], a), b)
        <5>1. inbox[c] \in Seq(Line)
          BY <1>1
        <5> QED BY <5>1, TwoMore, SMTT(60)
      <4> QED BY <2>5, <3>1, <3>3, <3>4, <4>1
    <3>6. ASSUME NEW t, Lined(inbox[c], t, turn[c])
          PROVE  Lined(z, t, n)
      <4>1. PICK m : m = turnAfter(a, turn[c])
        OBVIOUS
      <4>2. Lined(s, t, m)
        <5>1. (a.kind = "turn/started" => a.n # 0) /\ a.kind # "turn/completed"
          BY <3>1, <3>2
        <5> QED BY <1>1, <3>3, <3>6, <4>1, <5>1, LinedAppend
      <4>3. (b.kind = "turn/started" => b.n # 0) /\ b.kind # "turn/completed"
        BY <3>1, <3>2
      <4>4. Lined(z, t, turnAfter(b, m))
        BY <3>4, <4>2, <4>3, LinedAppend
      <4>5. turnAfter(b, m) = n
        BY <3>1, <3>2, <4>1 DEF turnAfter
      <4> QED BY <4>4, <4>5
    <3>7. ~Making(c)
      BY <2>9, <3>2
    <3> QED BY <1>3, <2>1, <2>8, <3>5, <3>6, <3>7
  <2> QED BY <2>11, <2>12, <2>13, Replies
<1>5. CASE AppServerEndsTurn(c)
  <2>1. PICK m : m = notification("turn/completed", turn[c])
    OBVIOUS
  <2>2. m \in Line /\ m.kind = "turn/completed" /\ m.n = turn[c]
    BY <1>1, <2>1, LinesAre
  <2>3. /\ proc[c] = "up" /\ inbox' = [inbox EXCEPT ![c] = Append(inbox[c], m)]
        /\ turn' = [turn EXCEPT ![c] = 0] /\ turn[c] # 0
        /\ UNCHANGED <<proc, reader, calls, stdin, started, current, at, told, engine, intruded>>
    BY <1>5, <2>1, TurnTypes DEF AppServerEndsTurn
  <2>4. turnAfter(m, turn[c]) = 0
    BY <2>2 DEF turnAfter
  <2>5. PICK s \in Seq(Line) : s = Append(inbox[c], m)
    BY <1>1, <2>2, OneMore
  <2>6. ASSUME NEW t, Lined(inbox[c], t, turn[c])
        PROVE  Lined(s, t, 0)
    BY <1>1, <2>2, <2>4, <2>5, <2>6, LinedAppend
  <2>7. turn'[c] = 0 /\ \A d \in Runs \ {c} : turn'[d] = turn[d]
    BY <2>3, TurnTypes
  <2>8. ~Making(c)
    BY <2>3 DEF Making
  <2> QED BY <1>3, <2>3, <2>5, <2>6, <2>7, <2>8
<1>6. CASE AppServerDies(c)
  <2>1. /\ proc[c] \in {"up", "killed"} /\ proc' = [proc EXCEPT ![c] = "dead"] /\ turn' = [turn EXCEPT ![c] = 0]
        /\ stdin' = [stdin EXCEPT ![c] = <<>>]
        /\ UNCHANGED <<inbox, reader, calls, started, current, at, told, engine, intruded>>
    BY <1>6 DEF AppServerDies
  <2>2. /\ \A d \in Runs \ {c} : proc'[d] = proc[d] /\ turn'[d] = turn[d] /\ stdin'[d] = stdin[d]
        /\ proc'[c] = "dead" /\ turn'[c] = 0 /\ stdin'[c] = <<>>
    BY <2>1, TurnTypes
  <2>3. Making(c) => Making(c)'
    <3>1. initializes(<<>>)
      BY DEF initializes
    <3> QED BY <2>1, <2>2, <3>1 DEF Making
  <2>4. Attends(c) => Attends(c)'
    BY <2>1, <2>2 DEF Attends
  <2>5. \A d \in Runs \ {c} : Attends(d) => Attends(d)'
    BY <2>1, <2>2 DEF Attends
  <2>6. Followed => Followed'
    BY <2>1, <2>4, <2>5, FollowedKept
  <2> QED BY <1>1, <1>2, <2>1, <2>2, <2>3, <2>6, OneClientTurn
<1> QED BY <1>4, <1>5, <1>6

LEMMA InitTurn == Init => TurnInv
<1> SUFFICES ASSUME Init PROVE TurnInv
  OBVIOUS
<1> USE DEF Init, EventsInit, ClientInit, CodexRemoteInit
<1>1. Unused
  BY DEF Unused
<1>2. engine.turn = 0 /\ engine.working = FALSE /\ told = FALSE /\ current = 0 /\ at = "rest"
  OBVIOUS
<1>3. \A c \in Runs : c # current
  BY <1>2, Bounds DEF Runs
<1>4. Followed
  BY <1>2, <1>3 DEF Followed, Reported
<1> QED BY <1>1, <1>2, <1>4 DEF TurnInv

LEMMA TurnKept ==
  ASSUME CodexInv, ofCodexRemote => TurnInv, [Next]_vars
  PROVE  ofCodexRemote' => TurnInv'
<1>1. ofCodexRemote' = ofCodexRemote
  BY HalfKept DEF ofCodexRemote
<1>2. CASE half = "codex remote" /\ CodexRemoteNext
  <2>1. ofCodexRemote /\ CodexTyped /\ TurnInv /\ CallsInv /\ Initializing
    BY <1>2 DEF ofCodexRemote, CodexInv, CallsInv
  <2>2. CASE RuntimeStep \/ CodexStartRemote \/ CodexStopRemote \/ CodexAbort
    BY <2>1, <2>2, RuntimeTurn
  <2>3. CASE \/ CodexSend \/ CodexStartsTurn \/ CodexTurnAccepted \/ CodexStartsAgain
             \/ CodexTurnBegun \/ CodexTurnNotBegun
             \/ \E who \in Callers : CallStep(who)
    BY <2>1, <2>3, SenderTurn
  <2>4. ASSUME NEW c \in Runs, ReaderStep(c)
        PROVE  TurnInv'
    BY <2>1, <2>4, ReaderTurn
  <2>5. ASSUME NEW c \in Runs,
               AppServerAnswers(c) \/ AppServerEndsTurn(c) \/ AppServerDies(c), UNCHANGED codexRemoteVars
        PROVE  TurnInv'
    BY <2>1, <2>5, AppServerTurn
  <2> QED BY <1>2, <2>2, <2>3, <2>4, <2>5 DEF CodexRemoteNext, CodexRemoteStep
<1>3. CASE UNCHANGED vars
  <2>1. UNCHANGED <<started, current, at, proc, inbox, stdin, calls, reader, turn, engine, told, intruded>>
    BY <1>3 DEF vars, eventVars, reportVars, runtimeVars, phoneVars, clientVars, codexRemoteVars
  <2>2. Followed' = Followed
    BY ZenonT(60), <2>1 DEF Followed, Attends, Reported, toTell
  <2>3. \A c \in Runs : Making(c)' = Making(c)
    BY <2>1 DEF Making
  <2>4. Unused' = Unused
    BY <2>1 DEF Unused
  <2> QED BY <1>1, <2>1, <2>2, <2>3, <2>4 DEF TurnInv
<1>4. CASE half # "codex remote"
  BY <1>1, <1>4 DEF ofCodexRemote
<1> QED BY <1>2, <1>3, <1>4 DEF Next

\* Whatever was begun, ended, killed, stopped or started again: when the reader of the
\* attached client has handled all that its app-server wrote, the engine refuses messages
\* and reports a turn exactly while that app-server works on one, unless what a stopped
\* one had said was taken for its own.
THEOREM TurnsFollowed == Spec => []BusyWhileTurn
<1>1. ASSUME CodexInv, ofCodexRemote => TurnInv
      PROVE  BusyWhileTurn
  <2> SUFFICES ASSUME NEW c \in Runs, c = current, inbox[c] = <<>>, reader[c] = "read", proc[c] = "up",
                      \A d \in Runs : reader[d] \notin {"emit busy", "emit idle"},
                      ~intruded
               PROVE  /\ (engine.turn # 0) = (turn[c] # 0) /\ engine.working = (turn[c] # 0)
                      /\ told = (turn[c] # 0)
    BY DEF BusyWhileTurn
  <2>1. ofCodexRemote
    BY <1>1 DEF CodexInv, CodexIdle
  <2>2. TurnInv /\ CodexTyped /\ Followed /\ Attends(c)
    BY <1>1, <2>1 DEF CodexInv, TurnInv, Followed
  <2>3. turn[c] = engine.turn
    <3>1. Lined(inbox[c], engine.turn, turn[c])
      BY <2>2 DEF Attends
    <3>2. Lined(<<>>, engine.turn, turn[c])
      BY <3>1
    <3> QED BY <3>2, LinedEmpty
  <2>4. engine.working = (engine.turn # 0)
    BY <2>2 DEF Attends
  <2>5. told = engine.working
    <3>1. at # "emit"
      BY <2>1, <2>2, TurnTypes DEF TurnInv
    <3>2. toTell \in {"emit busy", "emit idle"}
      BY DEF toTell
    <3> QED BY <2>2, <3>1, <3>2 DEF Followed, Reported
  <2> QED BY <2>3, <2>4, <2>5
<1>2. Init => CodexInv /\ (ofCodexRemote => TurnInv)
  BY InitCodex, InitCalls, InitTurn DEF CodexInv
<1>3. CodexInv /\ (ofCodexRemote => TurnInv) /\ [Next]_vars => (ofCodexRemote => TurnInv)'
  BY TurnKept
<1> QED BY <1>1, <1>2, <1>3, CodexAlways, PTL DEF Spec

----------------------------------------------------------------------------
(* The working state of Claude's engine. *)

ofClaudeRemote == half = "claude remote"

WireKinds == {"user", "abort", "control_response", "ready", "thinking", "control_request", "result"}
Written == [kind : WireKinds, child : Nat]
ScriptState == [queue : Nat, child : Nat, spawned : Nat, ready : BOOLEAN, busy : SUBSET Nat,
                asks : SUBSET Nat, closing : SUBSET Nat]
OutgoingState == [pc : {"none", "set", "emit", "write"}, run : 0..MaxRuns]

ClaudeTyped ==
  /\ script \in [Runs -> ScriptState]
  /\ input \in [Runs -> Seq(Written)] /\ output \in [Runs -> Seq(Written)]
  /\ deciding \subseteq Runs \X Nat
  /\ remoteWorking \in BOOLEAN /\ cut \in BOOLEAN /\ outgoing \in OutgoingState
  /\ ofClaudeRemote => /\ started \in 0..MaxRuns /\ current \in 0..started /\ handle \in 0..started
                       /\ at = "wait" => started # 0
                       /\ proc \in [Runs -> {"none", "up", "killed", "dead"}]

has(s, kind) == \E i \in DOMAIN s : s[i].kind = kind

\* A message of run r is not worked on to its end, or the engine has not read so.
owed(r) ==
  \/ has(input[r], "user")
  \/ script[r].queue > 0 \/ script[r].busy # {}
  \/ has(output[r], "result")

\* Whose turn has ended, if not busy, has written its thoughts before the result.
Thought(s, busy) ==
  \A i \in DOMAIN s : s[i].kind = "thinking" => busy \/ \E j \in DOMAIN s : j > i /\ s[j].kind = "result"

\* While nothing was cut short: the runs in use are up, and the engine that believes in a
\* turn is owed its end.
Idle ==
  ~cut =>
    /\ outgoing.pc # "none" => outgoing.run \in Runs /\ proc[outgoing.run] = "up"
    /\ current # 0 => proc[current] = "up"
    /\ at = "wait" => proc[started] = "up"
    /\ \A r \in Runs : Thought(output[r], script[r].busy # {})
    /\ remoteWorking => outgoing.pc # "none" \/ \E r \in Runs : owed(r)

ClaudeInv ==
  /\ ClaudeTyped
  /\ ofClaudeRemote => Idle
  /\ ~ofClaudeRemote => ~remoteWorking

LEMMA HasAppend ==
  ASSUME NEW s \in Seq(Written), NEW m \in Written, NEW kind
  PROVE  has(Append(s, m), kind) <=> has(s, kind) \/ m.kind = kind
<1>1. PICK a : a = Append(s, m)
  OBVIOUS
<1>2. /\ DOMAIN s = 1..Len(s) /\ Len(s) \in Nat /\ DOMAIN a = 1..(Len(s) + 1)
      /\ (\A i \in DOMAIN s : a[i] = s[i]) /\ a[Len(s) + 1] = m
  BY <1>1, OneMore
<1>3. has(a, kind) <=> has(s, kind) \/ m.kind = kind
  BY <1>2 DEF has
<1> QED BY <1>1, <1>3

LEMMA HasTail ==
  ASSUME NEW s \in Seq(Written), s # <<>>, NEW kind
  PROVE  has(s, kind) <=> has(Tail(s), kind) \/ Head(s).kind = kind
<1>1. PICK a : a = Tail(s)
  OBVIOUS
<1>2. /\ DOMAIN s = 1..Len(s) /\ Len(s) \in Nat \ {0} /\ DOMAIN a = 1..(Len(s) - 1)
      /\ (\A i \in DOMAIN a : i + 1 \in DOMAIN s /\ a[i] = s[i + 1]) /\ Head(s) = s[1]
  BY <1>1, OneLess
<1>3. has(a, kind) => has(s, kind)
  BY <1>2 DEF has
<1>4. s[1].kind = kind => has(s, kind)
  BY <1>2 DEF has
<1>5. ASSUME NEW i \in DOMAIN s, s[i].kind = kind, i # 1
      PROVE  has(a, kind)
  <2>1. i - 1 \in DOMAIN a /\ a[i - 1] = s[i]
    BY <1>2, <1>5
  <2> QED BY <1>5, <2>1 DEF has
<1>6. has(s, kind) => has(a, kind) \/ s[1].kind = kind
  BY <1>5 DEF has
<1> QED BY <1>1, <1>2, <1>3, <1>4, <1>6

LEMMA ThoughtAppend ==
  ASSUME NEW s \in Seq(Written), NEW m \in Written, NEW b \in BOOLEAN, NEW c \in BOOLEAN, Thought(s, b),
         m.kind = "thinking" => c, b => c \/ m.kind = "result"
  PROVE  Thought(Append(s, m), c)
<1>1. PICK a : a = Append(s, m)
  OBVIOUS
<1>2. PICK l : l = Len(s)
  OBVIOUS
<1>3. /\ DOMAIN s = 1..l /\ l \in Nat /\ DOMAIN a = 1..(l + 1)
      /\ (\A i \in DOMAIN s : a[i] = s[i]) /\ a[l + 1] = m
  BY <1>1, <1>2, OneMore
<1>4. ASSUME NEW i \in DOMAIN a, a[i].kind = "thinking", ~c
      PROVE  \E j \in DOMAIN a : j > i /\ a[j].kind = "result"
  <2>1. i # l + 1
    BY <1>3, <1>4
  <2>2. i \in DOMAIN s /\ s[i].kind = "thinking"
    BY <1>3, <1>4, <2>1
  <2>3. CASE b
    <3>1. l + 1 \in DOMAIN a /\ l + 1 > i /\ a[l + 1].kind = "result"
      BY <1>3, <1>4, <2>2, <2>3
    <3> QED BY <3>1
  <2>4. CASE ~b
    <3>1. PICK j \in DOMAIN s : j > i /\ s[j].kind = "result"
      BY <2>2, <2>4 DEF Thought
    <3> QED BY <1>3, <3>1
  <2> QED BY <2>3, <2>4
<1>5. Thought(a, c)
  BY <1>4 DEF Thought
<1> QED BY <1>1, <1>5

LEMMA ThoughtTail ==
  ASSUME NEW s \in Seq(Written), s # <<>>, NEW b \in BOOLEAN, Thought(s, b)
  PROVE  Thought(Tail(s), b) /\ (Head(s).kind = "thinking" => b \/ has(Tail(s), "result"))
<1>1. PICK a : a = Tail(s)
  OBVIOUS
<1>2. PICK l : l = Len(s)
  OBVIOUS
<1>3. /\ DOMAIN s = 1..l /\ l \in Nat \ {0} /\ DOMAIN a = 1..(l - 1)
      /\ (\A i \in DOMAIN a : i + 1 \in DOMAIN s /\ a[i] = s[i + 1]) /\ Head(s) = s[1]
  BY <1>1, <1>2, OneLess
<1>4. ASSUME NEW j \in DOMAIN s, j > 1
      PROVE  j - 1 \in DOMAIN a /\ a[j - 1] = s[j]
  BY <1>3, <1>4
<1>5. ASSUME NEW i \in DOMAIN a, a[i].kind = "thinking", ~b
      PROVE  \E j \in DOMAIN a : j > i /\ a[j].kind = "result"
  <2>1. i + 1 \in DOMAIN s /\ s[i + 1].kind = "thinking"
    BY <1>3, <1>5
  <2>2. PICK j \in DOMAIN s : j > i + 1 /\ s[j].kind = "result"
    BY <1>5, <2>1 DEF Thought
  <2>3. j > 1 /\ j - 1 > i
    BY <1>3, <2>2
  <2> QED BY <1>4, <2>2, <2>3
<1>6. ASSUME s[1].kind = "thinking", ~b
      PROVE  has(a, "result")
  <2>1. PICK j \in DOMAIN s : j > 1 /\ s[j].kind = "result"
    BY <1>3, <1>6 DEF Thought
  <2> QED BY <1>4, <2>1 DEF has
<1> QED BY <1>1, <1>3, <1>5, <1>6 DEF Thought

LEMMA ThoughtEmpty ==
  ASSUME NEW b
  PROVE  Thought(<<>>, b)
BY DEF Thought

LEMMA InitClaude == Init => ClaudeInv
<1> SUFFICES ASSUME Init PROVE ClaudeInv
  OBVIOUS
<1> USE DEF Init, EventsInit, ClaudeRemoteInit
<1>1. freshScript \in ScriptState
  BY DEF freshScript, ScriptState
<1>2. <<>> \in Seq(Written)
  OBVIOUS
<1>3. 0 \in 0..MaxRuns /\ 0 \in 0..0
  BY Bounds
<1>4. /\ script \in [Runs -> ScriptState] /\ input \in [Runs -> Seq(Written)]
      /\ output \in [Runs -> Seq(Written)] /\ deciding \subseteq Runs \X Nat
      /\ outgoing \in OutgoingState /\ outgoing.pc = "none"
      /\ proc \in [Runs -> {"none", "up", "killed", "dead"}]
  BY <1>1, <1>2, <1>3 DEF OutgoingState, notSent
<1>5. ClaudeTyped
  BY <1>3, <1>4 DEF ClaudeTyped
<1>6. \A r \in Runs : Thought(output[r], script[r].busy # {})
  BY ThoughtEmpty
<1> QED BY <1>4, <1>5, <1>6 DEF ClaudeInv, Idle

\* What the script's functions do to its state.
LEMMA ScriptType ==
  ASSUME NEW s \in ScriptState
  PROVE  /\ s.queue \in Nat /\ s.child \in Nat /\ s.spawned \in Nat /\ s.ready \in BOOLEAN
         /\ s.busy \subseteq Nat /\ s.asks \subseteq Nat /\ s.closing \subseteq Nat
BY DEF ScriptState

LEMMA Respawned ==
  ASSUME NEW s \in ScriptState
  PROVE  respawned(s) \in ScriptState /\ respawned(s).busy = s.busy /\ respawned(s).queue = s.queue
<1>1. PICK n \in Nat : n = s.spawned + 1
  BY ScriptType
<1>2. respawned(s) = [s EXCEPT !.child = n, !.spawned = n]
  BY <1>1 DEF respawned, ScriptState
<1> QED BY <1>2 DEF ScriptState

LEMMA Cleaned ==
  ASSUME NEW s \in ScriptState
  PROVE  cleaned(s) \in ScriptState /\ cleaned(s).busy = s.busy /\ cleaned(s).queue = s.queue
BY DEF cleaned, ScriptState

LEMMA ChildKilled ==
  ASSUME NEW s \in ScriptState
  PROVE  killedChild(s) \in ScriptState
<1>1. PICK x \in SUBSET Nat : x = s.closing \cup {s.child}
  BY ScriptType
<1>2. PICK y \in SUBSET Nat : y = s.busy \ {s.child}
  BY ScriptType
<1>3. PICK z \in SUBSET Nat : z = s.asks \ {s.child}
  BY ScriptType
<1>4. killedChild(s) = IF s.child = 0 THEN s ELSE [s EXCEPT !.closing = x, !.busy = y, !.asks = z]
  BY <1>1, <1>2, <1>3 DEF killedChild, ScriptState
<1> QED BY <1>4 DEF ScriptState

LEMMA Pumped ==
  ASSUME NEW s \in ScriptState
  PROVE  /\ pumped(s) \in ScriptState /\ s.busy \subseteq pumped(s).busy
         /\ s.queue > 0 => pumped(s).queue > 0 \/ pumped(s).busy # {}
<1>1. CASE s.ready /\ s.queue > 0
  <2>1. PICK t : t = IF s.child = 0 THEN respawned(s) ELSE s
    OBVIOUS
  <2>2. t \in ScriptState /\ t.busy = s.busy /\ t.queue = s.queue
    BY <2>1, Respawned
  <2>3. PICK n \in Nat : n = t.queue - 1
    BY <1>1, <2>2, ScriptType
  <2>4. PICK b \in SUBSET Nat : b = t.busy \cup {t.child}
    BY <2>2, ScriptType
  <2>5. pumped(s) = [t EXCEPT !.queue = n, !.ready = FALSE, !.busy = b]
    BY <1>1, <2>1, <2>2, <2>3, <2>4 DEF pumped, ScriptState
  <2>6. pumped(s) \in ScriptState /\ pumped(s).busy = b
    BY <2>2, <2>5 DEF ScriptState
  <2> QED BY <2>2, <2>4, <2>6
<1>2. CASE ~(s.ready /\ s.queue > 0)
  <2>1. pumped(s) = s
    BY <1>2 DEF pumped
  <2> QED BY <2>1
<1> QED BY <1>1, <1>2

LEMMA ClaudeTypes ==
  ASSUME ClaudeTyped, NEW r \in Runs
  PROVE  /\ script[r] \in ScriptState /\ input[r] \in Seq(Written) /\ output[r] \in Seq(Written)
         /\ outgoing.pc \in {"none", "set", "emit", "write"} /\ outgoing.run \in 0..MaxRuns
         /\ r \in Nat \ {0}
BY Bounds DEF ClaudeTyped, OutgoingState, Runs

LEMMA LinesWritten ==
  ASSUME NEW kind \in WireKinds, NEW c \in Nat
  PROVE  line(kind, c) \in Written /\ line(kind, c).kind = kind /\ line(kind, c).child = c
BY DEF line, Written

\* Everything but what a step changes keeps its type.
LEMMA ClaudeKept ==
  ASSUME ClaudeTyped, ofClaudeRemote, UNCHANGED half,
         UNCHANGED script \/ script' \in [Runs -> ScriptState],
         UNCHANGED input \/ input' \in [Runs -> Seq(Written)],
         UNCHANGED output \/ output' \in [Runs -> Seq(Written)],
         UNCHANGED deciding \/ deciding' \subseteq Runs \X Nat,
         UNCHANGED remoteWorking \/ remoteWorking' \in BOOLEAN,
         UNCHANGED cut \/ cut' \in BOOLEAN,
         UNCHANGED outgoing \/ outgoing' \in OutgoingState,
         UNCHANGED started \/ (started' = started + 1 /\ started < MaxRuns),
         UNCHANGED current \/ current' \in {0, started},
         UNCHANGED handle \/ handle' \in {0, current},
         UNCHANGED at \/ at' # "wait" \/ started' # 0,
         UNCHANGED proc \/ proc' \in [Runs -> {"none", "up", "killed", "dead"}]
  PROVE  ClaudeTyped'
<1>1. ofClaudeRemote'
  BY DEF ofClaudeRemote
<1>2. /\ started \in 0..MaxRuns /\ current \in 0..started /\ handle \in 0..started
      /\ at = "wait" => started # 0
      /\ proc \in [Runs -> {"none", "up", "killed", "dead"}]
  BY DEF ClaudeTyped
<1>3. started' \in 0..MaxRuns /\ started <= started' /\ (started' # started => started' # 0)
  BY <1>2, Bounds
<1>4. current' \in 0..started' /\ handle' \in 0..started'
  BY <1>2, <1>3
<1>5. /\ script' \in [Runs -> ScriptState] /\ input' \in [Runs -> Seq(Written)]
      /\ output' \in [Runs -> Seq(Written)] /\ deciding' \subseteq Runs \X Nat
      /\ remoteWorking' \in BOOLEAN /\ cut' \in BOOLEAN /\ outgoing' \in OutgoingState
      /\ proc' \in [Runs -> {"none", "up", "killed", "dead"}]
  BY <1>2 DEF ClaudeTyped
<1>6. at' = "wait" => started' # 0
  BY <1>2, <1>3
<1> QED BY <1>3, <1>4, <1>5, <1>6 DEF ClaudeTyped

\* What happens at one run, when nothing is cut short.
LEMMA RunIdle ==
  ASSUME ClaudeTyped, Idle, NEW r \in Runs,
         UNCHANGED <<outgoing, current, at, started, proc, cut>>,
         \A d \in Runs \ {r} : script'[d] = script[d] /\ input'[d] = input[d] /\ output'[d] = output[d],
         Thought(output[r], script[r].busy # {}) => Thought(output'[r], script'[r].busy # {}),
         \/ ~remoteWorking' \/ owed(r)'
         \/ Thought(output[r], script[r].busy # {}) => owed(r)'
         \/ remoteWorking /\ (owed(r) => owed(r)')
  PROVE  Idle'
<1> SUFFICES ASSUME ~cut' PROVE Idle'
  BY DEF Idle
<1>1. /\ outgoing.pc # "none" => outgoing.run \in Runs /\ proc[outgoing.run] = "up"
      /\ current # 0 => proc[current] = "up"
      /\ at = "wait" => proc[started] = "up"
      /\ \A d \in Runs : Thought(output[d], script[d].busy # {})
      /\ remoteWorking => outgoing.pc # "none" \/ \E d \in Runs : owed(d)
  BY DEF Idle
<1>2. ASSUME NEW d \in Runs
      PROVE  Thought(output'[d], script'[d].busy # {})
  BY <1>1
<1>3. \A d \in Runs \ {r} : owed(d) => owed(d)'
  BY DEF owed
<1>4. remoteWorking' => outgoing'.pc # "none" \/ \E d \in Runs : owed(d)'
  BY <1>1, <1>3
<1> QED BY <1>1, <1>2, <1>4 DEF Idle

\* The script and the child of a run.
LEMMA ScriptKept ==
  ASSUME ClaudeTyped, ofClaudeRemote, Idle, NEW r \in Runs,
         \/ ScriptReads(r) \/ ChildThinks(r) \/ ChildAsks(r) \/ ChildResult(r) \/ ChildDies(r) \/ ScriptDies(r)
         \/ \E c \in script[r].closing : ChildCloses(r, c)
  PROVE  ClaudeTyped' /\ Idle'
<1> USE DEF eventVars, reportVars, runtimeVars, phoneVars
<1>1. /\ script \in [Runs -> ScriptState] /\ input \in [Runs -> Seq(Written)] /\ output \in [Runs -> Seq(Written)]
      /\ script[r] \in ScriptState /\ input[r] \in Seq(Written) /\ output[r] \in Seq(Written)
      /\ proc \in [Runs -> {"none", "up", "killed", "dead"}]
  BY ClaudeTypes DEF ClaudeTyped
<1>2. ASSUME NEW s \in ScriptState, script' = [script EXCEPT ![r] = s]
      PROVE  /\ script' \in [Runs -> ScriptState] /\ script'[r] = s
             /\ \A d \in Runs \ {r} : script'[d] = script[d]
  BY <1>1, <1>2
<1>3. ASSUME NEW m \in Written, output' = [output EXCEPT ![r] = Append(@, m)]
      PROVE  /\ output' \in [Runs -> Seq(Written)] /\ output'[r] = Append(output[r], m)
             /\ \A d \in Runs \ {r} : output'[d] = output[d]
  <2>1. Append(output[r], m) \in Seq(Written)
    BY <1>1, OneMore
  <2> QED BY <1>1, <1>3, <2>1
<1>4. cut' => Idle'
  BY DEF Idle
<1>5. TRUE \in BOOLEAN
  OBVIOUS
<1>6. CASE ScriptReads(r)
  <2>1. PICK m : m = Head(input[r])
    OBVIOUS
  <2>2. /\ input' = [input EXCEPT ![r] = Tail(input[r])] /\ input[r] # <<>>
        /\ UNCHANGED <<half, started, current, handle, at, proc, output, deciding, remoteWorking, outgoing>>
    BY <1>1, <1>6 DEF ScriptReads
  <2>3. m \in Written /\ Tail(input[r]) \in Seq(Written)
    BY <1>1, <2>1, <2>2, OneLess
  <2>4. /\ input' \in [Runs -> Seq(Written)] /\ input'[r] = Tail(input[r])
        /\ \A d \in Runs \ {r} : input'[d] = input[d]
    BY <1>1, <2>2, <2>3
  <2>5. has(input[r], "user") => has(input'[r], "user") \/ m.kind = "user"
    BY <1>1, <2>1, <2>2, <2>4, HasTail
  <2>6. CASE m.kind = "user" /\ script' = [script EXCEPT ![r] = pumped(queued(script[r]))] /\ UNCHANGED cut
    <3>0. script[r].queue \in Nat
      BY <1>1, ScriptType
    <3>1. PICK n \in Nat : n = script[r].queue + 1 /\ n > 0
      BY <3>0
    <3>2. PICK s : s = queued(script[r])
      OBVIOUS
    <3>3. s \in ScriptState /\ s.queue = n /\ s.busy = script[r].busy
      <4>1. s = [script[r] EXCEPT !.queue = n]
        BY <1>1, <3>1, <3>2 DEF queued, ScriptState
      <4> QED BY <1>1, <4>1 DEF ScriptState
    <3>4. PICK t : t = pumped(s)
      OBVIOUS
    <3>5. t \in ScriptState /\ s.busy \subseteq t.busy /\ (t.queue > 0 \/ t.busy # {})
      BY <3>1, <3>3, <3>4, Pumped
    <3>6. script' = [script EXCEPT ![r] = t]
      BY <2>6, <3>2, <3>4
    <3>7. script' \in [Runs -> ScriptState] /\ script'[r] = t /\ \A d \in Runs \ {r} : script'[d] = script[d]
      BY <1>2, <3>5, <3>6
    <3>8. Thought(output[r], script[r].busy # {}) => Thought(output'[r], script'[r].busy # {})
      BY <2>2, <3>3, <3>5, <3>7 DEF Thought
    <3>9. owed(r)'
      BY <3>5, <3>7 DEF owed
    <3>10. ClaudeTyped'
      BY <2>2, <2>4, <2>6, <3>7, ClaudeKept
    <3> QED BY <2>2, <2>4, <2>6, <3>7, <3>8, <3>9, <3>10, RunIdle
  <2>7. CASE m.kind = "abort" /\ script' = [script EXCEPT ![r] = pumped(cleaned(killedChild(script[r])))]
             /\ cut' = TRUE
    <3>1. pumped(cleaned(killedChild(script[r]))) \in ScriptState
      BY <1>1, ChildKilled, Cleaned, Pumped
    <3>2. script' \in [Runs -> ScriptState]
      BY <1>2, <2>7, <3>1
    <3> QED BY <1>4, <1>5, <2>2, <2>4, <2>7, <3>2, ClaudeKept
  <2>8. CASE m.kind = "control_response" /\ script' = [script EXCEPT ![r].asks = @ \ {m.child}] /\ UNCHANGED cut
    <3>1. PICK x \in SUBSET Nat : x = script[r].asks \ {m.child}
      BY <1>1, ScriptType
    <3>2. PICK s : s = [script[r] EXCEPT !.asks = x]
      OBVIOUS
    <3>3. s \in ScriptState /\ s.queue = script[r].queue /\ s.busy = script[r].busy
      BY <1>1, <3>2 DEF ScriptState
    <3>4. script' = [script EXCEPT ![r] = s]
      BY <1>1, <2>8, <3>1, <3>2
    <3>5. script' \in [Runs -> ScriptState] /\ script'[r] = s /\ \A d \in Runs \ {r} : script'[d] = script[d]
      BY <1>2, <3>3, <3>4
    <3>6. owed(r) => owed(r)'
      BY <2>2, <2>5, <2>8, <3>3, <3>5 DEF owed
    <3>7. Thought(output[r], script[r].busy # {}) => Thought(output'[r], script'[r].busy # {})
      BY <2>2, <3>3, <3>5
    <3>8. ClaudeTyped'
      BY <2>2, <2>4, <2>8, <3>5, ClaudeKept
    <3> QED BY <2>2, <2>4, <2>8, <3>5, <3>6, <3>7, <3>8, RunIdle
  <2>9. \/ /\ m.kind = "user"
           /\ script' = [script EXCEPT ![r] = pumped(queued(script[r]))]
           /\ UNCHANGED cut
        \/ /\ m.kind = "abort"
           /\ script' = [script EXCEPT ![r] = pumped(cleaned(killedChild(script[r])))]
           /\ cut' = TRUE
        \/ m.kind = "control_response" /\ script' = [script EXCEPT ![r].asks = @ \ {m.child}] /\ UNCHANGED cut
    BY <1>1, <1>6, <2>1 DEF ScriptReads
  <2> QED BY <2>6, <2>7, <2>8, <2>9
<1>7. CASE ChildThinks(r)
  <2>1. PICK m : m = line("thinking", 0)
    OBVIOUS
  <2>2. m \in Written /\ m.kind = "thinking"
    BY <2>1, LinesWritten DEF WireKinds
  <2>3. /\ output' = [output EXCEPT ![r] = Append(@, m)] /\ alive(script[r]) # {}
        /\ UNCHANGED <<half, started, current, handle, at, proc, script, input, deciding, remoteWorking, outgoing, cut>>
    BY <1>7, <2>1 DEF ChildThinks, Writes
  <2>4. /\ output' \in [Runs -> Seq(Written)] /\ output'[r] = Append(output[r], m)
        /\ \A d \in Runs \ {r} : output'[d] = output[d]
    BY <1>3, <2>2, <2>3
  <2>5. script[r].busy # {} /\ script'[r].busy # {}
    BY <2>3 DEF alive
  <2>6. Thought(output'[r], script'[r].busy # {})
    BY <1>1, <2>2, <2>4, <2>5, ThoughtAppend DEF Thought
  <2>7. owed(r)'
    BY <2>5 DEF owed
  <2>8. ClaudeTyped'
    BY <2>3, <2>4, ClaudeKept
  <2> QED BY <2>3, <2>4, <2>6, <2>7, <2>8, RunIdle
<1>8. CASE ChildAsks(r)
  <2>1. PICK c \in Nat : c = script[r].child
    BY <1>1, ScriptType
  <2>2. PICK m : m = line("control_request", c)
    OBVIOUS
  <2>3. m \in Written /\ m.kind = "control_request"
    BY <2>2, LinesWritten DEF WireKinds
  <2>4. PICK x \in SUBSET Nat : x = script[r].asks \cup {c}
    BY <1>1, ScriptType
  <2>5. PICK s : s = [script[r] EXCEPT !.asks = x]
    OBVIOUS
  <2>6. s \in ScriptState /\ s.queue = script[r].queue /\ s.busy = script[r].busy
    BY <1>1, <2>5 DEF ScriptState
  <2>7. /\ output' = [output EXCEPT ![r] = Append(@, m)]
        /\ script' = [script EXCEPT ![r] = s]
        /\ UNCHANGED <<half, started, current, handle, at, proc, input, deciding, remoteWorking, outgoing, cut>>
    BY <1>1, <1>8, <2>1, <2>2, <2>4, <2>5 DEF ChildAsks, Writes
  <2>8. /\ output' \in [Runs -> Seq(Written)] /\ output'[r] = Append(output[r], m)
        /\ \A d \in Runs \ {r} : output'[d] = output[d]
    BY <1>3, <2>3, <2>7
  <2>9. script' \in [Runs -> ScriptState] /\ script'[r] = s /\ \A d \in Runs \ {r} : script'[d] = script[d]
    BY <1>2, <2>6, <2>7
  <2>10. Thought(output[r], script[r].busy # {}) => Thought(output'[r], script'[r].busy # {})
    <3>1. PICK b \in BOOLEAN : b = (script[r].busy # {})
      OBVIOUS
    <3> QED BY <1>1, <2>3, <2>6, <2>8, <2>9, <3>1, ThoughtAppend
  <2>11. owed(r) => owed(r)'
    BY <1>1, <2>3, <2>6, <2>7, <2>8, <2>9, HasAppend DEF owed
  <2>12. ClaudeTyped'
    BY <2>7, <2>8, <2>9, ClaudeKept
  <2> QED BY <2>7, <2>8, <2>9, <2>10, <2>11, <2>12, RunIdle
<1>9. CASE ChildResult(r)
  <2>1. PICK m : m = line("result", 0)
    OBVIOUS
  <2>2. m \in Written /\ m.kind = "result"
    BY <2>1, LinesWritten DEF WireKinds
  <2>3. PICK x \in SUBSET Nat : x = script[r].busy \ {script[r].child}
    BY <1>1, ScriptType
  <2>4. PICK t : t = ended(script[r])
    OBVIOUS
  <2>5. t \in ScriptState
    <3>1. t = [script[r] EXCEPT !.busy = x, !.ready = TRUE]
      BY <1>1, <2>3, <2>4 DEF ended, ScriptState
    <3> QED BY <1>1, <3>1 DEF ScriptState
  <2>6. PICK s \in ScriptState : s = pumped(t)
    BY <2>5, Pumped
  <2>7. /\ output' = [output EXCEPT ![r] = Append(@, m)]
        /\ script' = [script EXCEPT ![r] = s]
        /\ UNCHANGED <<half, started, current, handle, at, proc, input, deciding, remoteWorking, outgoing, cut>>
    BY <1>9, <2>1, <2>4, <2>6 DEF ChildResult, Writes
  <2>8. /\ output' \in [Runs -> Seq(Written)] /\ output'[r] = Append(output[r], m)
        /\ \A d \in Runs \ {r} : output'[d] = output[d]
    BY <1>3, <2>2, <2>7
  <2>9. script' \in [Runs -> ScriptState] /\ script'[r] = s /\ \A d \in Runs \ {r} : script'[d] = script[d]
    BY <1>2, <2>7
  <2>10. Thought(output[r], script[r].busy # {}) => Thought(output'[r], script'[r].busy # {})
    <3>1. PICK b \in BOOLEAN : b = (script[r].busy # {})
      OBVIOUS
    <3>2. PICK c \in BOOLEAN : c = (script'[r].busy # {})
      OBVIOUS
    <3> QED BY <1>1, <2>2, <2>8, <3>1, <3>2, ThoughtAppend
  <2>11. owed(r)'
    BY <1>1, <2>2, <2>8, HasAppend DEF owed
  <2>12. ClaudeTyped'
    BY <2>7, <2>8, <2>9, ClaudeKept
  <2> QED BY <2>7, <2>8, <2>9, <2>10, <2>11, <2>12, RunIdle
<1>10. CASE ChildDies(r)
  <2>1. /\ script' = [script EXCEPT ![r] = killedChild(script[r])] /\ cut' = TRUE
        /\ UNCHANGED <<half, started, current, handle, at, proc, input, output, deciding, remoteWorking, outgoing>>
    BY <1>1, <1>10 DEF ChildDies
  <2>2. script' \in [Runs -> ScriptState]
    BY <1>1, <1>2, <2>1, ChildKilled
  <2> QED BY <1>4, <1>5, <2>1, <2>2, ClaudeKept
<1>11. CASE ScriptDies(r)
  <2>1. /\ proc' = [proc EXCEPT ![r] = "dead"] /\ cut' = TRUE
        /\ UNCHANGED <<half, started, current, handle, at, script, input, output, deciding, remoteWorking, outgoing>>
    BY <1>11 DEF ScriptDies
  <2>2. proc' \in [Runs -> {"none", "up", "killed", "dead"}]
    BY <1>1, <2>1
  <2> QED BY <1>4, <1>5, <2>1, <2>2, ClaudeKept
<1>12. ASSUME NEW c \in script[r].closing, ChildCloses(r, c)
       PROVE  ClaudeTyped' /\ Idle'
  <2>1. PICK x \in SUBSET Nat : x = script[r].closing \ {c}
    BY <1>1, ScriptType
  <2>2. PICK t : t = cleaned(script[r])
    OBVIOUS
  <2>3. t \in ScriptState /\ t.busy = script[r].busy /\ t.queue = script[r].queue /\ t.closing = script[r].closing
    BY <1>1, <2>2, Cleaned DEF cleaned, ScriptState
  <2>4. PICK s : s = [t EXCEPT !.closing = x]
    OBVIOUS
  <2>5. s \in ScriptState /\ s.busy = script[r].busy /\ s.queue = script[r].queue
    BY <2>3, <2>4 DEF ScriptState
  <2>6. s = [cleaned(script[r]) EXCEPT !.closing = @ \ {c}]
    BY <2>1, <2>2, <2>3, <2>4
  <2>7. PICK u : /\ u = s \/ u = pumped(respawned(s))
                 /\ script' = [script EXCEPT ![r] = u]
    BY <1>12, <2>6 DEF ChildCloses
  <2>8. u \in ScriptState /\ script[r].busy \subseteq u.busy /\ (script[r].queue > 0 => u.queue > 0 \/ u.busy # {})
    BY <2>5, <2>7, Respawned, Pumped
  <2>9. UNCHANGED <<half, started, current, handle, at, proc, input, output, deciding, remoteWorking, outgoing, cut>>
    BY <1>12 DEF ChildCloses
  <2>10. script' \in [Runs -> ScriptState] /\ script'[r] = u /\ \A d \in Runs \ {r} : script'[d] = script[d]
    BY <1>2, <2>7, <2>8
  <2>11. Thought(output[r], script[r].busy # {}) => Thought(output'[r], script'[r].busy # {})
    BY <2>8, <2>9, <2>10 DEF Thought
  <2>12. owed(r) => owed(r)'
    BY <2>8, <2>9, <2>10 DEF owed
  <2>13. ClaudeTyped'
    BY <2>9, <2>10, ClaudeKept
  <2>14. ~remoteWorking' \/ (remoteWorking /\ (owed(r) => owed(r)'))
    BY <2>9, <2>12 DEF ClaudeTyped
  <2> QED BY <2>9, <2>10, <2>11, <2>13, <2>14, RunIdle
<1> QED BY <1>6, <1>7, <1>8, <1>9, <1>10, <1>11, <1>12

LEMMA SentIs ==
  ASSUME ClaudeTyped, NEW r \in Runs, NEW kind \in WireKinds, NEW c \in Nat, sendMessage(r, kind, c)
  PROVE  /\ input' \in [Runs -> Seq(Written)] /\ \A d \in Runs \ {r} : input'[d] = input[d]
         /\ has(input[r], "user") => has(input'[r], "user")
         /\ proc[r] = "up" /\ kind = "user" => has(input'[r], "user")
<1>1. input \in [Runs -> Seq(Written)] /\ input[r] \in Seq(Written)
  BY ClaudeTypes DEF ClaudeTyped
<1>2. PICK m \in Written : m = line(kind, c) /\ m.kind = kind
  BY LinesWritten
<1>3. CASE proc[r] = "up"
  <2>1. input' = [input EXCEPT ![r] = Append(@, m)]
    BY <1>2, <1>3 DEF sendMessage
  <2>2. Append(input[r], m) \in Seq(Written)
    BY <1>1, OneMore
  <2>3. has(Append(input[r], m), "user") <=> has(input[r], "user") \/ kind = "user"
    BY <1>1, <1>2, HasAppend
  <2>4. input' \in [Runs -> Seq(Written)] /\ input'[r] = Append(input[r], m)
        /\ \A d \in Runs \ {r} : input'[d] = input[d]
    BY <1>1, <2>1, <2>2
  <2> QED BY <2>3, <2>4
<1>4. CASE proc[r] # "up"
  BY <1>1, <1>4 DEF sendMessage
<1> QED BY <1>3, <1>4

\* The engine's reader of a run, and who decides on permissions.
LEMMA BridgeKept ==
  ASSUME ClaudeTyped, ofClaudeRemote, Idle, NEW r \in Runs, BridgeStep(r) \/ DecisionStep(r)
  PROVE  ClaudeTyped' /\ Idle'
<1> USE DEF eventVars, reportVars, runtimeVars, phoneVars
<1>1. /\ output \in [Runs -> Seq(Written)] /\ output[r] \in Seq(Written) /\ remoteWorking \in BOOLEAN
      /\ deciding \subseteq Runs \X Nat
  BY ClaudeTypes DEF ClaudeTyped
<1>2. ASSUME NEW kind, reads(r, kind)
      PROVE  /\ output' \in [Runs -> Seq(Written)] /\ output'[r] = Tail(output[r]) /\ output[r] # <<>>
             /\ \A d \in Runs \ {r} : output'[d] = output[d]
             /\ Head(output[r]) \in Written /\ Head(output[r]).kind = kind
  <2>1. output[r] # <<>> /\ Head(output[r]).kind = kind /\ output' = [output EXCEPT ![r] = Tail(output[r])]
    BY <1>1, <1>2 DEF reads
  <2>2. Tail(output[r]) \in Seq(Written) /\ Head(output[r]) \in Written
    BY <1>1, <2>1, OneLess
  <2> QED BY <1>1, <2>1, <2>2
<1>3. ASSUME NEW kind, reads(r, kind), UNCHANGED script
      PROVE  Thought(output[r], script[r].busy # {}) => Thought(output'[r], script'[r].busy # {})
  <2>1. PICK b \in BOOLEAN : b = (script[r].busy # {})
    OBVIOUS
  <2> QED BY <1>1, <1>2, <1>3, <2>1, ThoughtTail
<1>4. CASE BridgeReadsResult(r)
  <2>1. /\ reads(r, "result") /\ remoteWorking' = FALSE
        /\ UNCHANGED <<half, started, current, handle, at, proc, script, input, deciding, outgoing, cut>>
    BY <1>4 DEF BridgeReadsResult, setRemoteWorking
  <2>2. ClaudeTyped'
    BY <1>2, <2>1, ClaudeKept
  <2>3. Thought(output[r], script[r].busy # {}) => Thought(output'[r], script'[r].busy # {})
    BY <1>3, <2>1
  <2> QED BY <1>2, <2>1, <2>2, <2>3, RunIdle
<1>5. CASE BridgeReadsThoughts(r)
  <2>1. /\ reads(r, "thinking") /\ remoteWorking' = TRUE
        /\ UNCHANGED <<half, started, current, handle, at, proc, script, input, deciding, outgoing, cut>>
    BY <1>5 DEF BridgeReadsThoughts, setRemoteWorking
  <2>2. ClaudeTyped'
    BY <1>2, <2>1, ClaudeKept
  <2>3. Thought(output[r], script[r].busy # {}) => Thought(output'[r], script'[r].busy # {})
    BY <1>3, <2>1
  <2>4. ASSUME Thought(output[r], script[r].busy # {})
        PROVE  owed(r)'
    <3>1. PICK b \in BOOLEAN : b = (script[r].busy # {})
      OBVIOUS
    <3>2. b \/ has(Tail(output[r]), "result")
      BY <1>1, <1>2, <2>1, <2>4, <3>1, ThoughtTail
    <3> QED BY <1>2, <2>1, <3>1, <3>2 DEF owed
  <2> QED BY <1>2, <2>1, <2>2, <2>3, <2>4, RunIdle
<1>6. CASE BridgeReadsRequest(r)
  <2>1. /\ reads(r, "control_request")
        /\ deciding' = deciding \cup {<<r, Head(output[r]).child>>}
        /\ UNCHANGED <<half, started, current, handle, at, proc, script, input, remoteWorking, outgoing, cut>>
    BY <1>6 DEF BridgeReadsRequest
  <2>2. Head(output[r]).child \in Nat
    BY <1>2, <2>1 DEF Written
  <2>3. deciding' \subseteq Runs \X Nat
    BY <1>1, <2>1, <2>2
  <2>4. ClaudeTyped'
    BY <1>2, <2>1, <2>3, ClaudeKept
  <2>5. Thought(output[r], script[r].busy # {}) => Thought(output'[r], script'[r].busy # {})
    BY <1>3, <2>1
  <2>6. has(output[r], "result") => has(output'[r], "result")
    <3>1. Head(output[r]).kind # "result" /\ output[r] # <<>> /\ output'[r] = Tail(output[r])
      BY <1>2, <2>1
    <3>2. has(output[r], "result") <=> has(Tail(output[r]), "result") \/ Head(output[r]).kind = "result"
      BY <1>1, <3>1, HasTail
    <3> QED BY <3>1, <3>2
  <2>7. owed(r) => owed(r)'
    BY <2>1, <2>6 DEF owed
  <2> QED BY <1>1, <1>2, <2>1, <2>4, <2>5, <2>7, RunIdle
<1>7. CASE BridgeEmits
  <2>1. UNCHANGED <<half, started, current, handle, at, proc, script, input, output, deciding, remoteWorking, outgoing,
                    cut>>
    BY <1>7 DEF BridgeEmits, EvWorking
  <2>2. ClaudeTyped'
    BY <2>1, ClaudeKept
  <2>3. owed(r) => owed(r)'
    BY <2>1 DEF owed
  <2> QED BY <1>1, <2>1, <2>2, <2>3, RunIdle
<1>8. CASE DecisionStep(r)
  <2>1. PICK p \in deciding : p[1] = r /\ PermissionDecided(r, p[2])
    BY <1>8 DEF DecisionStep
  <2>2. p[2] \in Nat
    BY <1>1, <2>1
  <2>3. /\ sendMessage(r, "control_response", p[2]) /\ deciding' \subseteq deciding
        /\ UNCHANGED <<half, started, current, handle, at, proc, script, output, remoteWorking, outgoing, cut>>
    BY <2>1 DEF PermissionDecided
  <2>4. /\ input' \in [Runs -> Seq(Written)] /\ \A d \in Runs \ {r} : input'[d] = input[d]
        /\ has(input[r], "user") => has(input'[r], "user")
    BY <2>2, <2>3, SentIs DEF WireKinds
  <2>5. ClaudeTyped'
    BY <1>1, <2>3, <2>4, ClaudeKept
  <2>6. owed(r) => owed(r)'
    BY <2>3, <2>4 DEF owed
  <2> QED BY <1>1, <2>3, <2>4, <2>5, <2>6, RunIdle
<1> QED BY <1>4, <1>5, <1>6, <1>7, <1>8 DEF BridgeStep

\* The message being sent, and a press of Stop.
LEMMA SendKept ==
  ASSUME ClaudeTyped, ofClaudeRemote, Idle, ClaudeSendStep \/ ClaudeSend \/ ClaudeAbort
  PROVE  ClaudeTyped' /\ Idle'
<1> USE DEF eventVars, reportVars, runtimeVars, phoneVars
<1>1. UNCHANGED <<half, started, current, handle, at, proc, script, output, deciding, cut>>
  BY DEF ClaudeSendStep, ClaudeSend, ClaudeAbort, ClaudeSetsWorking, ClaudeEmitsWorking, ClaudeWrites, EvWorking,
         PressStop
<1>2. /\ current \in 0..MaxRuns /\ (current # 0 => current \in Runs)
      /\ outgoing \in OutgoingState
      /\ outgoing.pc \in {"none", "set", "emit", "write"} /\ outgoing.run \in 0..MaxRuns
      /\ remoteWorking \in BOOLEAN
  BY Bounds DEF ClaudeTyped, OutgoingState, Runs
<1>3. /\ notSent \in OutgoingState /\ notSent.pc = "none"
      /\ sendOrder[1] = "set" /\ sendOrder[2] = "write"
  BY Bounds DEF notSent, OutgoingState, sendOrder
<1>4. /\ after("set") = [outgoing EXCEPT !.pc = "write"] /\ after("write") = notSent
  BY <1>3 DEF after
<1>5. \A pc \in {"emit", "write"} : /\ [outgoing EXCEPT !.pc = pc] \in OutgoingState
                                    /\ [outgoing EXCEPT !.pc = pc].pc = pc
                                    /\ [outgoing EXCEPT !.pc = pc].run = outgoing.run
  BY <1>2 DEF OutgoingState
<1>6. ASSUME ~cut,
             \/ UNCHANGED outgoing /\ UNCHANGED remoteWorking
             \/ outgoing'.pc # "none" /\ outgoing'.run \in Runs /\ proc[outgoing'.run] = "up"
             \/ outgoing'.pc = "none" /\ \E r \in Runs : owed(r)'
             \/ outgoing.pc = "none" /\ outgoing'.pc = "none" /\ UNCHANGED remoteWorking,
             \A r \in Runs : owed(r) => owed(r)'
      PROVE  Idle'
  <2>1. /\ outgoing.pc # "none" => outgoing.run \in Runs /\ proc[outgoing.run] = "up"
        /\ current # 0 => proc[current] = "up"
        /\ at = "wait" => proc[started] = "up"
        /\ \A r \in Runs : Thought(output[r], script[r].busy # {})
        /\ remoteWorking => outgoing.pc # "none" \/ \E r \in Runs : owed(r)
    BY <1>6 DEF Idle
  <2>2. outgoing'.pc # "none" => outgoing'.run \in Runs /\ proc[outgoing'.run] = "up"
    BY <1>6, <2>1
  <2>3. remoteWorking' => outgoing'.pc # "none" \/ \E r \in Runs : owed(r)'
    BY <1>6, <2>1
  <2> QED BY <1>1, <2>1, <2>2, <2>3 DEF Idle
<1>7. cut => Idle'
  BY <1>1 DEF Idle
<1>8. outgoing.pc # "none" /\ ~cut => outgoing.run \in Runs /\ proc[outgoing.run] = "up"
  BY DEF Idle
<1>9. CASE ClaudeSend
  <2>1. PICK sent : sent = [pc |-> "set", run |-> current]
    OBVIOUS
  <2>2. sent \in OutgoingState /\ sent.pc = "set" /\ sent.run = current
    BY <1>2, <2>1 DEF OutgoingState
  <2>3. /\ outgoing.pc = "none" /\ outgoing' = IF current = 0 THEN notSent ELSE sent
        /\ UNCHANGED <<input, remoteWorking>>
    BY <1>3, <1>9, <2>1 DEF ClaudeSend
  <2>4. ClaudeTyped'
    BY <1>1, <1>3, <2>2, <2>3, ClaudeKept
  <2>5. \A r \in Runs : owed(r) => owed(r)'
    BY <1>1, <2>3 DEF owed
  <2>6. ~cut => (current # 0 => proc[current] = "up")
    BY DEF Idle
  <2> QED BY <1>2, <1>3, <1>6, <1>7, <2>2, <2>3, <2>4, <2>5, <2>6
<1>10. CASE ClaudeSetsWorking
  <2>1. PICK pc \in {"emit", "write"} : outgoing' = [outgoing EXCEPT !.pc = pc]
    BY <1>4, <1>10 DEF ClaudeSetsWorking
  <2>2. outgoing.pc = "set" /\ remoteWorking' = TRUE /\ UNCHANGED input
    BY <1>10 DEF ClaudeSetsWorking
  <2>3. outgoing' \in OutgoingState /\ outgoing'.pc # "none" /\ outgoing'.run = outgoing.run
    BY <1>5, <2>1
  <2>4. ClaudeTyped'
    BY <1>1, <2>2, <2>3, ClaudeKept
  <2>5. \A r \in Runs : owed(r) => owed(r)'
    BY <1>1, <2>2 DEF owed
  <2> QED BY <1>6, <1>7, <1>8, <2>2, <2>3, <2>4, <2>5
<1>11. CASE ClaudeEmitsWorking
  <2>1. outgoing.pc = "emit" /\ outgoing' = [outgoing EXCEPT !.pc = "write"] /\ UNCHANGED <<input, remoteWorking>>
    BY <1>4, <1>11 DEF ClaudeEmitsWorking
  <2>2. outgoing' \in OutgoingState /\ outgoing'.pc # "none" /\ outgoing'.run = outgoing.run
    BY <1>5, <2>1
  <2>3. ClaudeTyped'
    BY <1>1, <2>1, <2>2, ClaudeKept
  <2>4. \A r \in Runs : owed(r) => owed(r)'
    BY <1>1, <2>1 DEF owed
  <2> QED BY <1>6, <1>7, <1>8, <2>1, <2>2, <2>3, <2>4
<1>12. CASE ClaudeWrites
  <2>1. outgoing.pc = "write" /\ outgoing' = notSent /\ sendMessage(outgoing.run, "user", 0)
        /\ UNCHANGED remoteWorking
    BY <1>4, <1>12 DEF ClaudeWrites
  <2>2. CASE outgoing.run \in Runs
    <3>1. PICK r \in Runs : r = outgoing.run
      BY <2>2
    <3>2. "user" \in WireKinds /\ 0 \in Nat /\ sendMessage(r, "user", 0)
      BY <2>1, <3>1 DEF WireKinds
    <3>3. /\ input' \in [Runs -> Seq(Written)] /\ \A d \in Runs \ {r} : input'[d] = input[d]
          /\ has(input[r], "user") => has(input'[r], "user")
          /\ proc[r] = "up" => has(input'[r], "user")
      BY <3>2, SentIs
    <3>4. ClaudeTyped'
      BY <1>1, <1>3, <2>1, <3>3, ClaudeKept
    <3>5. \A d \in Runs : owed(d) => owed(d)'
      BY <1>1, <3>3 DEF owed
    <3>6. proc[r] = "up" => owed(r)'
      BY <3>3 DEF owed
    <3> QED BY <1>3, <1>6, <1>7, <1>8, <2>1, <3>1, <3>4, <3>5, <3>6
  <2>3. CASE outgoing.run \notin Runs
    <3>1. input' = input \/ input' = [input EXCEPT ![outgoing.run] = Append(@, line("user", 0))]
      BY <2>1 DEF sendMessage
    <3>2. UNCHANGED input
      BY <2>3, <3>1 DEF ClaudeTyped
    <3>3. ClaudeTyped'
      BY <1>1, <1>3, <2>1, <3>2, ClaudeKept
    <3> QED BY <1>7, <1>8, <2>1, <2>3, <3>3
  <2> QED BY <2>2, <2>3
<1>13. CASE ClaudeAbort
  <2>1. UNCHANGED <<outgoing, remoteWorking>> /\ current # 0 /\ sendMessage(current, "abort", 0)
    BY <1>13 DEF ClaudeAbort
  <2>2. PICK r \in Runs : r = current
    BY <1>2, <2>1
  <2>3. /\ input' \in [Runs -> Seq(Written)] /\ \A d \in Runs \ {r} : input'[d] = input[d]
        /\ has(input[r], "user") => has(input'[r], "user")
    <3>1. "abort" \in WireKinds /\ 0 \in Nat /\ sendMessage(r, "abort", 0)
      BY <2>1, <2>2 DEF WireKinds
    <3> QED BY <3>1, SentIs
  <2>4. ClaudeTyped'
    BY <1>1, <2>1, <2>3, ClaudeKept
  <2>5. \A d \in Runs : owed(d) => owed(d)'
    BY <1>1, <2>3 DEF owed
  <2> QED BY <1>6, <1>7, <2>1, <2>4, <2>5
<1> QED BY <1>9, <1>10, <1>11, <1>12, <1>13 DEF ClaudeSendStep

\* The runtime's goroutine, and the one that waits for the exit of a run.
LEMMA ClaudeRuntimeKept ==
  ASSUME ClaudeTyped, ofClaudeRemote, Idle,
         \/ ClaudeRuntimeStep \/ ClaudeStartRemote \/ ClaudeStopRemote
         \/ \E r \in Runs : ClaudeReportsRemoteExit(r)
  PROVE  ClaudeTyped' /\ Idle'
<1> USE DEF eventVars, reportVars, runtimeVars, phoneVars, claudeRemoteVars, GoTo
<1>1. /\ started \in 0..MaxRuns /\ current \in 0..started /\ handle \in 0..started
      /\ at = "wait" => started # 0
      /\ proc \in [Runs -> {"none", "up", "killed", "dead"}]
      /\ output \in [Runs -> Seq(Written)] /\ cut \in BOOLEAN
      /\ started \in Nat /\ (started # 0 => started \in Runs) /\ (current # 0 => current \in Runs)
      /\ (started < MaxRuns => started + 1 \in Runs) /\ handle \in Nat /\ (handle # 0 => handle \in Runs)
  <2>1. /\ started \in 0..MaxRuns /\ current \in 0..started /\ handle \in 0..started
        /\ at = "wait" => started # 0
        /\ proc \in [Runs -> {"none", "up", "killed", "dead"}]
        /\ output \in [Runs -> Seq(Written)] /\ cut \in BOOLEAN
    BY DEF ClaudeTyped
  <2>2. started \in Nat /\ (started # 0 => started \in Runs) /\ (started < MaxRuns => started + 1 \in Runs)
    BY <2>1, Bounds DEF Runs
  <2>3. (current # 0 => current \in Runs) /\ handle \in Nat /\ (handle # 0 => handle \in Runs)
    BY <2>1, Bounds DEF Runs
  <2> QED BY <2>1, <2>2, <2>3
<1>2. UNCHANGED <<half, script, input, deciding, remoteWorking, outgoing>>
  BY DEF ClaudeRuntimeStep, ClaudeStartRemote, ClaudeStopRemote, ClaudeReportsRemoteExit, ClaudeNoBridge,
         ClaudeRemoteFails, ClaudeAttachesRemote, ClaudeRemoteReady, ClaudeReaps, ClaudeKillsRemote,
         ClaudeRemoteStopped, Writes
<1>3. cut' => Idle'
  BY DEF Idle
<1>4. ASSUME ~cut, current' # 0 => proc'[current'] = "up", at' = "wait" => proc'[started'] = "up",
             \A r \in Runs : proc[r] = "up" => proc'[r] = "up",
             \A r \in Runs : Thought(output[r], script[r].busy # {}) => Thought(output'[r], script[r].busy # {}),
             \A r \in Runs : has(output[r], "result") => has(output'[r], "result")
      PROVE  Idle'
  <2>1. /\ outgoing.pc # "none" => outgoing.run \in Runs /\ proc[outgoing.run] = "up"
        /\ \A r \in Runs : Thought(output[r], script[r].busy # {})
        /\ remoteWorking => outgoing.pc # "none" \/ \E r \in Runs : owed(r)
    BY <1>4 DEF Idle
  <2>2. outgoing'.pc # "none" => outgoing'.run \in Runs /\ proc'[outgoing'.run] = "up"
    BY <1>2, <1>4, <2>1
  <2>3. \A r \in Runs : owed(r) => owed(r)'
    BY <1>2, <1>4 DEF owed
  <2>4. remoteWorking' => outgoing'.pc # "none" \/ \E r \in Runs : owed(r)'
    BY <1>2, <2>1, <2>3
  <2>5. \A r \in Runs : Thought(output'[r], script'[r].busy # {})
    BY <1>2, <1>4, <2>1
  <2> QED BY <1>4, <2>2, <2>4, <2>5 DEF Idle
<1>5. ~cut => (current # 0 => proc[current] = "up") /\ (at = "wait" => proc[started] = "up")
  BY DEF Idle
<1>6. ASSUME UNCHANGED <<proc, output, cut, started>>, at' # "wait" \/ UNCHANGED at,
             current' \in {0, current}, handle' \in {0, handle, current}
      PROVE  ClaudeTyped' /\ Idle'
  <2>1. ClaudeTyped'
    <3>1. UNCHANGED current \/ current' \in {0, started}
      BY <1>6
    <3>2. UNCHANGED handle \/ handle' \in {0, current}
      BY <1>6
    <3> QED BY <1>2, <1>6, <3>1, <3>2, ClaudeKept
  <2> QED BY <1>3, <1>4, <1>5, <1>6, <2>1
<1>7. CASE \/ ClaudeNoBridge \/ ClaudeRemoteFails \/ ClaudeRemoteReady \/ ClaudeReaps \/ ClaudeRemoteStopped
           \/ ClaudeStopRemote \/ \E r \in Runs : ClaudeReportsRemoteExit(r)
  <2>1. UNCHANGED <<proc, output, cut, started>> /\ (at' # "wait" \/ UNCHANGED at)
        /\ current' \in {0, current} /\ handle' \in {0, handle, current}
    BY <1>7 DEF ClaudeNoBridge, ClaudeRemoteFails, ClaudeRemoteReady, ClaudeReaps, ClaudeRemoteStopped, ClaudeStopRemote,
                ClaudeReportsRemoteExit, Failed, EvReady, EvExited
  <2> QED BY <1>6, <2>1
<1>8. CASE ClaudeStartRemote
  <2>1. /\ started' = started + 1 /\ started < MaxRuns
        /\ UNCHANGED <<current, handle, cut>>
        /\ \/ /\ at' = "wait" /\ proc' = [proc EXCEPT ![started'] = "up"]
              /\ Writes(started', "ready", 0)
           \/ at' = "no bridge" /\ UNCHANGED <<proc, output>>
    BY <1>8 DEF ClaudeStartRemote, Started
  <2>2. PICK s \in Runs : s = started'
    BY <1>1, <2>1
  <2>3. CASE at' = "no bridge" /\ UNCHANGED <<proc, output>>
    <3>1. ClaudeTyped'
      BY <1>2, <2>1, <2>3, ClaudeKept
    <3> QED BY <1>3, <1>4, <1>5, <2>1, <2>3, <3>1
  <2>4. CASE /\ at' = "wait" /\ proc' = [proc EXCEPT ![started'] = "up"]
             /\ Writes(started', "ready", 0)
    <3>1. PICK m \in Written : m = line("ready", 0) /\ m.kind = "ready"
      BY LinesWritten DEF WireKinds
    <3>2. output' = [output EXCEPT ![s] = Append(@, m)] /\ proc' = [proc EXCEPT ![s] = "up"]
      BY <2>2, <2>4, <3>1 DEF Writes
    <3>3. output[s] \in Seq(Written) /\ Append(output[s], m) \in Seq(Written)
      BY <1>1, OneMore
    <3>4. /\ output' \in [Runs -> Seq(Written)] /\ output'[s] = Append(output[s], m)
          /\ \A r \in Runs \ {s} : output'[r] = output[r]
      BY <1>1, <3>2, <3>3
    <3>5. /\ proc' \in [Runs -> {"none", "up", "killed", "dead"}] /\ proc'[s] = "up"
          /\ \A r \in Runs \ {s} : proc'[r] = proc[r]
      BY <1>1, <3>2
    <3>6. started' # 0
      <4>1. started \in Nat /\ started' = started + 1
        BY <1>1, <2>1
      <4> QED BY <4>1
    <3>7. ClaudeTyped'
      BY <1>2, <2>1, <3>4, <3>5, <3>6, ClaudeKept
    <3>8. Thought(output[s], script[s].busy # {}) => Thought(output'[s], script[s].busy # {})
      <4>1. PICK b \in BOOLEAN : b = (script[s].busy # {})
        OBVIOUS
      <4> QED BY <3>1, <3>3, <3>4, <4>1, ThoughtAppend
    <3>9. has(output[s], "result") => has(output'[s], "result")
      BY <3>3, <3>4, HasAppend
    <3>10. ~cut => (current' # 0 => proc'[current'] = "up")
      BY <1>1, <1>5, <2>1, <3>5
    <3>11. proc'[started'] = "up"
      BY <2>2, <3>5
    <3> QED BY <1>3, <1>4, <2>1, <3>4, <3>5, <3>7, <3>8, <3>9, <3>10, <3>11
  <2> QED BY <2>1, <2>3, <2>4
<1>9. CASE ClaudeAttachesRemote
  <2>1. /\ at = "wait" /\ output[started] # <<>> /\ Head(output[started]).kind = "ready"
        /\ output' = [output EXCEPT ![started] = Tail(@)]
        /\ handle' = current /\ current' = started /\ at' = "ready"
        /\ UNCHANGED <<started, proc, cut>>
    BY <1>9 DEF ClaudeAttachesRemote
  <2>2. PICK s \in Runs : s = started
    BY <1>1, <2>1
  <2>3. output[s] \in Seq(Written) /\ output[s] # <<>> /\ Tail(output[s]) \in Seq(Written)
    BY <1>1, <2>1, <2>2, OneLess
  <2>4. /\ output' \in [Runs -> Seq(Written)] /\ output'[s] = Tail(output[s])
        /\ \A r \in Runs \ {s} : output'[r] = output[r]
    BY <1>1, <2>1, <2>2, <2>3
  <2>5. ClaudeTyped'
    BY <1>2, <2>1, <2>4, ClaudeKept
  <2>6. Thought(output[s], script[s].busy # {}) => Thought(output'[s], script[s].busy # {})
    <3>1. PICK b \in BOOLEAN : b = (script[s].busy # {})
      OBVIOUS
    <3> QED BY <2>3, <2>4, <3>1, ThoughtTail
  <2>7. has(output[s], "result") => has(output'[s], "result")
    <3>1. Head(output[s]).kind # "result"
      BY <2>1, <2>2
    <3> QED BY <2>3, <2>4, <3>1, HasTail
  <2> QED BY <1>3, <1>4, <1>5, <2>1, <2>4, <2>5, <2>6, <2>7
<1>10. CASE ClaudeKillsRemote
  <2>1. /\ at' \in {"replacing", "stopping"} /\ UNCHANGED <<started, current, handle>>
        /\ proc' = Killed(handle)
        /\ output' = IF handle # 0 THEN [output EXCEPT ![handle] = <<>>] ELSE output
        /\ cut' = (cut \/ handle # 0)
    BY <1>10 DEF ClaudeKillsRemote
  <2>2. /\ proc' \in [Runs -> {"none", "up", "killed", "dead"}]
        /\ \A r \in Runs : proc'[r] = IF r = handle /\ proc[r] = "up" THEN "killed" ELSE proc[r]
    BY <1>1, <2>1, KilledIs
  <2>3. <<>> \in Seq(Written)
    OBVIOUS
  <2>4. output' \in [Runs -> Seq(Written)]
    BY <1>1, <2>1, <2>3
  <2>5. cut' \in BOOLEAN
    BY <2>1
  <2>6. ClaudeTyped'
    BY <1>2, <2>1, <2>2, <2>4, <2>5, ClaudeKept
  <2>7. CASE handle # 0
    BY <1>3, <2>1, <2>6, <2>7
  <2>8. CASE handle = 0
    <3>1. UNCHANGED <<output, proc>>
      BY <2>1, <2>8 DEF Killed
    <3>2. cut' = cut
      BY <1>1, <2>1, <2>8
    <3> QED BY <1>3, <1>4, <1>5, <2>1, <2>6, <3>1, <3>2
  <2> QED BY <2>7, <2>8
<1> QED BY <1>7, <1>8, <1>9, <1>10 DEF ClaudeRuntimeStep

LEMMA ClaudeNextKept ==
  ASSUME ClaudeInv, [Next]_vars
  PROVE  ClaudeInv'
<1>1. ofClaudeRemote' = ofClaudeRemote
  BY HalfKept DEF ofClaudeRemote
<1>2. CASE half = "claude remote" /\ ClaudeRemoteNext
  <2>1. ofClaudeRemote /\ ClaudeTyped /\ Idle
    BY <1>2 DEF ofClaudeRemote, ClaudeInv
  <2>2. CASE \/ ClaudeRuntimeStep \/ ClaudeStartRemote \/ ClaudeStopRemote
             \/ \E r \in Runs : ClaudeReportsRemoteExit(r)
    BY <1>1, <2>1, <2>2, ClaudeRuntimeKept DEF ClaudeInv
  <2>3. CASE ClaudeSendStep \/ ClaudeSend \/ ClaudeAbort
    BY <1>1, <2>1, <2>3, SendKept DEF ClaudeInv
  <2>4. ASSUME NEW r \in Runs, BridgeStep(r) \/ DecisionStep(r)
        PROVE  ClaudeInv'
    BY <1>1, <2>1, <2>4, BridgeKept DEF ClaudeInv
  <2>5. ASSUME NEW r \in Runs,
               \/ ScriptReads(r) \/ ChildThinks(r) \/ ChildAsks(r) \/ ChildResult(r) \/ ChildDies(r) \/ ScriptDies(r)
               \/ \E c \in script[r].closing : ChildCloses(r, c)
        PROVE  ClaudeInv'
    BY <1>1, <2>1, <2>5, ScriptKept DEF ClaudeInv
  <2> QED BY <1>2, <2>2, <2>3, <2>4, <2>5 DEF ClaudeRemoteNext, ReaperStep
<1>3. CASE ~ofClaudeRemote /\ UNCHANGED claudeRemoteVars
  BY <1>1, <1>3 DEF ClaudeInv, ClaudeTyped, claudeRemoteVars
<1>4. CASE UNCHANGED vars
  <2>1. UNCHANGED <<started, current, handle, at, proc, claudeRemoteVars>>
    BY <1>4 DEF vars, eventVars, reportVars, runtimeVars
  <2>2. ClaudeTyped' = ClaudeTyped /\ (Idle => Idle')
    BY <1>1, <2>1 DEF ClaudeTyped, Idle, owed, claudeRemoteVars
  <2> QED BY <1>1, <2>1, <2>2 DEF ClaudeInv, claudeRemoteVars
<1>5. CASE Next /\ half # "claude remote"
  BY <1>3, <1>5
  DEF Next, ofClaudeRemote, CodexLocalOnly, CodexRemoteOnly, ClaudeLocalOnly, AcpOnly, TranscriptOnly
<1> QED BY <1>2, <1>4, <1>5 DEF Next

\* However the sender, the bridge's reader and the script take turns: when no message is
\* under way or worked on, and none was cut short, Claude's engine believes in no turn.
THEOREM NoTurnLeft == Spec => []QuietMeansIdle
<1>1. ClaudeInv /\ [Next]_vars => ClaudeInv'
  BY ClaudeNextKept
<1>2. ASSUME ClaudeInv
      PROVE  QuietMeansIdle
  <2> SUFFICES ASSUME ~cut, outgoing.pc = "none",
                      \A r \in Runs : /\ input[r] = <<>> /\ output[r] = <<>>
                                      /\ script[r].queue = 0 /\ script[r].busy = {}
               PROVE  ~remoteWorking
    BY DEF QuietMeansIdle
  <2>1. \A r \in Runs : ~owed(r)
    BY DEF owed, has
  <2> QED BY <1>2, <2>1 DEF ClaudeInv, Idle
<1> QED BY <1>1, <1>2, InitClaude, PTL DEF Spec
================================================================================
