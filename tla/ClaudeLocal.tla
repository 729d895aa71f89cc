------------------------------ MODULE ClaudeLocal ------------------------------
(***************************************************************************)
(* The local half of the Claude engine: a Claude process on the terminal, a *)
(* goroutine that finds out its session, and the scanner that follows the   *)
(* session's file.                                                          *)
(***************************************************************************)
EXTENDS EngineEvents

VARIABLES
  waiting,         \* runs whose goroutine waits for the process
  watching,        \* per run, how far watchLocalSession has come
  scanners,        \* per run, its scanner
  localScanner,    \* the run whose scanner the engine holds
  oldScanner       \* the one that is stopped with handle

claudeLocalVars == <<waiting, watching, scanners, localScanner, oldScanner>>

ClaudeLocalInit ==
  /\ waiting = {}
  /\ watching = [r \in Runs |-> "none"]
  /\ scanners = [r \in Runs |-> "none"]
  /\ localScanner = 0 /\ oldScanner = 0

\* detachLocalLocked
Detach(next) ==
  /\ handle' = current /\ oldScanner' = localScanner
  /\ current' = next /\ localScanner' = 0

----------------------------------------------------------------------------
\* startLocal

\* Process.Start
spawned(r) == [proc EXCEPT ![r] = "up"]

ClaudeStartLocal ==
  /\ Started
  /\ \/ GoTo("attach") /\ proc' = spawned(started')
     \/ GoTo("not spawned") /\ UNCHANGED proc
  /\ UNCHANGED <<half, phoneVars, current, handle, claudeLocalVars>>

\* NewProcess finds no launcher, or the process does not start.
ClaudeNotSpawned ==
  /\ at = "not spawned" /\ Failed
  /\ UNCHANGED <<half, phoneVars, current, handle, proc, claudeLocalVars>>

ClaudeAttaches ==
  /\ at = "attach" /\ GoTo("ready")
  /\ Detach(started)
  /\ UNCHANGED <<half, reportVars, phoneVars, proc, waiting, watching, scanners>>

ClaudeReady ==
  /\ at = "ready" /\ GoTo("replace")
  /\ EvReady
  /\ UNCHANGED <<half, phoneVars, current, handle, proc, claudeLocalVars>>

\* The goroutines start when the old process is stopped.
ClaudeWatches ==
  /\ at = "replaced" /\ GoTo("rest")
  /\ waiting' = waiting \cup {started}
  /\ watching' = [watching EXCEPT ![started] = "looking"]
  /\ UNCHANGED <<half, reportVars, phoneVars, current, handle, proc, scanners, localScanner,
                 oldScanner>>

----------------------------------------------------------------------------
\* stopLocalAndWait, and localStopHandle.stop for either caller

ClaudeStopLocal ==
  /\ at = "rest" /\ current # 0
  /\ GoTo("stop")
  /\ Detach(0)
  /\ UNCHANGED <<half, reportVars, phoneVars, proc, waiting, watching, scanners>>

ClaudeKills ==
  /\ at \in {"replace", "stop"}
  /\ GoTo(IF at = "replace" THEN "replacing" ELSE "stopping")
  /\ proc' = Killed(handle)
  /\ scanners' = IF oldScanner # 0 THEN [scanners EXCEPT ![oldScanner] = "stopped"] ELSE scanners
  /\ oldScanner' = 0
  /\ UNCHANGED <<half, reportVars, phoneVars, current, handle, waiting, watching, localScanner>>

\* The exit is known, or two seconds have passed.
ClaudeStopped ==
  /\ at \in {"replacing", "stopping"}
  /\ GoTo(IF at = "replacing" THEN "replaced" ELSE "rest")
  /\ handle' = 0
  /\ UNCHANGED <<half, reportVars, phoneVars, current, proc, claudeLocalVars>>

----------------------------------------------------------------------------
\* The process and its goroutines

ClaudeEnds(r) ==
  /\ proc[r] \in {"up", "killed"}
  /\ proc' = [proc EXCEPT ![r] = "dead"]
  /\ UNCHANGED <<half, reportVars, phoneVars, runtimeVars, claudeLocalVars>>

ClaudeReportsExit(r) ==
  /\ r \in waiting /\ proc[r] = "dead"
  /\ waiting' = waiting \ {r}
  /\ EvExited(r)
  /\ UNCHANGED <<half, phoneVars, runtimeVars, proc, watching, scanners, localScanner, oldScanner>>

\* handleUUID: the launcher tells the session's id; the goroutine waits for the
\* session's file, whatever becomes of the run meanwhile.
ClaudeNamed(r) ==
  /\ watching[r] = "looking"
  /\ watching' = [watching EXCEPT ![r] = "named"]
  /\ UNCHANGED <<half, reportVars, phoneVars, runtimeVars, proc, waiting, scanners, localScanner,
                 oldScanner>>

\* startLocalScanner, first part
scans(r) ==
  /\ watching' = [watching EXCEPT ![r] = "found"]
  /\ scanners' = [scanners EXCEPT ![r] = "running"]

\* Without the file in time only a new file in the directory is awaited.
ClaudeFileAwaited(r) ==
  /\ watching[r] = "named"
  /\ \/ scans(r)
     \/ watching' = [watching EXCEPT ![r] = "unnamed"] /\ UNCHANGED scanners
  /\ UNCHANGED <<half, reportVars, phoneVars, runtimeVars, proc, waiting, localScanner, oldScanner>>

looking(r) == watching[r] \in {"looking", "unnamed"}

\* A new session file in the directory; it may be another session's.
ClaudeDetected(r) ==
  /\ looking(r)
  /\ scans(r)
  /\ UNCHANGED <<half, reportVars, phoneVars, runtimeVars, proc, waiting, localScanner, oldScanner>>

\* The context of a run that is no longer current is done.
ClaudeGivesUp(r) ==
  /\ looking(r) /\ r # current
  /\ watching' = [watching EXCEPT ![r] = "over"]
  /\ UNCHANGED <<half, reportVars, phoneVars, runtimeVars, proc, waiting, scanners, localScanner,
                 oldScanner>>

\* Mutant: it keeps whatever scanner it made.
keepsAny(r) == TRUE

\* startLocalScanner keeps the scanner of the current run only.
keeps(r) == r = current

ClaudeAttachesScanner(r) ==
  /\ watching[r] = "found"
  /\ watching' = [watching EXCEPT ![r] = "over"]
  /\ \/ keeps(r) /\ localScanner' = r /\ UNCHANGED scanners
     \/ ~keeps(r) /\ scanners' = [scanners EXCEPT ![r] = "stopped"] /\ UNCHANGED localScanner
  /\ UNCHANGED <<half, reportVars, phoneVars, runtimeVars, proc, waiting, oldScanner>>

\* What happens by itself.
ClaudeLocalStep ==
  \/ ClaudeNotSpawned \/ ClaudeAttaches \/ ClaudeReady \/ ClaudeWatches
  \/ ClaudeKills \/ ClaudeStopped
  \/ \E r \in Runs : \/ ClaudeReportsExit(r) \/ ClaudeGivesUp(r)
                     \/ ClaudeFileAwaited(r) \/ ClaudeAttachesScanner(r)
                     \/ (proc[r] = "killed" /\ ClaudeEnds(r))

ClaudeLocalNext ==
  \/ ClaudeLocalStep \/ ClaudeStartLocal \/ ClaudeStopLocal
  \/ \E r \in Runs : ClaudeEnds(r) \/ ClaudeNamed(r) \/ ClaudeDetected(r)
=============================================================================
