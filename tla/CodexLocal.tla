------------------------------- MODULE CodexLocal -------------------------------
(***************************************************************************)
(* The local half of the Codex engine: a Codex process on the terminal.  A  *)
(* single goroutine waits for it and puts its exit on a channel of one      *)
(* place, which the probe of Start, the stop of the process and the         *)
(* goroutine that reports the exit all read.  The process may have a child, *)
(* which is in its group and survives when the process alone is killed.     *)
(***************************************************************************)
EXTENDS EngineEvents

VARIABLES
  waitErrCh,     \* runs whose exit is on their channel
  forwarding,    \* runs whose goroutine waits for the exit to report it
  child          \* per run, the child of its process

codexLocalVars == <<waitErrCh, forwarding, child>>

CodexLocalInit == waitErrCh = {} /\ forwarding = {} /\ child = [r \in Runs |-> "none"]

----------------------------------------------------------------------------
\* startLocal

\* Mutant: the exit is waited for from the beginning.
CodexForwardsFromStart ==
  /\ Started /\ GoTo("discover")
  /\ proc' = [proc EXCEPT ![started'] = "up"]
  /\ forwarding' = forwarding \cup {started'}
  /\ UNCHANGED <<half, phoneVars, current, handle, waitErrCh, child>>

CodexStartLocal ==
  /\ Started
  /\ \/ /\ GoTo("discover")
        /\ proc' = [proc EXCEPT ![started'] = "up"]
        /\ child' \in {child, [child EXCEPT ![started'] = "up"]}
     \/ GoTo("not spawned") /\ UNCHANGED <<proc, child>>
  /\ UNCHANGED <<half, phoneVars, current, handle, waitErrCh, forwarding>>

CodexNotSpawned ==
  /\ at = "not spawned" /\ Failed
  /\ UNCHANGED <<half, phoneVars, current, handle, proc, codexLocalVars>>

\* No rollout is found, or it cannot be read: cmd.Process.Kill, of the process alone.
GivenUp == Failed /\ proc' = Killed(started)

\* The rollout is looked for while the agent may come and go.
CodexDiscovers ==
  /\ at = "discover"
  /\ \/ GoTo("tail") /\ UNCHANGED <<reportVars, proc>>
     \/ GivenUp
  /\ UNCHANGED <<half, phoneVars, current, handle, codexLocalVars>>

CodexTails ==
  /\ at = "tail"
  /\ \/ GoTo("probe") /\ UNCHANGED <<reportVars, proc>>
     \/ GivenUp
  /\ UNCHANGED <<half, phoneVars, current, handle, codexLocalVars>>

\* Mutant: the exit that the probe saw is forgotten.
CodexProbesOnly ==
  /\ at = "probe"
  /\ GoTo("attach")
  /\ waitErrCh' = waitErrCh \ {started}
  /\ UNCHANGED <<half, reportVars, phoneVars, current, handle, proc, forwarding, child>>

\* An exit within the probe's delay fails the start.
CodexProbes ==
  /\ at = "probe"
  /\ \/ started \in waitErrCh /\ waitErrCh' = waitErrCh \ {started} /\ Failed
     \/ GoTo("attach") /\ UNCHANGED <<waitErrCh, reportVars>>
  /\ UNCHANGED <<half, phoneVars, current, handle, proc, forwarding, child>>

CodexAttaches ==
  /\ at = "attach" /\ GoTo("replace")
  /\ handle' = current
  /\ current' = started
  /\ UNCHANGED <<half, reportVars, phoneVars, proc, codexLocalVars>>

CodexReady ==
  /\ at = "replaced" /\ GoTo("rest")
  /\ EvReady
  /\ forwarding' = forwarding \cup {started}
  /\ UNCHANGED <<half, phoneVars, current, handle, proc, waitErrCh, child>>

----------------------------------------------------------------------------
\* stopLocalAndWait, and localStopHandle.stop for either caller

CodexStopLocal ==
  /\ at = "rest" /\ current # 0
  /\ handle' = current
  /\ current' = 0
  /\ GoTo("stop")
  /\ UNCHANGED <<half, reportVars, phoneVars, proc, codexLocalVars>>

\* Mutant: only the process is killed.
parentOnly(r) == child

\* stopLocalCmd kills the process group, also when its leader has ended.
groupKilled(r) == IF r # 0 /\ child[r] = "up" THEN [child EXCEPT ![r] = "killed"] ELSE child

CodexKills ==
  /\ at \in {"replace", "stop"}
  /\ GoTo(IF at = "replace" THEN "replacing" ELSE "stopping")
  /\ proc' = Killed(handle) /\ child' = groupKilled(handle)
  /\ UNCHANGED <<half, reportVars, phoneVars, current, handle, waitErrCh, forwarding>>

\* It takes the exit, unless the reporting goroutine has it or two seconds pass.
CodexStopped ==
  /\ at \in {"replacing", "stopping"}
  /\ GoTo(IF at = "replacing" THEN "replaced" ELSE "rest")
  /\ handle' = 0
  /\ waitErrCh' \in {waitErrCh, waitErrCh \ {handle}}
  /\ UNCHANGED <<half, reportVars, phoneVars, current, proc, forwarding, child>>

----------------------------------------------------------------------------
\* The process and the goroutines that wait for it

CodexEnds(r) ==
  /\ proc[r] \in {"up", "killed"}
  /\ proc' = [proc EXCEPT ![r] = "dead"]
  /\ waitErrCh' = waitErrCh \cup {r}
  /\ UNCHANGED <<half, reportVars, phoneVars, runtimeVars, forwarding, child>>

ChildEnds(r) ==
  /\ child[r] \in {"up", "killed"}
  /\ child' = [child EXCEPT ![r] = "none"]
  /\ UNCHANGED <<half, reportVars, phoneVars, runtimeVars, proc, waitErrCh, forwarding>>

CodexReportsExit(r) ==
  /\ r \in forwarding \cap waitErrCh
  /\ forwarding' = forwarding \ {r}
  /\ waitErrCh' = waitErrCh \ {r}
  /\ EvExited(r)
  /\ UNCHANGED <<half, phoneVars, runtimeVars, proc, child>>

\* What happens by itself.
CodexLocalStep ==
  \/ CodexNotSpawned \/ CodexDiscovers \/ CodexTails
  \/ CodexProbes \/ CodexAttaches \/ CodexReady \/ CodexKills \/ CodexStopped
  \/ \E r \in Runs : \/ CodexReportsExit(r)
                     \/ (proc[r] = "killed" /\ CodexEnds(r))
                     \/ (child[r] = "killed" /\ ChildEnds(r))

CodexLocalNext ==
  \/ CodexLocalStep \/ CodexStartLocal \/ CodexStopLocal
  \/ \E r \in Runs : CodexEnds(r) \/ ChildEnds(r)
=============================================================================
