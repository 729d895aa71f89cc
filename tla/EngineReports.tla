----------------------------- MODULE EngineReports -----------------------------
(***************************************************************************)
(* What an agent engine promises on its event channel about its runs,       *)
(* whatever agent is behind it: a run reports that it is ready once, when   *)
(* Start has brought it up; the exit of a run is reported at most once, and *)
(* only of a run that was reported ready before.  A start that fails        *)
(* reports nothing.                                                         *)
(***************************************************************************)
EXTENDS Naturals

VARIABLES
  started,   \* runs that Start was called for, numbered in order
  failed,    \* those for which it returned an error
  ready,     \* those reported by EvReady
  exited     \* those reported by EvExited

reports == <<started, failed, ready, exited>>

Init == started = 0 /\ failed = {} /\ ready = {} /\ exited = {}

Start == started' = started + 1 /\ UNCHANGED <<failed, ready, exited>>

\* Only the newest run is being started.
Fail ==
  /\ started \notin failed \cup ready \cup {0}
  /\ failed' = failed \cup {started}
  /\ UNCHANGED <<started, ready, exited>>

Ready ==
  /\ started \notin failed \cup ready \cup {0}
  /\ ready' = ready \cup {started}
  /\ UNCHANGED <<started, failed, exited>>

Exit ==
  /\ \E r \in ready \ exited : exited' = exited \cup {r}
  /\ UNCHANGED <<started, failed, ready>>

Next == Start \/ Fail \/ Ready \/ Exit

Spec == Init /\ [][Next]_reports
=============================================================================
