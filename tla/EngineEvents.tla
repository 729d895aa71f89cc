------------------------------ MODULE EngineEvents ------------------------------
(***************************************************************************)
(* What the halves of the agent engines have in common: the runs that the   *)
(* session's runtime starts, one at a time, their processes, and what is    *)
(* put on the event channel about them.  The local and the remote half of   *)
(* an engine share nothing else, so that each is studied by itself.         *)
(***************************************************************************)
EXTENDS Naturals, Sequences, FiniteSets

CONSTANTS
  Halves,     \* the halves that are studied
  MaxRuns,    \* bound: runs of one half
  MaxInputs   \* bound: runs, messages and stops together

ASSUME EventsOK ==
  /\ Halves \subseteq {"codex remote", "codex local", "codex transcript",
                       "claude remote", "claude local", "claude transcript", "acp"}
  /\ {MaxRuns, MaxInputs} \subseteq Nat

Runs == 1..MaxRuns

VARIABLES
  half,       \* the half that is running
  started, failed, ready, exited,   \* see EngineReports
  told,       \* the last EvWorking
  pressed,    \* the phone has pressed Stop and is still told of a turn
  at,         \* how far the runtime's goroutine has come in Start, Stop or Abort
  current,    \* the run whose process the engine holds, 0 for none
  handle,     \* the run that is being stopped
  proc,       \* the processes
  sends, stops

reportVars == <<started, failed, ready, exited>>
runtimeVars == <<at, current, handle>>
phoneVars == <<told, pressed, sends, stops>>
eventVars == <<half, reportVars, runtimeVars, phoneVars, proc>>

EventsInit ==
  /\ half \in Halves
  /\ started = 0 /\ failed = {} /\ ready = {} /\ exited = {}
  /\ told = FALSE /\ pressed = FALSE /\ sends = 0 /\ stops = 0
  /\ at = "rest" /\ current = 0 /\ handle = 0
  /\ proc = [r \in Runs |-> "none"]

----------------------------------------------------------------------------

MoreInput == started + sends + stops < MaxInputs

GoTo(pc) == at' = pc

Started ==
  /\ at = "rest" /\ started < MaxRuns /\ MoreInput
  /\ started' = started + 1
  /\ UNCHANGED <<failed, ready, exited>>

\* Start returns an error.
Failed ==
  /\ GoTo("rest")
  /\ failed' = failed \cup {started}
  /\ UNCHANGED <<started, ready, exited>>

EvReady == ready' = ready \cup {started} /\ UNCHANGED <<started, failed, exited>>

EvExited(r) == exited' = exited \cup {r} /\ UNCHANGED <<started, failed, ready>>

EvWorking(w) ==
  /\ told' = w
  /\ pressed' = (pressed /\ w)
  /\ UNCHANGED <<sends, stops>>

\* The phone offers Stop while it is told of a turn.
PressStop ==
  /\ told /\ MoreInput
  /\ stops' = stops + 1
  /\ pressed' = TRUE
  /\ UNCHANGED <<told, sends>>

Killed(r) == IF r # 0 /\ proc[r] = "up" THEN [proc EXCEPT ![r] = "killed"] ELSE proc
=============================================================================
