-------------------------------- MODULE AcpEngine --------------------------------
(***************************************************************************)
(* The ACP engine: an agent behind HTTP.  Sending a message is the whole     *)
(* turn: it runs, waits for the phone's permission, is resumed and polled    *)
(* until the agent is done.  A turn is cancelled through the function that   *)
(* SendUserMessage leaves in turnCancel; turns are numbered by their message.*)
(***************************************************************************)
EXTENDS EngineEvents

VARIABLES
  active,        \* the engine's field
  turnCancel,    \* the turn that is cancelled, 0 for none
  cancelled,     \* turns whose context is cancelled
  step           \* what SendUserMessage is doing

acpVars == <<active, turnCancel, cancelled, step>>

AcpInit == active = FALSE /\ turnCancel = 0 /\ cancelled = {} /\ step = "none"

AcpGoes(pc) == step' = pc

----------------------------------------------------------------------------
\* Start and Stop

AcpStart ==
  /\ Started
  /\ \/ active' = TRUE /\ GoTo("ready")
     \/ UNCHANGED active /\ GoTo("not configured")
  /\ UNCHANGED <<half, phoneVars, current, handle, proc, turnCancel, cancelled, step>>

AcpReady ==
  /\ at = "ready" /\ GoTo("rest") /\ EvReady
  /\ UNCHANGED <<half, phoneVars, current, handle, proc, acpVars>>

AcpNotConfigured ==
  /\ at = "not configured" /\ Failed
  /\ UNCHANGED <<half, phoneVars, current, handle, proc, acpVars>>

cancel(t) == cancelled' = cancelled \cup ({t} \ {0})

AcpStop ==
  /\ at = "rest" /\ active
  /\ active' = FALSE
  /\ turnCancel' = 0
  /\ cancel(turnCancel)
  /\ UNCHANGED <<eventVars, step>>

AcpPressStop ==
  /\ PressStop
  /\ at = "rest" /\ GoTo("abort")
  /\ UNCHANGED <<half, reportVars, current, handle, proc, acpVars>>

AcpAbort ==
  /\ at = "abort" /\ GoTo("rest")
  /\ cancel(turnCancel)
  /\ UNCHANGED <<half, reportVars, phoneVars, current, handle, proc, active, turnCancel, step>>

----------------------------------------------------------------------------
\* SendUserMessage

AcpSend ==
  /\ step = "none" /\ MoreInput
  /\ sends' = sends + 1
  /\ AcpGoes(IF active THEN "cancel previous" ELSE "none")
  /\ UNCHANGED <<half, reportVars, runtimeVars, told, pressed, stops, proc, active, turnCancel,
                 cancelled>>

AcpCancelsPrevious ==
  /\ step = "cancel previous" /\ AcpGoes("tell")
  /\ turnCancel' = sends
  /\ cancel(turnCancel)
  /\ UNCHANGED <<eventVars, active>>

AcpTells ==
  /\ step = "tell" /\ AcpGoes("request")
  /\ EvWorking(TRUE)
  /\ UNCHANGED <<half, reportVars, runtimeVars, proc, active, turnCancel, cancelled>>

\* Mutant: a cancelled turn goes on.
inAnyContext == {"await", "pause", "end"}

\* A request that is cancelled, or that takes a minute, fails.
inContext == IF sends \in cancelled THEN {"end"} ELSE {"await", "pause", "end"}

\* Run, Resume or Poll, and the status of their result
AcpRequest ==
  /\ step = "request"
  /\ \E pc \in inContext : AcpGoes(pc)
  /\ UNCHANGED <<eventVars, active, turnCancel, cancelled>>

\* AwaitPermission, which the turn's context does not end: the phone decides, it
\* fails, or five minutes pass.
AcpAwaits ==
  /\ step = "await"
  /\ AcpGoes("request") \/ AcpGoes("end")
  /\ UNCHANGED <<eventVars, active, turnCancel, cancelled>>

\* Half a second until the next poll
AcpPauses ==
  /\ step = "pause"
  /\ \/ AcpGoes("request")
     \/ sends \in cancelled /\ AcpGoes("end")
  /\ UNCHANGED <<eventVars, active, turnCancel, cancelled>>

AcpEnds ==
  /\ step = "end" /\ AcpGoes("none")
  /\ EvWorking(FALSE)
  /\ UNCHANGED <<half, reportVars, runtimeVars, proc, active, turnCancel, cancelled>>

\* What happens by itself.
AcpRuntimeStep == AcpReady \/ AcpNotConfigured \/ AcpAbort
AcpTurnStep ==
  AcpCancelsPrevious \/ AcpTells \/ AcpRequest \/ AcpAwaits \/ AcpPauses \/ AcpEnds

AcpNext == AcpRuntimeStep \/ AcpTurnStep \/ AcpStart \/ AcpStop \/ AcpPressStop \/ AcpSend
=============================================================================
