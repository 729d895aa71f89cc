------------------------------- MODULE MCSession -------------------------------
(***************************************************************************)
(* Constants for checking SessionSystem on small instances.  Each budget    *)
(* bounds how often every stimulus happens in a run, and with it the        *)
(* generations, the revisions and the lengths of the queues.                *)
(***************************************************************************)
EXTENDS SessionSystem

CONSTANTS fast, smart, req1   \* two models, the only request id

MCRequestOf == [a \in Awaits |-> req1]

MCConfig == [model |-> fast, permissionMode |-> "default"]

OtherModel == [model |-> smart, permissionMode |-> None]
NoAsking == [model |-> None, permissionMode |-> "yolo"]

BothSettings == [model |-> smart, permissionMode |-> "yolo"]

SwitchModel == {OtherModel}
StopAsking == {NoAsking}
SwitchBoth == {BothSettings}

withBudget(b) == [k \in Stimuli |-> IF k \in DOMAIN b THEN b[k] ELSE 0]

MessagesBudget ==
  withBudget([any |-> 3, switch |-> 2, inbound |-> 2, startFails |-> 1, runExits |-> 1,
              config |-> 1, sendFails |-> 1])

ControlBudget ==
  withBudget([any |-> 3, switch |-> 2, takeback |-> 1, send |-> 1, abort |-> 1,
              startFails |-> 1, runExits |-> 1, config |-> 1, sendFails |-> 1,
              shutdown |-> 1, identify |-> 1, working |-> 1])

PersistenceBudget ==
  withBudget([any |-> 4, connect |-> 2, disconnect |-> 1, switch |-> 1, config |-> 1,
              configTimesOut |-> 1, timerExpires |-> 2, updateTimesOut |-> 1, startup |-> 1])

PermissionBudget ==
  withBudget([any |-> 4, inbound |-> 1, asks |-> 2, sendAsks |-> 1, decisions |-> 2,
              ackTimesOut |-> 1, awaitCancelled |-> 1, config |-> 1, abort |-> 1])

MCSessions == {MessagesBudget, ControlBudget, PermissionBudget}
MCPersistence == {PersistenceBudget}
MCWedge == {withBudget([any |-> 4, inbound |-> 1, sendAsks |-> 1, decisions |-> 1, config |-> 1])}
MCOrphan == {withBudget([any |-> 2, switch |-> 1, inbound |-> 1])}
MCStale == {withBudget([any |-> 2, switch |-> 2])}
MCDurable == {withBudget([any |-> 4, connect |-> 1, switch |-> 1, config |-> 1, timerExpires |-> 1])}
=============================================================================
