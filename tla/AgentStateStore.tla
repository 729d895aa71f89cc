---------------------------- MODULE AgentStateStore ----------------------------
(***************************************************************************)
(* What the pipeline that persists agentState promises to whoever reads the *)
(* session row: a session keeps making new revisions of its agentState, and *)
(* each version of the row publishes a revision that exists and is no older *)
(* than the one it replaces.  Publication may skip revisions and may repeat *)
(* the current one; it never goes back.                                     *)
(***************************************************************************)
EXTENDS Naturals

VARIABLES
  latest,     \* the newest revision of the session
  version,    \* the version of the row
  published   \* the revision the row holds

vars == <<latest, version, published>>

Init ==
  /\ latest = 0
  /\ version \in Nat
  /\ published = 0

Change ==
  /\ latest' = latest + 1
  /\ UNCHANGED <<version, published>>

Publish ==
  /\ version' = version + 1
  /\ published' \in published..latest
  /\ UNCHANGED latest

Next == Change \/ Publish

Spec == Init /\ [][Next]_vars
=============================================================================
