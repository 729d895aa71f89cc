------------------------------- MODULE MCEngines -------------------------------
(***************************************************************************)
(* A view for checking the calls of AgentEngines.  The ids of a client's     *)
(* calls are only compared with each other, so that two states that differ   *)
(* by the number of calls made before are the same: an id is seen by how     *)
(* many calls were made since.                                               *)
(***************************************************************************)
EXTENDS AgentEngines

age(c, id) == nextID[c] - id

seenCall(k) == [k EXCEPT !.id = IF k.pc \in {"send", "await"} THEN age(k.client, @) ELSE 0]

seenLine(c, m) == IF m.kind = "response" THEN [m EXCEPT !.n = age(c, @)] ELSE m

View ==
  <<eventVars, codexLocalVars, codexRemoteVars, claudeLocalVars, claudeRemoteVars, acpVars,
    transcriptVars, closed, reader, turn, turns,
    [who \in Callers |-> seenCall(calls[who])],
    [c \in Runs |-> {age(c, id) : id \in pending[c]}],
    [c \in Runs |-> [i \in DOMAIN stdin[c] |-> [stdin[c][i] EXCEPT !.id = age(c, @)]]],
    [c \in Runs |-> [i \in DOMAIN inbox[c] |-> seenLine(c, inbox[c][i])]]>>
=============================================================================
