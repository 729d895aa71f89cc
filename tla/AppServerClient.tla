---------------------------- MODULE AppServerClient ----------------------------
(***************************************************************************)
(* The client of `codex app-server`: one process per client, spoken to with  *)
(* JSON-RPC over its standard streams.  Two goroutines make calls, the       *)
(* runtime's and that of the message being sent, one call at a time each; a  *)
(* reader per client hands out answers and notifications.  What the          *)
(* app-server does with a request is external.                               *)
(***************************************************************************)
EXTENDS EngineEvents

Callers == {"runtime", "sender"}

VARIABLES
  closed,    \* clients that were closed
  pending,   \* per client, the ids of the calls that wait for an answer
  nextID,    \* per client, the id of its last call
  calls,     \* per caller, the call it makes
  stdin,     \* per client, requests the app-server has not read
  inbox,     \* per client, what the app-server wrote and the reader has not read
  reader,    \* per client, what its reader is doing
  turn,      \* per client, the turn its app-server works on, 0 for none
  turns      \* the last turn that an app-server began

clientVars == <<closed, pending, nextID, calls, stdin, inbox, reader, turn, turns>>

none == [client |-> 0, id |-> 0, method |-> "none", pc |-> "none", got |-> "none"]

ClientInit ==
  /\ closed = {}
  /\ pending = [c \in Runs |-> {}]
  /\ nextID = [c \in Runs |-> 0]
  /\ calls = [who \in Callers |-> none]
  /\ stdin = [c \in Runs |-> <<>>]
  /\ inbox = [c \in Runs |-> <<>>]
  /\ reader = [c \in Runs |-> "none"]
  /\ turn = [c \in Runs |-> 0]
  /\ turns = 0

----------------------------------------------------------------------------
\* Call

BeginCall(who, c, method) ==
  calls' = [calls EXCEPT ![who] = [none EXCEPT !.client = c, !.method = method, !.pc = "register"]]

returns(who, got) == [calls EXCEPT ![who].pc = "done", ![who].got = got]

Returned(who, method, got) ==
  calls[who].pc = "done" /\ calls[who].method = method /\ calls[who].got = got

Register(who) ==
  LET c == calls[who].client IN
  /\ calls[who].pc = "register"
  /\ nextID' = [nextID EXCEPT ![c] = @ + 1]
  /\ \/ c \in closed /\ calls' = returns(who, "error") /\ UNCHANGED pending
     \/ /\ c \notin closed
        /\ pending' = [pending EXCEPT ![c] = @ \cup {nextID'[c]}]
        /\ calls' = [calls EXCEPT ![who].pc = "send", ![who].id = nextID'[c]]
  /\ UNCHANGED <<eventVars, closed, stdin, inbox, reader, turn, turns>>

forget(who) == [pending EXCEPT ![calls[who].client] = @ \ {calls[who].id}]

SendRequest(who) ==
  LET c == calls[who].client IN
  /\ calls[who].pc = "send"
  /\ \/ /\ c \in closed \/ proc[c] = "dead"
        /\ pending' = forget(who) /\ calls' = returns(who, "error")
        /\ UNCHANGED stdin
     \/ /\ c \notin closed /\ proc[c] # "dead"
        /\ stdin' = [stdin EXCEPT ![c] = Append(@, [id |-> calls[who].id,
                                                    method |-> calls[who].method])]
        /\ calls' = [calls EXCEPT ![who].pc = "await"]
        /\ UNCHANGED pending
  /\ UNCHANGED <<eventVars, closed, nextID, inbox, reader, turn, turns>>

\* 30 s without an answer.
CallTimesOut(who) ==
  /\ calls[who].pc = "await"
  /\ pending' = forget(who) /\ calls' = returns(who, "error")
  /\ UNCHANGED <<eventVars, closed, nextID, stdin, inbox, reader, turn, turns>>

----------------------------------------------------------------------------
\* Who is given what, when the calls ids of client c are answered.
answered(c, ids, got) ==
  [who \in Callers |->
    IF calls[who].pc = "await" /\ calls[who].client = c /\ calls[who].id \in ids
    THEN [calls[who] EXCEPT !.pc = "done", !.got = got]
    ELSE calls[who]]

\* dispatchResponse: an answer nobody waits for any more is dropped.
DispatchResponse(c, m) ==
  /\ pending' = [pending EXCEPT ![c] = @ \ {m.n}]
  /\ calls' = answered(c, pending[c] \cap {m.n}, m.got)

\* Mutant: the calls that wait for an answer are left to their timeout.
leaveWaiting(c) == calls

failWaiting(c) == answered(c, pending[c], "error")

\* Close: the process is killed and every call that waits fails.
Close(c) ==
  /\ closed' = closed \cup {c}
  /\ pending' = [pending EXCEPT ![c] = {}]
  /\ calls' = IF c \in closed THEN calls ELSE failWaiting(c)
  /\ proc' = Killed(c)

\* The reader is at the end of the stream; cmd.Wait, which follows Close, may
\* have cut it off.
ReaderEnds(c) ==
  /\ reader[c] = "read" /\ proc[c] = "dead"
  /\ inbox[c] = <<>> \/ c \in closed
  /\ reader' = [reader EXCEPT ![c] = "over"]
  /\ inbox' = [inbox EXCEPT ![c] = <<>>]
  /\ Close(c)
  /\ UNCHANGED <<half, reportVars, runtimeVars, phoneVars, nextID, stdin, turn, turns>>

----------------------------------------------------------------------------
\* The app-server

response(id, got) == [kind |-> "response", n |-> id, got |-> got]
notification(kind, n) == [kind |-> kind, n |-> n, got |-> "none"]

threadOpens == {"thread", "thread again"}
turnStarts == {"turn/start", "turn/start again"}

replies(method, id, next) ==
  IF next # 0
  THEN {<<response(id, "result"), notification("turn/started", next)>>,
        <<notification("turn/started", next), response(id, "result")>>}
  ELSE IF method \in threadOpens
  THEN {<<response(id, "result"), notification("thread/started", 0)>>,
        <<response(id, "oversized"), notification("thread/started", 0)>>,
        <<response(id, "refused")>>}
  ELSE {<<response(id, "result")>>, <<response(id, "refused")>>}

\* A turn is started, unless the request is refused, or joins the one that is going on.
AppServerAnswers(c) ==
  /\ proc[c] = "up" /\ stdin[c] # <<>>
  /\ stdin' = [stdin EXCEPT ![c] = Tail(@)]
  /\ LET q == Head(stdin[c])
     IN \E begins \in {FALSE, q.method \in turnStarts /\ turn[c] = 0} :
         /\ turns' = IF begins THEN turns + 1 ELSE turns
         /\ turn' = IF begins THEN [turn EXCEPT ![c] = turns'] ELSE turn
         /\ \E out \in replies(q.method, q.id, IF begins THEN turns' ELSE 0) :
              inbox' = [inbox EXCEPT ![c] = @ \o out]
  /\ UNCHANGED <<eventVars, closed, pending, nextID, calls, reader>>

AppServerEndsTurn(c) ==
  /\ proc[c] = "up" /\ turn[c] # 0
  /\ inbox' = [inbox EXCEPT ![c] = Append(@, notification("turn/completed", turn[c]))]
  /\ turn' = [turn EXCEPT ![c] = 0]
  /\ UNCHANGED <<eventVars, closed, pending, nextID, calls, stdin, reader, turns>>

\* By itself, or killed.
AppServerDies(c) ==
  /\ proc[c] \in {"up", "killed"}
  /\ proc' = [proc EXCEPT ![c] = "dead"]
  /\ stdin' = [stdin EXCEPT ![c] = <<>>]
  /\ turn' = [turn EXCEPT ![c] = 0]
  /\ UNCHANGED <<half, reportVars, runtimeVars, phoneVars, closed, pending, nextID, calls, inbox,
                 reader, turns>>
=============================================================================
