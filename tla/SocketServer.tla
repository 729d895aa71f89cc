------------------------------ MODULE SocketServer ------------------------------
(***************************************************************************)
(* The Socket.IO side of the server, as one client of the CLI meets it:     *)
(* which of its connections the server knows, whether its session or        *)
(* terminal is active, whether the session's turn is open, and which        *)
(* connection answers RPC calls.  The events of one connection are handled  *)
(* one after the other, a statement of the database at a time; those of     *)
(* different connections interleave.                                        *)
(***************************************************************************)
EXTENDS Naturals, Sequences

CONSTANTS
  MaxConns,       \* bound: connections that the client makes
  Calls,          \* the RPC calls of the phone, each made once
  None            \* no answer

ASSUME ServerOK == MaxConns \in Nat /\ None \notin {"answered", "timed out", "not available"}

\* The library numbers connections; 0 is none.
Conns == 1..MaxConns

VARIABLES
  clientType,   \* "session-scoped" or "terminal-scoped"
  far,          \* the server's end of each connection
  up, down,     \* events under way to the server and to the client
  socketData,   \* the connections that the server emits to
  methods,      \* the connection registered for the client's RPC methods
  active,       \* the row of the session or of the terminal
  turnOpen,     \* the session's turn
  seen,         \* the activity that phones were last sent
  serving,      \* the event that is being handled on each connection
  rpc           \* each call: where it was forwarded, how it was answered

serverVars == <<clientType, far, up, down, socketData, methods, active, turnOpen, seen, serving, rpc>>

resting == [op |-> "none", pc |-> "rest", working |-> FALSE]

activity(a, w) == [active |-> a, working |-> w]

ServerInit ==
  /\ clientType \in {"session-scoped", "terminal-scoped"}
  /\ far = [k \in Conns |-> "none"]
  /\ up = [k \in Conns |-> <<>>]
  /\ down = [k \in Conns |-> <<>>]
  /\ socketData = {}
  /\ methods = 0
  /\ active = FALSE
  /\ turnOpen = FALSE
  /\ seen = activity(FALSE, FALSE)
  /\ serving = [k \in Conns |-> resting]
  /\ rpc = [i \in Calls |-> [at |-> 0, answer |-> None]]

----------------------------------------------------------------------------
\* Connections

Begin(k, op, working) ==
  serving' = [serving EXCEPT ![k] = [op |-> op, pc |-> "activity", working |-> working]]

\* The library has told the client that it is connected by the time that its
\* token is looked at.  A token that is not valid ends the connection.
handleConnection(k, valid) ==
  /\ far[k] = "dialing"
  /\ \/ /\ valid
        /\ far' = [far EXCEPT ![k] = "open"]
        /\ down' = [down EXCEPT ![k] = Append(@, [t |-> "connect"])]
        /\ socketData' = socketData \cup {k}
        /\ IF clientType = "terminal-scoped" THEN Begin(k, "hello", FALSE) ELSE UNCHANGED serving
     \/ /\ ~valid
        /\ far' = [far EXCEPT ![k] = "gone"]
        /\ down' = [down EXCEPT ![k] = @ \o <<[t |-> "connect"], [t |-> "end"]>>]
        /\ UNCHANGED <<socketData, serving>>
  /\ UNCHANGED <<clientType, up, methods, active, turnOpen, seen, rpc>>

\* The transport has closed, or a ping went unanswered; what was under way is
\* lost.
Disconnected(k) ==
  /\ far[k] = "open"
  /\ serving[k] = resting
  /\ far' = [far EXCEPT ![k] = "closing"]
  /\ up' = [up EXCEPT ![k] = <<>>]
  /\ Begin(k, "bye", FALSE)
  /\ UNCHANGED <<clientType, down, socketData, methods, active, turnOpen, seen, rpc>>

----------------------------------------------------------------------------
\* What SessionAlive, TerminalAlive, ConnectTerminalScoped and
\* DisconnectEffects do, in this order

next(k, type) == far[k] = "open" /\ serving[k] = resting /\ up[k] # <<>> /\ Head(up[k]).t = type

pop(k) == up' = [up EXCEPT ![k] = Tail(@)]

\* One whose time is more than ten minutes ago is ignored.
Alive(k) ==
  /\ next(k, "alive") /\ pop(k)
  /\ IF Head(up[k]).old THEN UNCHANGED serving ELSE Begin(k, "alive", Head(up[k]).working)
  /\ UNCHANGED <<clientType, far, down, socketData, methods, active, turnOpen, seen, rpc>>

at(k, pc) == serving[k].pc = pc

\* UpdateSessionActivity or UpdateTerminalActivity
UpdateActivity(k) ==
  /\ at(k, "activity")
  /\ active' = (serving[k].op # "bye")
  /\ serving' = [serving EXCEPT ![k].pc = "turn"]
  /\ UNCHANGED <<clientType, far, up, down, socketData, methods, turnOpen, seen, rpc>>

\* Mutant: a connection that ends does not close the turn.
turnAfterReport(k) == serving[k].working \/ (serving[k].op = "bye" /\ turnOpen)

\* EnsureSessionTurnOpen or EnsureSessionTurnClosed
turnAfter(k) == serving[k].working

\* The turn, if this is a session, and the ephemeral to the phones.
EnsureSessionTurn(k) ==
  /\ at(k, "turn")
  /\ turnOpen' = IF clientType = "session-scoped" THEN turnAfter(k) ELSE turnOpen
  /\ seen' = activity(serving[k].op # "bye", serving[k].working)
  /\ serving' = [serving EXCEPT ![k] =
                   IF serving[k].op = "bye" THEN [@ EXCEPT !.pc = "forget"] ELSE resting]
  /\ UNCHANGED <<clientType, far, up, down, socketData, methods, active, rpc>>

----------------------------------------------------------------------------
\* RPC

\* Mutant: the registration goes with any of the client's connections.
anyOf(k) == 0

\* Mutant: the registration outlives its connection.
kept(k) == methods

registeredOnly(k) == IF methods = k THEN 0 ELSE methods

UnregisterAll(k) ==
  /\ at(k, "forget")
  /\ socketData' = socketData \ {k}
  /\ methods' = registeredOnly(k)
  /\ serving' = [serving EXCEPT ![k] = resting]
  /\ far' = [far EXCEPT ![k] = "gone"]
  /\ UNCHANGED <<clientType, up, down, active, turnOpen, seen, rpc>>

Register(k) ==
  /\ next(k, "register") /\ pop(k)
  /\ methods' = k
  /\ UNCHANGED <<clientType, far, down, socketData, active, turnOpen, seen, serving, rpc>>

acked(i, answer) == [rpc EXCEPT ![i] = [at |-> 0, answer |-> answer]]

\* A call of the phone, forwarded to the connection that registered for it.
RPCCall(i) ==
  /\ rpc[i] = [at |-> 0, answer |-> None]
  /\ \/ /\ methods \in socketData
        /\ rpc' = [rpc EXCEPT ![i].at = methods]
        /\ down' = [down EXCEPT ![methods] = Append(@, [t |-> "call", call |-> i])]
     \/ /\ methods \notin socketData
        /\ rpc' = acked(i, "not available")
        /\ UNCHANGED down
  /\ UNCHANGED <<clientType, far, up, socketData, methods, active, turnOpen, seen, serving>>

\* The target's acknowledgement is passed on if the call still waits.
Answered(k) ==
  /\ next(k, "answer") /\ pop(k)
  /\ LET i == Head(up[k]).call IN
       rpc' = IF rpc[i].at = k THEN acked(i, "answered") ELSE rpc
  /\ UNCHANGED <<clientType, far, down, socketData, methods, active, turnOpen, seen, serving>>

\* Mutant: the wait ends only while the target is connected.
ForwardTimesOutIfThere(i) ==
  /\ rpc[i].at \in socketData
  /\ rpc' = acked(i, "timed out")
  /\ UNCHANGED <<clientType, far, up, down, socketData, methods, active, turnOpen, seen, serving>>

\* Thirty seconds without an acknowledgement.
ForwardTimesOut(i) ==
  /\ rpc[i].at # 0
  /\ rpc' = acked(i, "timed out")
  /\ UNCHANGED <<clientType, far, up, down, socketData, methods, active, turnOpen, seen, serving>>

Serve(k) ==
  \/ Alive(k) \/ UpdateActivity(k) \/ EnsureSessionTurn(k) \/ UnregisterAll(k)
  \/ Register(k) \/ Answered(k)
=============================================================================
