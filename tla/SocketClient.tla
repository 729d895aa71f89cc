------------------------------ MODULE SocketClient ------------------------------
(***************************************************************************)
(* The CLI's end of a socket: the websocket client with its token refresh,  *)
(* the RPC manager, and what Manager.Start, Close and the keep-alive loop   *)
(* do with them; composed with the server.  Socket.IO itself is external:   *)
(* it dials again after a loss, keeps what is emitted meanwhile, and gives  *)
(* up when the server ends the connection.                                  *)
(***************************************************************************)
EXTENDS SocketServer

CONSTANTS
  Gateway,        \* a proxy refuses a handshake whose token has expired
  MaxLosses,      \* bound: connections that an end loses
  MaxRefused,     \* bound: handshakes and refreshes that fail
  MaxTurns        \* bound: turns that begin or end

ASSUME ClientOK == Gateway \in BOOLEAN /\ {MaxLosses, MaxRefused, MaxTurns} \subseteq Nat

VARIABLES
  start,        \* how far Manager.Start has come
  sock,         \* Client.socket: how often Connect made one, the token that it
                \* dials with, its connection, its state, what it has kept
  connected,    \* Client.connected
  token,        \* Client.token; the first one expires
  refresh,      \* the token refresh, and whether the last one was just now
  bound,        \* the socket that the RPC manager listens on
  pinging,      \* a keep-alive about to be sent
  running,      \* RPC handlers at work: call and connection
  working,      \* the session works on a turn
  expired,      \* the first token is no longer valid
  losses, refused, turns

net == <<far, up, down>>
inner == <<clientType, socketData, methods, active, turnOpen, seen, serving, rpc>>
client == <<sock, connected>>
manager == <<start, token, bound, pinging, running, working, expired>>
clientVars == <<client, manager, refresh, losses, refused, turns>>

vars == <<net, inner, clientVars>>

link == sock.conn

ClientInit ==
  /\ start = "connect"
  /\ sock = [made |-> 0, token |-> "first", conn |-> 0, state |-> "none", kept |-> <<>>]
  /\ connected = FALSE
  /\ token = "first"
  /\ refresh = [pc |-> "idle", recent |-> FALSE]
  /\ bound = 0
  /\ pinging = None
  /\ running = {}
  /\ working = FALSE
  /\ expired = FALSE
  /\ losses = 0 /\ refused = 0 /\ turns = 0

Init == ServerInit /\ ClientInit

valid(t) == ~(expired /\ t = "first")

----------------------------------------------------------------------------
\* Emit, EmitRaw

\* Socket.IO keeps what is emitted while it is not connected; without a socket
\* there is an error.
Emit(es) ==
  CASE sock.state = "up" -> up' = [up EXCEPT ![link] = @ \o es] /\ UNCHANGED sock
    [] sock.state = "none" -> UNCHANGED <<up, sock>>
    [] OTHER -> sock' = [sock EXCEPT !.kept = @ \o es] /\ UNCHANGED up

alive(w) == [t |-> "alive", working |-> w, old |-> FALSE]

register == [t |-> "register"]

\* Bound: one keep-alive is under way.
NoneUnderWay == \A q \in {sock.kept, IF link = 0 THEN <<>> ELSE up[link]} :
                  \A j \in DOMAIN q : q[j].t # "alive"

----------------------------------------------------------------------------
\* Connect, and Manager.Start and Close

\* A new socket: the old one is left, with its listeners and what it kept.
Connect ==
  /\ sock' = [sock EXCEPT !.made = @ + 1, !.token = token, !.state = "fresh", !.kept = <<>>]
  /\ connected' = FALSE
  /\ down' = [k \in Conns |-> IF k = link THEN <<>> ELSE down[k]]

StartConnect ==
  /\ start = "connect"
  /\ start' = "bind"
  /\ Connect
  /\ UNCHANGED <<inner, far, up, token, refresh, bound, pinging, running, working, expired,
                 losses, refused, turns>>

\* SetupSocketHandlers on the socket there is now, then the handlers; they are
\* registered at once if the client is connected.
StartBind ==
  /\ start = "bind"
  /\ start' = "wait"
  /\ bound' = sock.made
  /\ IF connected THEN Emit(<<register>>) ELSE UNCHANGED <<up, sock>>
  /\ UNCHANGED <<inner, far, down, connected, token, refresh, pinging, running, working, expired,
                 losses, refused, turns>>

\* WaitForConnect: then RegisterAll and a first keep-alive, unless it was in vain.
StartWait ==
  /\ start = "wait"
  /\ start' = "done"
  /\ \/ connected /\ Emit(<<register, alive(working)>>)
     \/ ~connected /\ UNCHANGED <<up, sock>>
  /\ UNCHANGED <<inner, far, down, connected, token, refresh, bound, pinging, running, working,
                 expired, losses, refused, turns>>

Close ==
  /\ start = "done"
  /\ start' = "closed"
  /\ sock' = [sock EXCEPT !.state = "none", !.kept = <<>>]
  /\ connected' = FALSE
  /\ UNCHANGED <<net, inner, token, refresh, bound, pinging, running, working, expired,
                 losses, refused, turns>>

----------------------------------------------------------------------------
\* Connections; the library is external

\* A new socket dials at once.  After a loss the library waits for seconds: by
\* then what was under way on the old connection has arrived or is lost.
Dial ==
  /\ sock.state = "fresh" \/ (sock.state = "down" /\ up[link] = <<>>)
  /\ link < MaxConns
  /\ sock' = [sock EXCEPT !.state = "dialing", !.conn = @ + 1]
  /\ far' = [far EXCEPT ![link + 1] = "dialing"]
  /\ UNCHANGED <<inner, up, down, connected, manager, refresh, losses, refused, turns>>

Handshake(k) == handleConnection(k, valid(sock.token)) /\ UNCHANGED clientVars

incoming(type) == link # 0 /\ down[link] # <<>> /\ Head(down[link]).t = type

take == down' = [down EXCEPT ![link] = Tail(@)]

\* The first n events were kept for more than ten minutes.
aged(n, es) ==
  [j \in DOMAIN es |-> IF j <= n /\ es[j].t = "alive" THEN [es[j] EXCEPT !.old = TRUE] ELSE es[j]]

\* "connect": what was kept, perhaps for long, goes out, then the RPC manager
\* registers if this is the socket that it listens on.
Welcome ==
  /\ sock.state = "dialing" /\ incoming("connect") /\ take
  /\ sock' = [sock EXCEPT !.state = "up", !.kept = <<>>]
  /\ connected' = TRUE
  /\ \E n \in 0..Len(sock.kept) :
       up' = IF far[link] = "gone" THEN up
             ELSE [up EXCEPT ![link] = aged(n, sock.kept)
                                         \o (IF bound = sock.made THEN <<register>> ELSE <<>>)]
  /\ UNCHANGED <<inner, far, manager, refresh, losses, refused, turns>>

\* "disconnect" by the server: the library does not dial again.
Ended ==
  /\ sock.state = "up" /\ incoming("end") /\ take
  /\ sock' = [sock EXCEPT !.state = "over"]
  /\ connected' = FALSE
  /\ UNCHANGED <<inner, far, up, manager, refresh, losses, refused, turns>>

\* "disconnect" because the transport is gone.
Lost ==
  /\ sock.state = "up" /\ down' = [down EXCEPT ![link] = <<>>]
  /\ \/ far[link] = "open" /\ losses < MaxLosses /\ losses' = losses + 1
     \/ far[link] \in {"closing", "gone"} /\ ~incoming("end") /\ UNCHANGED losses
  /\ sock' = [sock EXCEPT !.state = "down"]
  /\ connected' = FALSE
  /\ UNCHANGED <<inner, far, up, manager, refresh, refused, turns>>

\* The server notices that the client has left, or loses the connection.
ServerLoses(k) ==
  /\ Disconnected(k)
  /\ LET left == k # link \/ sock.state \in {"down", "fresh", "none"} IN
       \/ left /\ UNCHANGED losses
       \/ ~left /\ losses < MaxLosses /\ losses' = losses + 1
  /\ UNCHANGED <<client, manager, refresh, refused, turns>>

----------------------------------------------------------------------------
\* connect_error and the token refresh

\* One refresh at a time, and none within half a minute of the last.
maybeRefreshToken(looksLikeAuthFailure) ==
  refresh' = IF looksLikeAuthFailure /\ refresh = [pc |-> "idle", recent |-> FALSE]
               THEN [pc |-> "asking", recent |-> TRUE] ELSE refresh

\* The server cannot be reached, or a proxy in front of it refuses the token.
Refused ==
  LET unauthorized == Gateway /\ ~valid(sock.token) IN
  /\ sock.state = "dialing" /\ far[link] = "dialing"
  /\ \/ unauthorized /\ UNCHANGED refused
     \/ ~unauthorized /\ refused < MaxRefused /\ refused' = refused + 1
  /\ far' = [far EXCEPT ![link] = "gone"]
  /\ sock' = [sock EXCEPT !.state = "down"]
  /\ maybeRefreshToken(unauthorized)
  /\ UNCHANGED <<inner, up, down, connected, manager, losses, turns>>

RefreshToken ==
  /\ refresh.pc = "asking"
  /\ \/ /\ token' = "second"
        /\ refresh' = [refresh EXCEPT !.pc = "reconnect"]
        /\ UNCHANGED refused
     \/ /\ refused < MaxRefused /\ refused' = refused + 1
        /\ refresh' = [refresh EXCEPT !.pc = "idle"]
        /\ UNCHANGED token
  /\ UNCHANGED <<net, inner, client, start, bound, pinging, running, working, expired, losses, turns>>

Reconnect ==
  /\ refresh.pc = "reconnect"
  /\ refresh' = [refresh EXCEPT !.pc = "idle"]
  /\ Connect
  /\ UNCHANGED <<inner, far, up, manager, losses, refused, turns>>

HalfMinutePasses ==
  /\ refresh = [pc |-> "idle", recent |-> TRUE]
  /\ refresh' = [refresh EXCEPT !.recent = FALSE]
  /\ UNCHANGED <<net, inner, client, manager, losses, refused, turns>>

Expire ==
  /\ ~expired /\ expired' = TRUE
  /\ UNCHANGED <<net, inner, client, start, token, refresh, bound, pinging, running, working,
                 losses, refused, turns>>

----------------------------------------------------------------------------
\* The keep-alive loop and the session's turns

sending == <<far, down, inner, connected, start, token, refresh, bound, expired, losses, refused>>

\* The loop looks at the session's state and sends what it saw.
KeepAliveTick ==
  /\ start = "done" /\ connected /\ pinging = None /\ NoneUnderWay
  /\ pinging' = alive(working)
  /\ UNCHANGED <<sending, up, sock, running, working, turns>>

KeepAliveSend ==
  /\ pinging # None /\ pinging' = None
  /\ Emit(<<pinging>>)
  /\ UNCHANGED <<sending, running, working, turns>>

\* A session starts or ends a turn, and reports it by the same event.
TurnChanges ==
  /\ clientType = "session-scoped" /\ start = "done"
  /\ turns < MaxTurns /\ turns' = turns + 1
  /\ working' = ~working
  /\ Emit(<<alive(~working)>>)
  /\ UNCHANGED <<sending, pinging, running>>

----------------------------------------------------------------------------
\* RPC requests

\* Only the socket that the RPC manager listens on has a listener for them.
TakeRequest ==
  /\ sock.state = "up" /\ incoming("call") /\ take
  /\ running' = IF bound = sock.made THEN running \cup {<<Head(down[link]).call, link>>} ELSE running
  /\ UNCHANGED <<inner, far, up, client, start, token, refresh, bound, pinging, working, expired,
                 losses, refused, turns>>

\* The handler has run; its answer belongs to the connection of the request.
handleRPCCall(i, k) ==
  /\ <<i, k>> \in running
  /\ running' = running \ {<<i, k>>}
  /\ up' = IF k = link /\ sock.state = "up"
             THEN [up EXCEPT ![k] = Append(@, [t |-> "answer", call |-> i])] ELSE up
  /\ UNCHANGED <<sending, sock, pinging, working, turns>>

----------------------------------------------------------------------------

Server(k) == Serve(k) /\ UNCHANGED clientVars

Call(i) == RPCCall(i) /\ UNCHANGED clientVars

TimesOut(i) == ForwardTimesOut(i) /\ UNCHANGED clientVars

\* What the CLI and the library do by themselves.
Client ==
  \/ StartConnect \/ StartBind \/ StartWait \/ Dial \/ Welcome \/ Ended
  \/ RefreshToken \/ Reconnect \/ HalfMinutePasses
  \/ KeepAliveSend \/ TakeRequest
  \/ \E i \in Calls, k \in Conns : handleRPCCall(i, k)

Next ==
  \/ Client \/ KeepAliveTick \/ Close
  \/ Lost \/ Refused \/ Expire \/ TurnChanges
  \/ \E k \in Conns : Server(k) \/ Handshake(k) \/ ServerLoses(k)
  \/ \E i \in Calls : Call(i) \/ TimesOut(i)

Spec == Init /\ [][Next]_vars

\* Goroutines and timers run, and each end notices that the other is gone.
\* Nothing is assumed of calls, turns, losses, refusals and the token's expiry.
Fairness ==
  /\ WF_vars(Client) /\ WF_vars(KeepAliveTick) /\ WF_vars(Lost /\ losses' = losses)
  /\ \A k \in Conns :
       WF_vars(Server(k) \/ Handshake(k) \/ (ServerLoses(k) /\ losses' = losses))
  /\ \A i \in Calls : WF_vars(TimesOut(i))

FairSpec == Spec /\ Fairness

----------------------------------------------------------------------------
\* Properties

\* Type invariant: the server emits to connections it has not closed, and the
\* one that is registered for methods is among them.
TypeOK ==
  /\ far \in [Conns -> {"none", "dialing", "open", "closing", "gone"}]
  /\ socketData = {k \in Conns : far[k] \in {"open", "closing"}}
  /\ methods \in {0} \cup socketData
  /\ link \in 0..MaxConns
  /\ bound <= sock.made
  /\ connected <=> sock.state = "up"

\* While the socket that the RPC manager listens on is connected and its
\* registration has been handled, calls reach it: the end of an older connection,
\* which the server may notice much later, does not take the registration away
\* (RPCRegistry.UnregisterAll).
RPCRoutable ==
  /\ sock.state = "up" /\ bound = sock.made
  /\ far[link] = "open"
  /\ \A j \in DOMAIN up[link] : up[link][j].t # "register"
  => methods = link

\* Once connections are no longer lost, the server's rows and what phones are
\* told settle on what is true: active while the client is connected, a turn
\* open while the session works on one.  The effects of an old connection's end
\* and of the new one's keep-alives interleave, and a keep-alive may report a
\* turn that is over.
PresenceSettles ==
  <>[](start = "done" =>
        LET turn == connected /\ working IN
        /\ active = connected
        /\ turnOpen = turn
        /\ seen = activity(connected, turn))

\* Every call of the phone is answered, whatever becomes of the connection that
\* it was forwarded to (the timeout of RPCForward).
CallEnds == \A i \in Calls : rpc[i].at # 0 ~> rpc[i].answer # None
=============================================================================
