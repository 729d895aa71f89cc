------------------------- MODULE SocketClient_proofs -------------------------
(***************************************************************************)
(* The types of the client's socket and the server's registration, and that *)
(* calls reach the socket that the RPC manager listens on (RPCRoutable), for *)
(* every number of connections and every set of calls.  The inductive       *)
(* invariant has three parts: the types, the life of a connection's two ends *)
(* (Ends), and where a registration may still be under way (Registering).    *)
(***************************************************************************)
EXTENDS SocketClient, TLAPS

UpEvent == [t : {"register"}] \cup [t : {"alive"}, working : BOOLEAN, old : BOOLEAN]
             \cup [t : {"answer"}, call : Calls]

DownEvent == [t : {"connect", "end"}] \cup [t : {"call"}, call : Calls]

Socket == [made : Nat, token : {"first", "second"}, conn : 0..MaxConns,
           state : {"none", "fresh", "dialing", "up", "down", "over"}, kept : Seq(UpEvent)]

Handling == [op : {"none", "hello", "alive", "bye"}, pc : {"rest", "activity", "turn", "forget"},
             working : BOOLEAN]

Typed ==
  /\ far \in [Conns -> {"none", "dialing", "open", "closing", "gone"}]
  /\ up \in [Conns -> Seq(UpEvent)]
  /\ down \in [Conns -> Seq(DownEvent)]
  /\ serving \in [Conns -> Handling]
  /\ sock \in Socket
  /\ connected \in BOOLEAN
  /\ token \in {"first", "second"}
  /\ bound \in Nat
  /\ pinging \in {None} \cup [t : {"alive"}, working : BOOLEAN, old : BOOLEAN]
  /\ running \subseteq Calls \X Conns
  /\ working \in BOOLEAN

\* A connection that the server closes is served its end; what the client has
\* not dialled the server does not know; a socket that is more than made has a
\* connection, and one that is up has been let in or sent away.
Ends ==
  /\ \A k \in Conns :
       /\ far[k] = "closing" <=> serving[k].op = "bye"
       /\ serving[k].pc = "forget" => serving[k].op = "bye"
       /\ far[k] \in {"none", "dialing"} => down[k] = <<>>
       /\ k > link => far[k] = "none"
  /\ sock.state \in {"dialing", "up", "down", "over"} => link # 0
  /\ sock.state = "up" => far[link] # "dialing"
  /\ sock.state # "none" => sock.made > 0
  /\ start \in {"bind", "wait"} => sock.made > 0

noRegister(q) == \A j \in DOMAIN q : q[j].t # "register"

\* A registration is under way only after SetupSocketHandlers, never among what
\* the library kept, and, as long as the socket it was set up on is the one
\* there is, only on that socket's connection.
Registering ==
  /\ noRegister(sock.kept)
  /\ start \in {"connect", "bind"} => bound = 0 /\ \A k \in Conns : noRegister(up[k])
  /\ bound = sock.made =>
       \A k \in Conns : k # link \/ sock.state = "fresh" => noRegister(up[k])

IInv == Typed /\ TypeOK /\ Ends /\ Registering /\ RPCRoutable

----------------------------------------------------------------------------
\* Queues of events

LEMMA Concat ==
  ASSUME NEW q \in Seq(UpEvent), NEW s \in Seq(UpEvent)
  PROVE  /\ q \o s \in Seq(UpEvent)
         /\ noRegister(q \o s) <=> noRegister(q) /\ noRegister(s)
  <1> DEFINE c == q \o s
  <1>1. /\ c \in Seq(UpEvent) /\ Len(c) = Len(q) + Len(s)
        /\ \A j \in 1..Len(q) : c[j] = q[j]
        /\ \A j \in 1..Len(s) : c[j + Len(q)] = s[j]
        /\ \A j \in (Len(q) + 1)..Len(c) : c[j] = s[j - Len(q)] /\ j - Len(q) \in 1..Len(s)
    OBVIOUS
  <1>2. Len(q) \in Nat /\ Len(s) \in Nat /\ DOMAIN q = 1..Len(q) /\ DOMAIN s = 1..Len(s)
        /\ DOMAIN c = 1..(Len(q) + Len(s))
    BY <1>1
  <1> HIDE DEF c
  <1>3. ASSUME noRegister(c) PROVE noRegister(q) /\ noRegister(s)
    BY <1>1, <1>2, <1>3 DEF noRegister
  <1>4. ASSUME noRegister(q), noRegister(s) PROVE noRegister(c)
    <2> SUFFICES ASSUME NEW j \in DOMAIN c PROVE c[j].t # "register"
      BY DEF noRegister
    <2>1. CASE j <= Len(q)
      BY <1>1, <1>2, <1>4, <2>1 DEF noRegister
    <2>2. CASE j > Len(q)
      <3>1. c[j] = s[j - Len(q)] /\ j - Len(q) \in DOMAIN s
        BY <1>1, <1>2, <2>2
      <3> QED BY <3>1, <1>4 DEF noRegister
    <2> QED BY <1>2, <2>1, <2>2
  <1> QED BY <1>1, <1>3, <1>4 DEF c

LEMMA One ==
  ASSUME NEW e \in UpEvent
  PROVE  <<e>> \in Seq(UpEvent) /\ (noRegister(<<e>>) <=> e.t # "register")
  BY DEF noRegister

LEMMA NoneKept == <<>> \in Seq(UpEvent) /\ noRegister(<<>>)
  BY DEF noRegister

LEMMA NoneDown == <<>> \in Seq(DownEvent)
  OBVIOUS

LEMMA Longer == ASSUME NEW q \in Seq(DownEvent), NEW e \in DownEvent PROVE Append(q, e) \in Seq(DownEvent)
  OBVIOUS

LEMMA First ==
  ASSUME NEW q \in Seq(UpEvent), q # <<>>
  PROVE  /\ Head(q) \in UpEvent /\ Tail(q) \in Seq(UpEvent)
         /\ noRegister(q) <=> Head(q).t # "register" /\ noRegister(Tail(q))
  <1> DEFINE c == Tail(q)
  <1>1. /\ Head(q) \in UpEvent /\ Head(q) = q[1] /\ c \in Seq(UpEvent) /\ Len(c) = Len(q) - 1
        /\ \A j \in 1..Len(c) : c[j] = q[j + 1]
        /\ \A j \in 2..Len(q) : c[j - 1] = q[j] /\ j - 1 \in 1..Len(c)
        /\ Len(q) \in Nat \ {0}
    OBVIOUS
  <1>2. DOMAIN q = 1..Len(q) /\ DOMAIN c = 1..Len(c)
    OBVIOUS
  <1> HIDE DEF c
  <1>3. ASSUME noRegister(q) PROVE Head(q).t # "register" /\ noRegister(c)
    BY SMTT(40), <1>1, <1>2, <1>3 DEF noRegister
  <1>4. ASSUME Head(q).t # "register", noRegister(c) PROVE noRegister(q)
    <2> SUFFICES ASSUME NEW j \in DOMAIN q PROVE q[j].t # "register"
      BY DEF noRegister
    <2>1. CASE j = 1
      BY <1>1, <1>2, <1>4, <2>1
    <2>2. CASE j # 1
      BY <1>1, <1>2, <1>4, <2>2 DEF noRegister
    <2> QED BY <2>1, <2>2
  <1>5. noRegister(q) <=> Head(q).t # "register" /\ noRegister(c)
    BY <1>3, <1>4
  <1> QED BY <1>1, <1>5 DEF c

LEMMA Events ==
  /\ register \in UpEvent /\ register.t = "register"
  /\ \A w \in BOOLEAN : alive(w) \in UpEvent /\ alive(w).t = "alive"
  /\ \A i \in Calls : [t |-> "answer", call |-> i] \in UpEvent
  BY DEF register, alive, UpEvent

----------------------------------------------------------------------------
\* Sockets

LEMMA Bounded == MaxConns \in Nat
  BY ServerOK

LEMMA SocketIs ==
  ASSUME NEW s \in Socket
  PROVE  /\ s.made \in Nat /\ s.conn \in 0..MaxConns /\ s.conn \in Nat
         /\ s.token \in {"first", "second"} /\ s.kept \in Seq(UpEvent)
  <1>1. /\ s.made \in Nat /\ s.conn \in 0..MaxConns
        /\ s.token \in {"first", "second"} /\ s.kept \in Seq(UpEvent)
    BY DEF Socket
  <1>2. s.conn \in Nat
    BY <1>1, Bounded
  <1> QED BY <1>1, <1>2

LEMMA Remade ==
  ASSUME NEW s \in Socket, NEW t \in {"first", "second"}, NEW c,
         c = [s EXCEPT !.made = @ + 1, !.token = t, !.state = "fresh", !.kept = <<>>]
  PROVE  /\ c \in Socket /\ c.made = s.made + 1 /\ c.conn = s.conn /\ c.state = "fresh"
         /\ c.kept = <<>>
  <1>1. s.made + 1 \in Nat /\ <<>> \in Seq(UpEvent)
    BY SocketIs, NoneKept
  <1> QED BY <1>1 DEF Socket

LEMMA Dialled ==
  ASSUME NEW s \in Socket, s.conn < MaxConns, NEW c,
         c = [s EXCEPT !.state = "dialing", !.conn = @ + 1]
  PROVE  /\ c \in Socket /\ c.made = s.made /\ c.conn = s.conn + 1 /\ c.state = "dialing"
         /\ c.kept = s.kept
  <1>1. s.conn + 1 \in 0..MaxConns
    BY Bounded, SocketIs
  <1> QED BY <1>1 DEF Socket

LEMMA Emptied ==
  ASSUME NEW s \in Socket, NEW x \in {"none", "up"}, NEW c,
         c = [s EXCEPT !.state = x, !.kept = <<>>]
  PROVE  /\ c \in Socket /\ c.made = s.made /\ c.conn = s.conn /\ c.state = x
         /\ c.kept = <<>>
  BY NoneKept DEF Socket

LEMMA Turned ==
  ASSUME NEW s \in Socket, NEW x \in {"down", "over"}, NEW c, c = [s EXCEPT !.state = x]
  PROVE  /\ c \in Socket /\ c.made = s.made /\ c.conn = s.conn /\ c.state = x
         /\ c.kept = s.kept
  BY DEF Socket

----------------------------------------------------------------------------
\* What an emission does

LEMMA Emitted ==
  ASSUME IInv, NEW es \in Seq(UpEvent), Emit(es)
  PROVE  /\ up' \in [Conns -> Seq(UpEvent)] /\ sock' \in Socket
         /\ sock'.made = sock.made /\ sock'.conn = sock.conn /\ sock'.state = sock.state
         /\ sock.state = "up" => sock' = sock
         /\ noRegister(es) \/ sock.state = "up" => noRegister(sock'.kept)
         /\ \A k \in Conns : k # link => up'[k] = up[k]
         /\ noRegister(es) => \A k \in Conns : noRegister(up'[k]) <=> noRegister(up[k])
         /\ ~noRegister(es) /\ sock.state = "up" => ~noRegister(up'[link])
  <1> USE DEF Typed, IInv
  <1>1. CASE sock.state = "up"
    <2>1. link \in Conns
      BY <1>1 DEF Ends, Conns, TypeOK, link
    <2>2. up' = [up EXCEPT ![link] = @ \o es] /\ sock' = sock
      BY <1>1 DEF Emit
    <2> DEFINE q == up[link] \o es
    <2>3. q \in Seq(UpEvent) /\ (noRegister(q) <=> noRegister(up[link]) /\ noRegister(es))
      BY <2>1, Concat
    <2>4. up' = [up EXCEPT ![link] = q]
      BY <2>2
    <2> HIDE DEF q
    <2>5. up' \in [Conns -> Seq(UpEvent)] /\ up'[link] = q /\ \A k \in Conns : k # link => up'[k] = up[k]
      BY <2>1, <2>3, <2>4
    <2> QED BY <1>1, <2>1, <2>2, <2>3, <2>5 DEF Registering
  <1>2. CASE sock.state = "none"
    <2>1. up' = up /\ sock' = sock
      BY <1>2 DEF Emit
    <2> QED BY <1>2, <2>1 DEF Registering
  <1>3. CASE sock.state \notin {"up", "none"}
    <2>1. sock' = [sock EXCEPT !.kept = sock.kept \o es] /\ up' = up
      BY <1>3 DEF Emit
    <2> DEFINE q == sock.kept \o es
    <2>2. sock.kept \in Seq(UpEvent)
      BY SocketIs
    <2>3. q \in Seq(UpEvent) /\ (noRegister(q) <=> noRegister(sock.kept) /\ noRegister(es))
      BY <2>2, Concat
    <2>4. sock' = [sock EXCEPT !.kept = q]
      BY <2>1
    <2> HIDE DEF q
    <2>5. /\ sock' \in Socket /\ sock'.kept = q
          /\ sock'.made = sock.made /\ sock'.conn = sock.conn /\ sock'.state = sock.state
      BY <2>3, <2>4 DEF Socket
    <2> QED BY <1>3, <2>1, <2>3, <2>5 DEF Registering
  <1> QED BY <1>1, <1>2, <1>3

LEMMA AliveEmitted ==
  ASSUME NEW w \in BOOLEAN
  PROVE  <<alive(w)>> \in Seq(UpEvent) /\ noRegister(<<alive(w)>>)
  BY Events, One

\* A step that leaves the connections and the socket as they are, and no
\* registration put under way or taken.
LEMMA Steady ==
  ASSUME IInv, Typed', TypeOK',
         sock'.made = sock.made, sock'.conn = sock.conn, sock'.state = sock.state,
         noRegister(sock'.kept), UNCHANGED <<far, methods, bound>>,
         start' = start \/ start' \notin {"connect", "bind", "wait"},
         \A k \in Conns : noRegister(up'[k]) <=> noRegister(up[k]),
         \A k \in Conns : far[k] \in {"none", "dialing"} => down'[k] = <<>>,
         \A k \in Conns : /\ serving'[k].op = "bye" <=> serving[k].op = "bye"
                          /\ serving'[k].pc = "forget" => serving'[k].op = "bye"
  PROVE  IInv'
  <1>1. Ends'
    BY DEF Ends, IInv, link
  <1>2. Registering'
    BY DEF Registering, IInv, link
  <1>3. RPCRoutable'
    <2> SUFFICES ASSUME sock'.state = "up", bound' = sock'.made, far'[link'] = "open", noRegister(up'[link'])
                 PROVE  methods' = link'
      BY DEF RPCRoutable, noRegister
    <2>1. link' = link /\ link \in Conns
      BY DEF link, IInv, Ends, TypeOK, Conns
    <2>2. noRegister(up[link])
      BY <2>1
    <2> QED BY <2>1, <2>2 DEF RPCRoutable, IInv, noRegister
  <1> QED BY <1>1, <1>2, <1>3 DEF IInv

----------------------------------------------------------------------------
\* Manager.Start, Close and the client's loops

\* What a new socket is.
LEMMA Connected ==
  ASSUME IInv, Connect
  PROVE  /\ sock' \in Socket /\ sock'.made = sock.made + 1 /\ sock'.state = "fresh"
         /\ sock'.conn = sock.conn /\ noRegister(sock'.kept)
         /\ down' \in [Conns -> Seq(DownEvent)]
         /\ \A k \in Conns : down[k] = <<>> => down'[k] = <<>>
         /\ connected' = FALSE
  <1>1. /\ sock' \in Socket /\ sock'.made = sock.made + 1 /\ sock'.state = "fresh"
        /\ sock'.conn = sock.conn /\ sock'.kept = <<>>
    BY Remade DEF Connect, IInv, Typed
  <1>2. <<>> \in Seq(DownEvent)
    BY NoneDown
  <1>3. down' \in [Conns -> Seq(DownEvent)] /\ \A k \in Conns : down[k] = <<>> => down'[k] = <<>>
    BY <1>2 DEF Connect, IInv, Typed
  <1> QED BY <1>1, <1>3, NoneKept DEF Connect

LEMMA StartConnectKeeps == ASSUME IInv, StartConnect PROVE IInv'
  <1> USE DEF StartConnect, IInv, link, inner
  <1>0. /\ sock' \in Socket /\ sock'.made = sock.made + 1 /\ sock'.state = "fresh"
        /\ sock'.conn = sock.conn /\ noRegister(sock'.kept)
        /\ down' \in [Conns -> Seq(DownEvent)]
        /\ \A k \in Conns : down[k] = <<>> => down'[k] = <<>>
        /\ connected' = FALSE
    BY Connected
  <1>9. sock.made \in Nat /\ bound \in Nat
    BY SocketIs DEF Typed
  <1>1. Typed'
    BY <1>0 DEF Typed
  <1>2. TypeOK'
    BY <1>0, <1>9 DEF TypeOK
  <1>3. Ends'
    <2>1. start' = "bind" /\ sock'.made > 0 /\ sock'.state = "fresh" /\ UNCHANGED <<far, serving>>
      BY <1>0, <1>9
    <2> QED BY <1>0, <2>1 DEF Ends
  <1>4. Registering'
    BY <1>0, <1>9 DEF Registering, TypeOK
  <1>5. RPCRoutable'
    BY <1>0 DEF RPCRoutable
  <1> QED BY <1>1, <1>2, <1>3, <1>4, <1>5

LEMMA ReconnectKeeps == ASSUME IInv, Reconnect PROVE IInv'
  <1> USE DEF Reconnect, IInv, link, inner, manager
  <1>0. /\ sock' \in Socket /\ sock'.made = sock.made + 1 /\ sock'.state = "fresh"
        /\ sock'.conn = sock.conn /\ noRegister(sock'.kept)
        /\ down' \in [Conns -> Seq(DownEvent)]
        /\ \A k \in Conns : down[k] = <<>> => down'[k] = <<>>
        /\ connected' = FALSE
    BY Connected
  <1>9. sock.made \in Nat /\ bound \in Nat
    BY SocketIs DEF Typed
  <1>1. Typed'
    BY <1>0 DEF Typed
  <1>2. TypeOK'
    BY <1>0, <1>9 DEF TypeOK
  <1>3. Ends'
    BY <1>0, <1>9 DEF Ends
  <1>4. Registering'
    BY <1>0, <1>9 DEF Registering, TypeOK
  <1>5. RPCRoutable'
    BY <1>0 DEF RPCRoutable
  <1> QED BY <1>1, <1>2, <1>3, <1>4, <1>5

LEMMA StartBindKeeps == ASSUME IInv, StartBind PROVE IInv'
  <1> USE DEF StartBind, IInv, link, inner
  <1>0. sock.made \in Nat /\ bound \in Nat /\ link \in 0..MaxConns
    BY SocketIs DEF Typed, TypeOK
  <1>1. CASE connected
    <2>1. sock.state = "up" /\ link \in Conns
      BY <1>1 DEF TypeOK, Ends, Conns
    <2>2. <<register>> \in Seq(UpEvent) /\ ~noRegister(<<register>>) /\ Emit(<<register>>)
      BY <1>1, Events, One
    <2>3. /\ up' \in [Conns -> Seq(UpEvent)] /\ sock' = sock /\ ~noRegister(up'[link])
          /\ \A k \in Conns : k # link => up'[k] = up[k]
      BY <2>1, <2>2, Emitted
    <2>4. Typed'
      BY <2>3, <1>0 DEF Typed
    <2>5. TypeOK'
      BY <2>3, <1>0 DEF TypeOK
    <2>6. Ends'
      BY <2>3 DEF Ends
    <2>7. Registering'
      BY <2>1, <2>3 DEF Registering
    <2>8. RPCRoutable'
      BY <2>1, <2>3 DEF RPCRoutable, noRegister
    <2> QED BY <2>4, <2>5, <2>6, <2>7, <2>8
  <1>2. CASE ~connected
    <2>3. sock' = sock /\ up' = up /\ sock.state # "up"
      BY <1>2 DEF TypeOK
    <2>4. Typed'
      BY <2>3, <1>0 DEF Typed
    <2>5. TypeOK'
      BY <2>3, <1>0 DEF TypeOK
    <2>6. Ends'
      BY <2>3 DEF Ends
    <2>7. Registering'
      BY <2>3 DEF Registering
    <2>8. RPCRoutable'
      BY <2>3 DEF RPCRoutable
    <2> QED BY <2>4, <2>5, <2>6, <2>7, <2>8
  <1> QED BY <1>1, <1>2

LEMMA StartWaitKeeps == ASSUME IInv, StartWait PROVE IInv'
  <1> USE DEF StartWait, IInv, link, inner
  <1>0. sock.made \in Nat /\ bound \in Nat /\ link \in 0..MaxConns
    BY SocketIs DEF Typed, TypeOK
  <1>1. CASE connected
    <2>1. sock.state = "up" /\ link \in Conns /\ connected /\ Emit(<<register, alive(working)>>)
      BY <1>1 DEF TypeOK, Ends, Conns
    <2>2. <<register, alive(working)>> \in Seq(UpEvent) /\ ~noRegister(<<register, alive(working)>>)
      BY Events DEF noRegister, Typed
    <2>3. /\ up' \in [Conns -> Seq(UpEvent)] /\ sock' = sock /\ ~noRegister(up'[link])
          /\ \A k \in Conns : k # link => up'[k] = up[k]
      BY <2>1, <2>2, Emitted
    <2>4. Typed'
      BY <2>3, <1>0 DEF Typed
    <2>5. TypeOK'
      BY <2>3, <1>0 DEF TypeOK
    <2>6. Ends'
      BY <2>3 DEF Ends
    <2>7. Registering'
      BY <2>1, <2>3 DEF Registering
    <2>8. RPCRoutable'
      BY <2>1, <2>3 DEF RPCRoutable, noRegister
    <2> QED BY <2>4, <2>5, <2>6, <2>7, <2>8
  <1>2. CASE ~connected
    <2>3. sock' = sock /\ up' = up /\ sock.state # "up"
      BY <1>2 DEF TypeOK
    <2>4. Typed'
      BY <2>3, <1>0 DEF Typed
    <2>5. TypeOK'
      BY <2>3, <1>0 DEF TypeOK
    <2>9. noRegister(sock'.kept)
      BY <2>3 DEF Registering
    <2>6. Ends'
      BY <2>3 DEF Ends
    <2> QED BY <2>3, <2>4, <2>5, <2>6, <2>9, Steady DEF Ends
  <1> QED BY <1>1, <1>2

LEMMA CloseKeeps == ASSUME IInv, Close PROVE IInv'
  <1> USE DEF Close, IInv, link, inner, net
  <1>1. /\ sock' \in Socket /\ sock'.made = sock.made /\ sock'.conn = sock.conn
        /\ sock'.state = "none" /\ sock'.kept = <<>>
    BY Emptied DEF Typed
  <1>2. Typed'
    BY <1>1 DEF Typed
  <1>3. TypeOK'
    BY <1>1 DEF TypeOK
  <1>4. Ends'
    BY <1>1 DEF Ends
  <1>5. Registering'
    BY <1>1, NoneKept DEF Registering
  <1>6. RPCRoutable'
    BY <1>1 DEF RPCRoutable
  <1> QED BY <1>2, <1>3, <1>4, <1>5, <1>6

LEMMA TickKeeps == ASSUME IInv, KeepAliveTick PROVE IInv'
  <1> USE DEF KeepAliveTick, IInv, sending, inner
  <1>1. pinging' \in [t : {"alive"}, working : BOOLEAN, old : BOOLEAN]
    BY DEF alive, Typed
  <1>2. Typed'
    BY <1>1 DEF Typed
  <1>3. TypeOK' /\ Ends' /\ Registering' /\ RPCRoutable'
    BY DEF TypeOK, Ends, Registering, RPCRoutable, link
  <1> QED BY <1>2, <1>3

\* An emission that is no registration.
LEMMA EmitKeeps ==
  ASSUME IInv, NEW es \in Seq(UpEvent), noRegister(es), Emit(es),
         UNCHANGED <<far, down, inner, connected, start, token, bound, running>>,
         pinging' \in {None} \cup [t : {"alive"}, working : BOOLEAN, old : BOOLEAN], working' \in BOOLEAN
  PROVE  IInv'
  <1> USE DEF IInv, inner
  <1>1. /\ up' \in [Conns -> Seq(UpEvent)] /\ sock' \in Socket
        /\ sock'.made = sock.made /\ sock'.conn = sock.conn /\ sock'.state = sock.state
        /\ noRegister(sock'.kept)
        /\ \A k \in Conns : noRegister(up'[k]) <=> noRegister(up[k])
    BY Emitted
  <1>2. Typed'
    BY <1>1 DEF Typed
  <1>3. TypeOK'
    BY <1>1 DEF TypeOK, link
  <1> QED BY <1>1, <1>2, <1>3, Steady DEF Ends

LEMMA SendKeeps == ASSUME IInv, KeepAliveSend PROVE IInv'
  <1>1. pinging \in UpEvent /\ pinging.t = "alive"
    BY DEF KeepAliveSend, IInv, Typed, UpEvent
  <1>2. <<pinging>> \in Seq(UpEvent) /\ noRegister(<<pinging>>)
    BY <1>1, One
  <1> QED BY <1>2, EmitKeeps DEF KeepAliveSend, sending, IInv, Typed

LEMMA TurnKeeps == ASSUME IInv, TurnChanges PROVE IInv'
  <1>1. <<alive(~working)>> \in Seq(UpEvent) /\ noRegister(<<alive(~working)>>)
    BY AliveEmitted
  <1> QED BY <1>1, EmitKeeps DEF TurnChanges, sending, IInv, Typed

----------------------------------------------------------------------------
\* Connections

LEMMA DialKeeps == ASSUME IInv, Dial PROVE IInv'
  <1> USE DEF Dial, IInv, inner, manager
  <1>0. /\ sock.made \in Nat /\ sock.conn \in Nat /\ MaxConns \in Nat /\ sock.conn < MaxConns
        /\ sock.conn + 1 \in Conns
    BY Bounded, SocketIs DEF Typed, Conns, link
  <1>1. /\ sock' \in Socket /\ sock'.made = sock.made /\ sock'.conn = sock.conn + 1
        /\ sock'.state = "dialing" /\ sock'.kept = sock.kept
    BY <1>0, Dialled DEF Typed
  <1>2. /\ far' \in [Conns -> {"none", "dialing", "open", "closing", "gone"}]
        /\ far'[sock.conn + 1] = "dialing" /\ far[sock.conn + 1] = "none"
        /\ \A k \in Conns : k # sock.conn + 1 => far'[k] = far[k]
    <2>1. far[sock.conn + 1] = "none"
      BY <1>0 DEF Ends, link
    <2>2. far' = [far EXCEPT ![sock.conn + 1] = "dialing"]
      BY DEF link
    <2> QED BY <1>0, <2>1, <2>2 DEF Typed
  <1>3. Typed'
    BY <1>1, <1>2 DEF Typed
  <1>4. TypeOK'
    <2>1. socketData' = {k \in Conns : far'[k] \in {"open", "closing"}}
      BY <1>0, <1>2 DEF TypeOK
    <2> QED BY <1>0, <1>1, <1>2, <2>1 DEF TypeOK, Conns, link
  <1>5. Ends'
    <2>1. ASSUME NEW k \in Conns
          PROVE  /\ far'[k] = "closing" <=> serving'[k].op = "bye"
                 /\ serving'[k].pc = "forget" => serving'[k].op = "bye"
                 /\ far'[k] \in {"none", "dialing"} => down'[k] = <<>>
                 /\ k > link' => far'[k] = "none"
      <3>1. CASE k = sock.conn + 1
        BY <1>0, <1>1, <1>2, <3>1 DEF Ends, link
      <3>2. CASE k # sock.conn + 1
        BY <1>0, <1>1, <1>2, <3>2 DEF Ends, link, Conns
      <3> QED BY <3>1, <3>2
    <2> QED BY <1>0, <1>1, <2>1 DEF Ends, link
  <1>6. Registering'
    <2>1. ASSUME bound' = sock'.made, NEW k \in Conns, k # link' \/ sock'.state = "fresh"
          PROVE  noRegister(up'[k])
      <3>1. CASE k = link
        <4>1. sock.state = "fresh" \/ up[k] = <<>>
          BY <3>1
        <4> QED BY <1>1, <2>1, <4>1, NoneKept DEF Registering
      <3>2. CASE k # link
        BY <1>1, <2>1, <3>2 DEF Registering
      <3> QED BY <3>1, <3>2
    <2> QED BY <1>1, <2>1 DEF Registering
  <1>7. RPCRoutable'
    BY <1>1 DEF RPCRoutable
  <1> QED BY <1>3, <1>4, <1>5, <1>6, <1>7

\* What taking an event from the socket's connection does.
LEMMA Taken ==
  ASSUME IInv, link # 0, take, down[link] # <<>>
  PROVE  /\ link \in Conns
         /\ down' \in [Conns -> Seq(DownEvent)]
         /\ \A k \in Conns : far[k] \in {"none", "dialing"} => down'[k] = <<>>
         /\ far[link] \notin {"none", "dialing"}
  <1>1. link \in Conns
    BY DEF IInv, TypeOK, Conns
  <1>2. far[link] \notin {"none", "dialing"}
    BY <1>1 DEF IInv, Ends
  <1>3. Tail(down[link]) \in Seq(DownEvent)
    BY <1>1 DEF IInv, Typed
  <1>4. down' \in [Conns -> Seq(DownEvent)] /\ \A k \in Conns : k # link => down'[k] = down[k]
    BY <1>1, <1>3 DEF take, IInv, Typed
  <1> QED BY <1>1, <1>2, <1>4 DEF IInv, Ends

LEMMA Aged ==
  ASSUME NEW q \in Seq(UpEvent), NEW n, noRegister(q)
  PROVE  aged(n, q) \in Seq(UpEvent) /\ noRegister(aged(n, q))
  <1> DEFINE a == aged(n, q)
  <1>1. \A j \in 1..Len(q) : a[j] \in UpEvent /\ a[j].t = q[j].t
    <2> SUFFICES ASSUME NEW j \in 1..Len(q) PROVE a[j] \in UpEvent /\ a[j].t = q[j].t
      OBVIOUS
    <2>1. q[j] \in UpEvent /\ j \in DOMAIN q
      OBVIOUS
    <2>2. a[j] = IF j <= n /\ q[j].t = "alive" THEN [q[j] EXCEPT !.old = TRUE] ELSE q[j]
      BY Zenon, <2>1 DEF aged
    <2>3. CASE j <= n /\ q[j].t = "alive"
      <3>1. q[j] \in [t : {"alive"}, working : BOOLEAN, old : BOOLEAN]
        BY <2>1, <2>3 DEF UpEvent
      <3>2. /\ [q[j] EXCEPT !.old = TRUE] \in [t : {"alive"}, working : BOOLEAN, old : BOOLEAN]
            /\ [q[j] EXCEPT !.old = TRUE].t = q[j].t
        BY <3>1
      <3> QED BY <2>2, <2>3, <3>2 DEF UpEvent
    <2>4. CASE ~(j <= n /\ q[j].t = "alive")
      BY <2>1, <2>2, <2>4
    <2> QED BY <2>3, <2>4
  <1>2. DOMAIN a = 1..Len(q) /\ Len(q) \in Nat
    BY DEF aged
  <1>3. a = [j \in 1..Len(q) |-> a[j]]
    BY DEF aged
  <1> HIDE DEF a
  <1>4. a \in Seq(UpEvent)
    BY <1>1, <1>2, <1>3
  <1>5. noRegister(a)
    BY <1>1, <1>2 DEF noRegister
  <1> QED BY <1>4, <1>5 DEF a

LEMMA WelcomeKeeps == ASSUME IInv, Welcome PROVE IInv'
  <1> USE DEF Welcome, IInv, inner, manager
  <1>0. sock.made \in Nat /\ sock.kept \in Seq(UpEvent) /\ noRegister(sock.kept)
    BY SocketIs DEF Typed, Registering
  <1>1. /\ link \in Conns
        /\ down' \in [Conns -> Seq(DownEvent)]
        /\ \A k \in Conns : far[k] \in {"none", "dialing"} => down'[k] = <<>>
        /\ far[link] \notin {"none", "dialing"}
    BY Taken DEF incoming
  <1>2. /\ sock' \in Socket /\ sock'.made = sock.made /\ sock'.conn = sock.conn
        /\ sock'.state = "up" /\ sock'.kept = <<>>
    BY Emptied DEF Typed
  <1> DEFINE r == IF bound = sock.made THEN <<register>> ELSE <<>>
  <1> PICK n \in 0..Len(sock.kept) :
        up' = IF far[link] = "gone" THEN up ELSE [up EXCEPT ![link] = aged(n, sock.kept) \o r]
    OBVIOUS
  <1> DEFINE es == aged(n, sock.kept)
             q == es \o r
  <1>e. es \in Seq(UpEvent) /\ noRegister(es)
    BY <1>0, Aged
  <1>3. r \in Seq(UpEvent) /\ (noRegister(r) <=> bound # sock.made)
    BY Events, One, NoneKept
  <1>4. q \in Seq(UpEvent) /\ (noRegister(q) <=> bound # sock.made)
    <2> HIDE DEF r, es
    <2> QED BY <1>e, <1>3, Concat
  <1>5. up' = IF far[link] = "gone" THEN up ELSE [up EXCEPT ![link] = q]
    OBVIOUS
  <1> HIDE DEF q
  <1>6. /\ up' \in [Conns -> Seq(UpEvent)]
        /\ \A k \in Conns : k # link => up'[k] = up[k]
        /\ far[link] # "gone" => up'[link] = q
        /\ far[link] = "gone" => up'[link] = up[link]
    BY ZenonT(60), <1>1, <1>4, <1>5 DEF Typed
  <1>7. Typed'
    BY <1>1, <1>2, <1>6 DEF Typed
  <1>8. TypeOK'
    BY <1>2 DEF TypeOK, link
  <1>9. Ends'
    BY <1>1, <1>2 DEF Ends, link
  <1>10. Registering'
    <2>1. noRegister(sock'.kept)
      BY <1>2, NoneKept
    <2>2. start' \in {"connect", "bind"} => bound' = 0 /\ \A k \in Conns : noRegister(up'[k])
      <3> SUFFICES ASSUME start \in {"connect", "bind"}
                   PROVE  bound = 0 /\ \A k \in Conns : noRegister(up'[k])
        OBVIOUS
      <3>1. bound = 0 /\ sock.made # 0 /\ \A k \in Conns : noRegister(up[k])
        BY <1>0 DEF Registering, Ends
      <3>2. noRegister(q)
        BY <3>1, <1>4
      <3> QED BY <3>1, <3>2, <1>6
    <2>3. bound' = sock'.made => \A k \in Conns : k # link' \/ sock'.state = "fresh" => noRegister(up'[k])
      BY <1>2, <1>6 DEF Registering, link
    <2> QED BY <2>1, <2>2, <2>3 DEF Registering
  <1>11. RPCRoutable'
    BY ZenonT(60), <1>1, <1>2, <1>4, <1>6 DEF RPCRoutable, link, noRegister
  <1> QED BY <1>7, <1>8, <1>9, <1>10, <1>11

LEMMA EndedKeeps == ASSUME IInv, Ended PROVE IInv'
  <1> USE DEF Ended, IInv, inner, manager
  <1>1. /\ link \in Conns
        /\ down' \in [Conns -> Seq(DownEvent)]
        /\ \A k \in Conns : far[k] \in {"none", "dialing"} => down'[k] = <<>>
    BY Taken DEF incoming
  <1>2. /\ sock' \in Socket /\ sock'.made = sock.made /\ sock'.conn = sock.conn
        /\ sock'.state = "over" /\ sock'.kept = sock.kept
    BY Turned DEF Typed
  <1>3. Typed'
    BY <1>1, <1>2 DEF Typed
  <1>4. TypeOK'
    BY <1>2 DEF TypeOK, link
  <1>5. Ends'
    BY <1>1, <1>2 DEF Ends, link
  <1>6. Registering'
    BY <1>2 DEF Registering, link
  <1>7. RPCRoutable'
    BY <1>2 DEF RPCRoutable
  <1> QED BY <1>3, <1>4, <1>5, <1>6, <1>7

LEMMA LostKeeps == ASSUME IInv, Lost PROVE IInv'
  <1> USE DEF Lost, IInv, inner, manager
  <1>1. link \in Conns /\ far[link] \notin {"none", "dialing"}
    BY DEF Ends, TypeOK, Conns
  <1>2. /\ down' \in [Conns -> Seq(DownEvent)]
        /\ \A k \in Conns : far[k] \in {"none", "dialing"} => down'[k] = <<>>
    BY <1>1, NoneDown DEF Typed, Ends
  <1>3. /\ sock' \in Socket /\ sock'.made = sock.made /\ sock'.conn = sock.conn
        /\ sock'.state = "down" /\ sock'.kept = sock.kept
    BY Turned DEF Typed
  <1>4. Typed'
    BY <1>2, <1>3 DEF Typed
  <1>5. TypeOK'
    BY <1>3 DEF TypeOK, link
  <1>6. Ends'
    BY <1>2, <1>3 DEF Ends, link
  <1>7. Registering'
    BY <1>3 DEF Registering, link
  <1>8. RPCRoutable'
    BY <1>3 DEF RPCRoutable
  <1> QED BY <1>4, <1>5, <1>6, <1>7, <1>8

LEMMA RefusedKeeps == ASSUME IInv, Refused PROVE IInv'
  <1> USE DEF Refused, IInv, inner, manager
  <1>1. link \in Conns /\ far[link] = "dialing"
    BY DEF Ends, TypeOK, Conns
  <1>2. /\ far' \in [Conns -> {"none", "dialing", "open", "closing", "gone"}]
        /\ far'[link] = "gone" /\ \A k \in Conns : k # link => far'[k] = far[k]
    BY <1>1 DEF Typed
  <1>3. /\ sock' \in Socket /\ sock'.made = sock.made /\ sock'.conn = sock.conn
        /\ sock'.state = "down" /\ sock'.kept = sock.kept
    BY Turned DEF Typed
  <1>4. Typed'
    BY <1>2, <1>3 DEF Typed
  <1>5. TypeOK'
    <2>1. socketData' = {k \in Conns : far'[k] \in {"open", "closing"}}
      BY <1>1, <1>2 DEF TypeOK
    <2> QED BY <1>2, <1>3, <2>1 DEF TypeOK, link
  <1>6. Ends'
    <2>1. ASSUME NEW k \in Conns
          PROVE  /\ far'[k] = "closing" <=> far[k] = "closing"
                 /\ far'[k] \in {"none", "dialing"} => far[k] \in {"none", "dialing"}
                 /\ far[k] = "none" => far'[k] = "none"
      BY <1>1, <1>2
    <2> QED BY <1>3, <2>1 DEF Ends, link
  <1>7. Registering'
    BY <1>3 DEF Registering, link
  <1>8. RPCRoutable'
    BY <1>3 DEF RPCRoutable
  <1> QED BY <1>4, <1>5, <1>6, <1>7, <1>8

----------------------------------------------------------------------------
\* The server's ends

LEMMA HandshakeKeeps == ASSUME IInv, NEW k \in Conns, Handshake(k) PROVE IInv'
  <1> USE DEF Handshake, IInv, clientVars, client, manager
  <1>0. /\ far[k] = "dialing" /\ serving[k].op # "bye" /\ serving[k].pc # "forget"
        /\ UNCHANGED <<clientType, up, methods, active, turnOpen, seen, rpc>>
    BY DEF handleConnection, Ends
  <1>1. /\ far' \in [Conns -> {"none", "dialing", "open", "closing", "gone"}]
        /\ far'[k] \in {"open", "gone"} /\ \A j \in Conns : j # k => far'[j] = far[j]
        /\ socketData' = IF far'[k] = "open" THEN socketData \cup {k} ELSE socketData
    BY DEF handleConnection, Typed
  <1>2. [t |-> "connect"] \in DownEvent /\ [t |-> "end"] \in DownEvent
    BY DEF DownEvent
  <1>3. down' \in [Conns -> Seq(DownEvent)] /\ \A j \in Conns : j # k => down'[j] = down[j]
    <2>1. down[k] \in Seq(DownEvent)
      BY DEF Typed
    <2>2. /\ Append(down[k], [t |-> "connect"]) \in Seq(DownEvent)
          /\ down[k] \o <<[t |-> "connect"], [t |-> "end"]>> \in Seq(DownEvent)
      BY <1>2, <2>1
    <2>3. \/ down' = [down EXCEPT ![k] = Append(down[k], [t |-> "connect"])]
          \/ down' = [down EXCEPT ![k] = down[k] \o <<[t |-> "connect"], [t |-> "end"]>>]
      BY DEF handleConnection
    <2> QED BY ZenonT(60), <2>2, <2>3 DEF Typed
  <1>4. /\ serving' \in [Conns -> Handling]
        /\ serving'[k].op # "bye" /\ serving'[k].pc # "forget"
        /\ \A j \in Conns : j # k => serving'[j] = serving[j]
    <2> DEFINE h == [op |-> "hello", pc |-> "activity", working |-> FALSE]
    <2>1. h \in Handling /\ h.op = "hello" /\ h.pc = "activity"
      BY DEF Handling
    <2>2. serving' = serving \/ serving' = [serving EXCEPT ![k] = h]
      BY DEF handleConnection, Begin
    <2> HIDE DEF h
    <2> QED BY <1>0, <2>1, <2>2 DEF Typed
  <1>5. Typed'
    BY <1>0, <1>1, <1>3, <1>4 DEF Typed
  <1>6. TypeOK'
    <2>1. socketData' = {j \in Conns : far'[j] \in {"open", "closing"}}
      BY <1>0, <1>1 DEF TypeOK
    <2> QED BY <1>0, <1>1, <2>1 DEF TypeOK, link
  <1>7. Ends'
    <2>1. ASSUME NEW j \in Conns
          PROVE  /\ far'[j] = "closing" <=> serving'[j].op = "bye"
                 /\ serving'[j].pc = "forget" => serving'[j].op = "bye"
                 /\ far'[j] \in {"none", "dialing"} => down'[j] = <<>>
                 /\ j > link => far'[j] = "none"
      <3>1. CASE j = k
        BY <1>0, <1>1, <1>4, <3>1 DEF Ends, link
      <3>2. CASE j # k
        BY SMTT(40), <1>1, <1>3, <1>4, <3>2 DEF Ends, link
      <3> QED BY <3>1, <3>2
    <2>2. sock.state = "up" => link \in Conns
      BY DEF Ends, TypeOK, Conns
    <2> QED BY <1>1, <2>1, <2>2 DEF Ends, link
  <1>8. Registering'
    BY <1>0 DEF Registering, link
  <1>9. RPCRoutable'
    <2>1. sock.state = "up" => link \in Conns /\ link # k
      BY <1>0 DEF Ends, TypeOK, Conns
    <2> QED BY <1>0, <1>1, <2>1 DEF RPCRoutable, link
  <1> QED BY <1>5, <1>6, <1>7, <1>8, <1>9

LEMMA LosesKeeps == ASSUME IInv, NEW k \in Conns, ServerLoses(k) PROVE IInv'
  <1> USE DEF ServerLoses, IInv, client, manager
  <1>0. /\ far[k] = "open"
        /\ UNCHANGED <<clientType, down, socketData, methods, active, turnOpen, seen, rpc>>
    BY DEF Disconnected
  <1>1. /\ far' \in [Conns -> {"none", "dialing", "open", "closing", "gone"}]
        /\ far'[k] = "closing" /\ \A j \in Conns : j # k => far'[j] = far[j]
    BY DEF Disconnected, Typed
  <1>2. /\ up' \in [Conns -> Seq(UpEvent)] /\ up'[k] = <<>>
        /\ \A j \in Conns : j # k => up'[j] = up[j]
    BY NoneKept DEF Disconnected, Typed
  <1>3. /\ serving' \in [Conns -> Handling] /\ serving'[k].op = "bye"
        /\ \A j \in Conns : j # k => serving'[j] = serving[j]
    <2> DEFINE h == [op |-> "bye", pc |-> "activity", working |-> FALSE]
    <2>1. h \in Handling /\ h.op = "bye"
      BY DEF Handling
    <2>2. serving' = [serving EXCEPT ![k] = h]
      BY DEF Disconnected, Begin
    <2> HIDE DEF h
    <2> QED BY <2>1, <2>2 DEF Typed
  <1>4. Typed'
    BY <1>0, <1>1, <1>2, <1>3 DEF Typed
  <1>5. TypeOK'
    <2>1. socketData' = {j \in Conns : far'[j] \in {"open", "closing"}}
      BY <1>0, <1>1 DEF TypeOK
    <2> QED BY <1>0, <1>1, <2>1 DEF TypeOK, link
  <1>6. Ends'
    <2>1. ASSUME NEW j \in Conns
          PROVE  /\ far'[j] = "closing" <=> serving'[j].op = "bye"
                 /\ serving'[j].pc = "forget" => serving'[j].op = "bye"
                 /\ far'[j] \in {"none", "dialing"} => down'[j] = <<>>
                 /\ j > link => far'[j] = "none"
      <3>1. CASE j = k
        BY <1>0, <1>1, <1>3, <3>1 DEF Ends, link
      <3>2. CASE j # k
        BY <1>0, <1>1, <1>3, <3>2 DEF Ends, link
      <3> QED BY <3>1, <3>2
    <2>2. sock.state = "up" => link \in Conns
      BY DEF Ends, TypeOK, Conns
    <2> QED BY <1>1, <2>1, <2>2 DEF Ends, link
  <1>7. Registering'
    <2>1. ASSUME NEW j \in Conns, noRegister(up[j]) PROVE noRegister(up'[j])
      BY <1>2, <2>1, NoneKept
    <2> QED BY <2>1 DEF Registering, link
  <1>8. RPCRoutable'
    <2>1. sock.state = "up" => link \in Conns
      BY DEF Ends, TypeOK, Conns
    <2> QED BY <1>0, <1>1, <1>2, <2>1 DEF RPCRoutable, link
  <1> QED BY <1>4, <1>5, <1>6, <1>7, <1>8

\* What handling an event takes from the queue.
LEMMA Popped ==
  ASSUME IInv, NEW k \in Conns, NEW type, next(k, type), pop(k)
  PROVE  /\ far[k] = "open" /\ serving[k] = resting
         /\ up' \in [Conns -> Seq(UpEvent)]
         /\ \A j \in Conns : j # k => up'[j] = up[j]
         /\ Head(up[k]) \in UpEvent /\ Head(up[k]).t = type
         /\ noRegister(up[k]) <=> type # "register" /\ noRegister(up'[k])
  <1>1. up[k] \in Seq(UpEvent) /\ up[k] # <<>> /\ Head(up[k]).t = type
    BY DEF next, IInv, Typed
  <1> DEFINE q == Tail(up[k])
  <1>2. q \in Seq(UpEvent) /\ Head(up[k]) \in UpEvent /\ (noRegister(up[k]) <=> type # "register" /\ noRegister(q))
    BY <1>1, First
  <1>3. up' = [up EXCEPT ![k] = q]
    BY DEF pop
  <1> HIDE DEF q
  <1>4. up' \in [Conns -> Seq(UpEvent)] /\ up'[k] = q /\ \A j \in Conns : j # k => up'[j] = up[j]
    BY <1>2, <1>3 DEF IInv, Typed
  <1> QED BY <1>1, <1>2, <1>4 DEF next

LEMMA AliveKeeps == ASSUME IInv, NEW k \in Conns, Alive(k), UNCHANGED clientVars PROVE IInv'
  <1> USE DEF Alive, IInv, clientVars, client, manager
  <1>1. /\ far[k] = "open" /\ up' \in [Conns -> Seq(UpEvent)]
        /\ Head(up[k]) \in UpEvent /\ Head(up[k]).t = "alive"
        /\ \A j \in Conns : noRegister(up'[j]) <=> noRegister(up[j])
    BY Popped
  <1>2. /\ serving' \in [Conns -> Handling]
        /\ \/ serving'[k] = serving[k]
           \/ serving'[k].op = "alive" /\ serving'[k].pc = "activity"
        /\ \A j \in Conns : j # k => serving'[j] = serving[j]
    <2> DEFINE h == [op |-> "alive", pc |-> "activity", working |-> Head(up[k]).working]
    <2> SUFFICES ASSUME ~Head(up[k]).old
                 PROVE  /\ serving' \in [Conns -> Handling]
                        /\ serving'[k].op = "alive" /\ serving'[k].pc = "activity"
                        /\ \A j \in Conns : j # k => serving'[j] = serving[j]
      BY DEF Typed
    <2>1. Head(up[k]).working \in BOOLEAN
      BY <1>1 DEF UpEvent
    <2>2. h \in Handling /\ h.op = "alive" /\ h.pc = "activity"
      BY <2>1 DEF Handling
    <2>3. serving' = [serving EXCEPT ![k] = h]
      BY DEF Begin
    <2> HIDE DEF h
    <2> QED BY <2>2, <2>3 DEF Typed
  <1>3. Typed'
    BY <1>1, <1>2 DEF Typed
  <1>4. TypeOK'
    BY DEF TypeOK, link
  <1>5. \A j \in Conns : /\ serving'[j].op = "bye" <=> serving[j].op = "bye"
                         /\ serving'[j].pc = "forget" => serving'[j].op = "bye"
    BY <1>1, <1>2 DEF Ends
  <1> QED BY <1>1, <1>3, <1>4, <1>5, Steady DEF Ends, Registering

LEMMA ActivityKeeps == ASSUME IInv, NEW k \in Conns, UpdateActivity(k), UNCHANGED clientVars PROVE IInv'
  <1> USE DEF UpdateActivity, IInv, clientVars, client, manager
  <1>1. /\ serving' \in [Conns -> Handling]
        /\ serving'[k].op = serving[k].op /\ serving'[k].pc = "turn"
        /\ \A j \in Conns : j # k => serving'[j] = serving[j]
    <2> DEFINE h == [serving[k] EXCEPT !.pc = "turn"]
    <2>1. serving[k] \in Handling
      BY DEF Typed
    <2>2. h \in Handling /\ h.op = serving[k].op /\ h.pc = "turn"
      BY <2>1 DEF Handling
    <2>3. serving' = [serving EXCEPT ![k] = h]
      OBVIOUS
    <2> HIDE DEF h
    <2> QED BY <2>2, <2>3 DEF Typed
  <1>2. Typed'
    BY <1>1 DEF Typed
  <1>3. TypeOK'
    BY DEF TypeOK, link
  <1>4. \A j \in Conns : /\ serving'[j].op = "bye" <=> serving[j].op = "bye"
                         /\ serving'[j].pc = "forget" => serving'[j].op = "bye"
    BY <1>1 DEF Ends
  <1> QED BY <1>2, <1>3, <1>4, Steady DEF Ends, Registering

LEMMA EnsureKeeps == ASSUME IInv, NEW k \in Conns, EnsureSessionTurn(k), UNCHANGED clientVars PROVE IInv'
  <1> USE DEF EnsureSessionTurn, IInv, clientVars, client, manager
  <1>1. /\ serving' \in [Conns -> Handling]
        /\ serving'[k].op = "bye" <=> serving[k].op = "bye"
        /\ serving'[k].pc = "forget" => serving'[k].op = "bye"
        /\ \A j \in Conns : j # k => serving'[j] = serving[j]
    <2> DEFINE f == [serving[k] EXCEPT !.pc = "forget"]
    <2>1. serving[k] \in Handling
      BY DEF Typed
    <2>2. f \in Handling /\ f.op = serving[k].op
      BY <2>1 DEF Handling
    <2>3. resting \in Handling /\ resting.op = "none" /\ resting.pc = "rest"
      BY DEF Handling, resting
    <2>4. \/ serving[k].op = "bye" /\ serving' = [serving EXCEPT ![k] = f]
          \/ serving[k].op # "bye" /\ serving' = [serving EXCEPT ![k] = resting]
      OBVIOUS
    <2> HIDE DEF f
    <2> QED BY <2>2, <2>3, <2>4 DEF Typed
  <1>2. Typed'
    BY <1>1 DEF Typed
  <1>3. TypeOK'
    BY DEF TypeOK, link
  <1>4. \A j \in Conns : /\ serving'[j].op = "bye" <=> serving[j].op = "bye"
                         /\ serving'[j].pc = "forget" => serving'[j].op = "bye"
    BY <1>1 DEF Ends
  <1> QED BY <1>2, <1>3, <1>4, Steady DEF Ends, Registering

\* The end of another connection leaves the registration alone.
LEMMA UnregisterKeeps == ASSUME IInv, NEW k \in Conns, UnregisterAll(k), UNCHANGED clientVars PROVE IInv'
  <1> USE DEF UnregisterAll, IInv, clientVars, client, manager
  <1>0. far[k] = "closing"
    BY DEF at, Ends
  <1>1. /\ far' \in [Conns -> {"none", "dialing", "open", "closing", "gone"}]
        /\ far'[k] = "gone" /\ \A j \in Conns : j # k => far'[j] = far[j]
    BY DEF Typed
  <1>2. /\ serving' \in [Conns -> Handling]
        /\ serving'[k].op = "none" /\ serving'[k].pc = "rest"
        /\ \A j \in Conns : j # k => serving'[j] = serving[j]
    <2>1. resting \in Handling /\ resting.op = "none" /\ resting.pc = "rest"
      BY DEF Handling, resting
    <2> QED BY <2>1 DEF Typed
  <1>3. Typed'
    BY <1>1, <1>2 DEF Typed
  <1>4. TypeOK'
    <2>1. socketData' = {j \in Conns : far'[j] \in {"open", "closing"}}
      BY <1>1 DEF TypeOK
    <2>2. methods' \in {0} \cup socketData'
      BY DEF TypeOK, registeredOnly
    <2> QED BY <1>1, <2>1, <2>2 DEF TypeOK, link
  <1>5. Ends'
    <2>1. ASSUME NEW j \in Conns
          PROVE  /\ far'[j] = "closing" <=> serving'[j].op = "bye"
                 /\ serving'[j].pc = "forget" => serving'[j].op = "bye"
                 /\ far'[j] \in {"none", "dialing"} => down'[j] = <<>>
                 /\ j > link => far'[j] = "none"
      <3>1. CASE j = k
        BY <1>0, <1>1, <1>2, <3>1 DEF Ends, link
      <3>2. CASE j # k
        BY <1>1, <1>2, <3>2 DEF Ends, link
      <3> QED BY <3>1, <3>2
    <2>2. sock.state = "up" => link \in Conns
      BY DEF Ends, TypeOK, Conns
    <2> QED BY <1>1, <2>1, <2>2 DEF Ends, link
  <1>6. Registering'
    BY DEF Registering, link
  <1>7. RPCRoutable'
    <2>1. sock.state = "up" => link \in Conns /\ link # 0
      BY DEF Ends, TypeOK, Conns
    <2> QED BY <1>0, <1>1, <2>1 DEF RPCRoutable, link, registeredOnly
  <1> QED BY <1>3, <1>4, <1>5, <1>6, <1>7

\* A registration that is handled is the one of the socket's connection, or the
\* socket it was made for has been left.
LEMMA RegisterKeeps == ASSUME IInv, NEW k \in Conns, Register(k), UNCHANGED clientVars PROVE IInv'
  <1> USE DEF Register, IInv, clientVars, client, manager
  <1>1. /\ far[k] = "open" /\ up' \in [Conns -> Seq(UpEvent)]
        /\ \A j \in Conns : j # k => up'[j] = up[j]
        /\ ~noRegister(up[k])
    BY Popped
  <1>2. Typed'
    BY <1>1 DEF Typed
  <1>3. TypeOK'
    BY <1>1 DEF TypeOK, link
  <1>4. Ends'
    BY DEF Ends, link
  <1>5. bound = sock.made => k = link /\ sock.state # "fresh"
    BY <1>1 DEF Registering
  <1>6. Registering'
    BY <1>1, <1>5 DEF Registering, link
  <1>7. RPCRoutable'
    BY <1>5 DEF RPCRoutable, link
  <1> QED BY <1>2, <1>3, <1>4, <1>6, <1>7

LEMMA AnsweredKeeps == ASSUME IInv, NEW k \in Conns, Answered(k), UNCHANGED clientVars PROVE IInv'
  <1> USE DEF Answered, IInv, clientVars, client, manager
  <1>1. /\ up' \in [Conns -> Seq(UpEvent)]
        /\ \A j \in Conns : noRegister(up'[j]) <=> noRegister(up[j])
    BY Popped
  <1>2. Typed'
    BY <1>1 DEF Typed
  <1>3. TypeOK'
    BY DEF TypeOK, link
  <1> QED BY <1>1, <1>2, <1>3, Steady DEF Ends, Registering

LEMMA CallKeeps == ASSUME IInv, NEW i \in Calls, Call(i) PROVE IInv'
  <1> USE DEF Call, RPCCall, IInv, clientVars, client, manager
  <1>1. /\ down' \in [Conns -> Seq(DownEvent)]
        /\ \A k \in Conns : far[k] \in {"none", "dialing"} => down'[k] = <<>>
    <2>1. CASE methods \in socketData
      <3>1. methods \in Conns /\ far[methods] \in {"open", "closing"}
        BY <2>1 DEF TypeOK
      <3>2. [t |-> "call", call |-> i] \in DownEvent
        BY DEF DownEvent
      <3>3. Append(down[methods], [t |-> "call", call |-> i]) \in Seq(DownEvent)
        BY <3>1, <3>2, Longer DEF Typed
      <3>4. down' = [down EXCEPT ![methods] = Append(down[methods], [t |-> "call", call |-> i])]
        BY <2>1
      <3>5. down' \in [Conns -> Seq(DownEvent)] /\ \A k \in Conns : k # methods => down'[k] = down[k]
        BY <3>1, <3>3, <3>4 DEF Typed
      <3> QED BY <3>1, <3>5 DEF Ends
    <2>2. CASE methods \notin socketData
      BY <2>2 DEF Typed, Ends
    <2> QED BY <2>1, <2>2
  <1>2. Typed'
    BY <1>1 DEF Typed
  <1>3. TypeOK'
    BY DEF TypeOK, link
  <1> QED BY <1>1, <1>2, <1>3, Steady DEF Ends, Registering

----------------------------------------------------------------------------
\* Requests, and what changes nothing here

LEMMA TakeRequestKeeps == ASSUME IInv, TakeRequest PROVE IInv'
  <1> USE DEF TakeRequest, IInv, inner, client
  <1>1. /\ link \in Conns /\ down' \in [Conns -> Seq(DownEvent)]
        /\ \A k \in Conns : far[k] \in {"none", "dialing"} => down'[k] = <<>>
    BY Taken DEF incoming
  <1>2. running' \subseteq Calls \X Conns
    <2>1. Head(down[link]) \in DownEvent /\ Head(down[link]).t = "call"
      BY <1>1 DEF incoming, Typed
    <2>2. Head(down[link]).call \in Calls
      BY <2>1 DEF DownEvent
    <2> QED BY <1>1, <2>2 DEF Typed
  <1>3. Typed'
    BY <1>1, <1>2 DEF Typed
  <1>4. TypeOK'
    BY DEF TypeOK, link
  <1> QED BY <1>1, <1>3, <1>4, Steady DEF Ends, Registering

LEMMA RPCKeeps == ASSUME IInv, NEW i \in Calls, NEW k \in Conns, handleRPCCall(i, k) PROVE IInv'
  <1> USE DEF handleRPCCall, IInv, sending, inner
  <1> DEFINE e == [t |-> "answer", call |-> i]
             q == Append(up[k], e)
  <1>1. e \in UpEvent /\ e.t = "answer" /\ up[k] \in Seq(UpEvent)
    BY Events DEF Typed
  <1>2. q = up[k] \o <<e>>
    BY <1>1
  <1>3. q \in Seq(UpEvent) /\ (noRegister(q) <=> noRegister(up[k]))
    <2> HIDE DEF e
    <2>1. <<e>> \in Seq(UpEvent) /\ noRegister(<<e>>)
      BY <1>1, One
    <2> QED BY SMTT(40), <1>1, <1>2, <2>1, Concat
  <1>4. up' = up \/ up' = [up EXCEPT ![k] = q]
    OBVIOUS
  <1> HIDE DEF q
  <1>5. up' \in [Conns -> Seq(UpEvent)] /\ \A j \in Conns : noRegister(up'[j]) <=> noRegister(up[j])
    BY <1>3, <1>4 DEF Typed
  <1>6. Typed'
    BY <1>5 DEF Typed
  <1>7. TypeOK'
    BY DEF TypeOK, link
  <1> QED BY <1>5, <1>6, <1>7, Steady DEF Ends, Registering

\* A step that changes none of what the invariant speaks of.
LEMMA AsideKeeps ==
  ASSUME IInv, token' \in {"first", "second"},
         UNCHANGED <<net, socketData, methods, serving, client, start, bound, pinging, running, working>>
  PROVE  IInv'
  BY DEF IInv, net, client, Typed, TypeOK, Ends, Registering, RPCRoutable, link

----------------------------------------------------------------------------

LEMMA InitHolds == ASSUME Init PROVE IInv
  <1> USE DEF Init, ServerInit, ClientInit
  <1>1. resting \in Handling /\ resting.op = "none" /\ resting.pc = "rest"
    BY DEF resting, Handling
  <1>2. sock \in Socket /\ sock.made = 0 /\ sock.conn = 0 /\ sock.state = "none" /\ sock.kept = <<>>
    BY Bounded, NoneKept DEF Socket
  <1>3. Typed
    BY <1>1, <1>2, NoneKept, NoneDown DEF Typed
  <1>4. TypeOK
    BY <1>2, Bounded DEF TypeOK, link
  <1>5. Ends
    BY <1>1, <1>2 DEF Ends, link
  <1>6. Registering
    BY <1>2, NoneKept DEF Registering
  <1>7. RPCRoutable
    BY <1>2 DEF RPCRoutable
  <1> QED BY <1>3, <1>4, <1>5, <1>6, <1>7 DEF IInv

LEMMA ServeKeeps == ASSUME IInv, NEW k \in Conns, Server(k) PROVE IInv'
  BY AliveKeeps, ActivityKeeps, EnsureKeeps, UnregisterKeeps, RegisterKeeps, AnsweredKeeps DEF Server, Serve

LEMMA NextKeeps == ASSUME IInv, [Next]_vars PROVE IInv'
  <1>1. CASE Client
    <2>1. CASE RefreshToken
      BY <2>1, AsideKeeps DEF RefreshToken, inner, IInv, Typed
    <2>2. CASE HalfMinutePasses
      BY <2>2, AsideKeeps DEF HalfMinutePasses, inner, manager, IInv, Typed
    <2> QED BY <1>1, <2>1, <2>2, StartConnectKeeps, StartBindKeeps, StartWaitKeeps, DialKeeps,
               WelcomeKeeps, EndedKeeps, ReconnectKeeps, SendKeeps, TakeRequestKeeps, RPCKeeps DEF Client
  <1>2. CASE Expire
    BY <1>2, AsideKeeps DEF Expire, inner, IInv, Typed
  <1>3. ASSUME NEW k \in Conns, Server(k) \/ Handshake(k) \/ ServerLoses(k) PROVE IInv'
    BY <1>3, ServeKeeps, HandshakeKeeps, LosesKeeps
  <1>4. ASSUME NEW i \in Calls, Call(i) \/ TimesOut(i) PROVE IInv'
    <2>1. CASE TimesOut(i)
      BY <2>1, AsideKeeps DEF TimesOut, ForwardTimesOut, net, clientVars, manager, IInv, Typed
    <2> QED BY <1>4, <2>1, CallKeeps
  <1>5. CASE UNCHANGED vars
    BY <1>5, AsideKeeps DEF vars, inner, clientVars, manager, IInv, Typed
  <1> QED BY <1>1, <1>2, <1>3, <1>4, <1>5, TickKeeps, CloseKeeps, LostKeeps, RefusedKeeps, TurnKeeps DEF Next

\* The server emits to the connections that it has not closed, the one that is
\* registered for RPC methods is among them, and the client counts as connected
\* exactly while its socket is up.
THEOREM SocketTypes == Spec => []TypeOK
  <1>1. IInv => TypeOK
    BY DEF IInv
  <1> QED BY <1>1, InitHolds, NextKeeps, PTL DEF Spec

\* Once the registration of the socket that the RPC manager listens on has been
\* handled, calls reach that socket until its connection ends, however late the
\* server notices the end of an older one (RPCRegistry.UnregisterAll), and
\* however often the token is refreshed and the socket made anew.
THEOREM CallsRouted == Spec => []RPCRoutable
  <1>1. IInv => RPCRoutable
    BY DEF IInv
  <1> QED BY <1>1, InitHolds, NextKeeps, PTL DEF Spec

=============================================================================
