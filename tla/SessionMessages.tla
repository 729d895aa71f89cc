---------------------------- MODULE SessionMessages ----------------------------
(***************************************************************************)
(* One session at the server, as a phone meets it: the row and the turn     *)
(* that session lists are made from, the queue that gives messages their    *)
(* numbers and stores them, the pages of what is stored, and the CLI that   *)
(* reports its activity, its control and its messages.  The steps of the    *)
(* presence handlers are those of SocketServer; here a report is one step.  *)
(***************************************************************************)
EXTENDS Naturals, Sequences, FiniteSets, FiniteSetsExt, SequencesExt

CONSTANTS
  QueueSize,      \* messages that wait for the session's runtime; 256 in the code
  PageLimit,      \* messages in a page
  MaxSockets,     \* bound: sockets that the phone makes
  Plans           \* bound: the budgets that a behaviour may start with

ASSUME MessagesOK == QueueSize \in Nat \ {0} /\ PageLimit \in Nat \ {0} /\ MaxSockets \in Nat

\* The phone's sockets, numbered as they are made; 0 is none.
Sockets == 1..MaxSockets

VARIABLES
  cli,        \* the CLI: connected, in a turn, who controls, whether that is to be persisted
  row,        \* the session's row and its turn, as the database has them
  seq,        \* the last number given to a message of the session
  log,        \* the numbers of the messages stored
  events,     \* messages that wait for the runtime: the connection each came on
  handling,   \* messages that the runtime is storing
  socks,      \* the phone's sockets, and what the server sent on each that is under way
  inbox,      \* the phone's dispatcher: what waits for its goroutine
  missed,     \* a change of control was not sent to the phone, or lost on the way
  budget      \* what the environment may still do

serverVars == <<cli, row, seq, log, events, handling, socks, inbox, missed, budget>>

noSocket == [at |-> "none", dials |-> 0, wire |-> <<>>, beside |-> {}]

ServerInit ==
  /\ cli = [up |-> TRUE, working |-> FALSE, control |-> "local", dirty |-> FALSE]
  /\ row = [active |-> TRUE, open |-> FALSE, control |-> "local"]
  /\ seq = 0
  /\ log = {}
  /\ events = <<>>
  /\ handling = {}
  /\ socks = [s \in Sockets |-> noSocket]
  /\ inbox = <<>>
  /\ missed = TRUE
  /\ budget \in Plans

Spend(what) == budget[what] > 0 /\ budget' = [budget EXCEPT ![what] = @ - 1]

\* A socket is up, has broken unnoticed ("dying"), is dialed by the library ("lost"),
\* or is closed.
up == {s \in Sockets : socks[s].at = "up"}
live == {s \in Sockets : socks[s].at \in {"up", "dying", "lost"}}

\* The server knows a socket by the connection that it has now.
connection(s) == [sock |-> s, dial |-> socks[s].dials]

cliConnection == [sock |-> 0, dial |-> 0]

onWire(s, e) == [socks[s] EXCEPT !.wire = Append(@, e)]

\* What the server emits is sent on each connection of the phone.
Emit(e) == socks' = [s \in Sockets |-> IF s \in up THEN onWire(s, e) ELSE socks[s]]

\* A message: not to the connection that it came on.
EmitMessage(h) ==
  socks' = [s \in Sockets |-> IF s \in up /\ connection(s) # h.from
                             THEN onWire(s, [t |-> "message", from |-> s, seq |-> h.seq])
                             ELSE socks[s]]

activity(active, working) == [t |-> "activity", active |-> active, working |-> working]

----------------------------------------------------------------------------
\* The CLI reports

Report(c) ==
  /\ row' = [row EXCEPT !.active = c.up, !.open = c.working]
  /\ Emit(activity(c.up, c.working))

\* The ticker of the CLI, which is slow beside the phone's dispatcher.
KeepAlive(idle) ==
  /\ cli.up
  /\ idle /\ inbox = <<>> /\ \A s \in Sockets : socks[s].wire = <<>>
  /\ Report(cli)
  /\ UNCHANGED <<cli, seq, log, events, handling, inbox, missed, budget>>

\* A turn begins or ends, the CLI goes, or it is back.
Presence ==
  /\ Spend("events")
  /\ \/ cli.up /\ cli' = [cli EXCEPT !.working = ~@]
     \/ cli.up /\ cli' = [cli EXCEPT !.up = FALSE, !.working = FALSE]
     \/ ~cli.up /\ cli' = [cli EXCEPT !.up = TRUE]
  /\ Report(cli')
  /\ UNCHANGED <<seq, log, events, handling, inbox, missed>>

controlled(mode) == [cli EXCEPT !.control = mode, !.dirty = TRUE]

\* The user at the desktop takes the session, or hands it over.
DesktopSwitch ==
  /\ cli.up
  /\ Spend("events")
  /\ cli' = controlled(IF cli.control = "local" THEN "remote" ELSE "local")
  /\ UNCHANGED <<row, seq, log, events, handling, socks, inbox, missed>>

\* The CLI's agentState reaches the row, and the phone if it can be reached.
PersistControl ==
  /\ cli.up
  /\ cli.dirty
  /\ cli' = [cli EXCEPT !.dirty = FALSE]
  /\ row' = [row EXCEPT !.control = cli.control]
  /\ Emit([t |-> "control", control |-> cli.control])
  /\ missed' = (missed \/ up = {})
  /\ UNCHANGED <<seq, log, events, handling, inbox, budget>>

----------------------------------------------------------------------------
\* Messages

enqueue(from) == IF Len(events) < QueueSize THEN Append(events, from) ELSE events

CliSends ==
  /\ cli.up
  /\ Spend("messages")
  /\ events' = enqueue(cliConnection)
  /\ UNCHANGED <<cli, row, seq, log, handling, socks, inbox, missed>>

\* Mutant: each message is handled in a goroutine of its own.
twoAtATime == Cardinality(handling) < 2

oneAtATime == handling = {}

\* The runtime's loop.  The owner may turn out to be another, or the query fail.
HandleMessage ==
  /\ events # <<>>
  /\ oneAtATime
  /\ events' = Tail(events)
  /\ \/ /\ handling' = handling \cup {[from |-> Head(events), pc |-> "number", seq |-> seq]}
        /\ UNCHANGED budget
     \/ Spend("failures") /\ UNCHANGED handling
  /\ UNCHANGED <<cli, row, seq, log, socks, inbox, missed>>

becomes(h, next) == handling' = (handling \ {h}) \cup next

NextSessionMessageSeq(h) ==
  /\ h.pc = "number"
  /\ \/ /\ seq' = seq + 1
        /\ becomes(h, {[h EXCEPT !.pc = "store", !.seq = seq + 1]})
        /\ UNCHANGED budget
     \/ Spend("failures") /\ becomes(h, {}) /\ UNCHANGED seq
  /\ UNCHANGED <<cli, row, log, events, socks, inbox, missed>>

\* A failure, a local id that is taken included, leaves a gap in the numbers.
CreateEncryptedMessage(h) ==
  /\ h.pc = "store"
  /\ \/ /\ log' = log \cup {h.seq}
        /\ becomes(h, {[h EXCEPT !.pc = "active"]})
        /\ UNCHANGED budget
     \/ Spend("failures") /\ becomes(h, {}) /\ UNCHANGED log
  /\ UNCHANGED <<cli, row, seq, events, socks, inbox, missed>>

\* Also when the CLI has gone in the meantime.
MarkSessionActive(h) ==
  /\ h.pc = "active"
  /\ row' = [row EXCEPT !.active = TRUE]
  /\ becomes(h, {[h EXCEPT !.pc = "emit"]})
  /\ UNCHANGED <<cli, seq, log, events, socks, inbox, missed, budget>>

\* Without a number for the update none is sent.
EmitUpdateToSession(h) ==
  /\ h.pc = "emit"
  /\ becomes(h, {})
  /\ \/ EmitMessage(h) /\ UNCHANGED budget
     \/ Spend("failures") /\ UNCHANGED socks
  /\ UNCHANGED <<cli, row, seq, log, events, inbox, missed>>

----------------------------------------------------------------------------
\* Pages, newest first; 0 asks for the latest

\* Mutant: the message at the boundary is skipped.
belowPrevious(before) == {s \in log : before = 0 \/ s + 1 < before}

below(before) == {s \in log : before = 0 \/ s < before}

listMessages(before) ==
  {s \in below(before) : Cardinality({o \in below(before) : o > s}) < PageLimit}

hasMessagesBeforeSeq(s) == \E o \in log : o < s

\* nextBeforeSeq is the oldest number of the page.
GetSessionMessages(before) ==
  LET page == listMessages(before)
  IN [messages |-> page,
      next |-> IF page = {} THEN before ELSE Min(page),
      more |-> page # {} /\ hasMessagesBeforeSeq(Min(page))]

\* What the server does of its own accord.
Stores == \E h \in handling :
  \/ NextSessionMessageSeq(h) \/ CreateEncryptedMessage(h)
  \/ MarkSessionActive(h) \/ EmitUpdateToSession(h)

Happens == Presence \/ DesktopSwitch \/ CliSends
=============================================================================
