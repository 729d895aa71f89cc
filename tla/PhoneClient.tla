------------------------------ MODULE PhoneClient ------------------------------
(***************************************************************************)
(* The mobile SDK: one goroutine runs the app's calls and the socket's      *)
(* events in the order in which they were queued, and keeps for the session *)
(* a snapshot of what the app should show.  A call that waits for an HTTP   *)
(* answer or an acknowledgement holds the goroutine; the session, the       *)
(* sockets and the queue go on meanwhile.  A socket that a later one has    *)
(* replaced, or that was given up, is not closed: all feed the one queue.   *)
(***************************************************************************)
EXTENDS SessionMessages

VARIABLES
  made,       \* the number of sockets made
  userSocket, \* the socket that calls go out on, 0 for none
  job,        \* what the dispatcher's goroutine is running
  fsm,        \* sessionFSM: the snapshot of the session
  recent,     \* the times in the snapshot that have not expired
  keyed,      \* the session's data key is known
  given,      \* the messages given to the app, as they came
  walk        \* the pages that the app has asked for so far

socketVars == <<made, userSocket>>
phoneVars == <<socketVars, job, fsm, recent, keyed, given, walk>>
vars == <<serverVars, phoneVars>>

\* The windows: sessionFSMStaleAfter for the turn and for the snapshot,
\* sessionSwitchingTTL, sessionKeyHydrateMinInterval.
Windows == {"working", "fetched", "switching", "hydrated"}

idle == [t |-> "none", pc |-> "rest", then |-> "rest", active |-> FALSE, control |-> "remote",
         kept |-> <<>>]

nothingShown ==
  [connected |-> FALSE, online |-> FALSE, working |-> FALSE, mode |-> "", switching |-> FALSE]

\* The zero value of sessionFSMState has the phone in control.
unknown == [known |-> FALSE, connected |-> FALSE, online |-> FALSE, working |-> FALSE,
            control |-> "remote", switching |-> FALSE, ui |-> nothingShown]

PhoneInit ==
  /\ made = 0 /\ userSocket = 0
  /\ job = idle
  /\ fsm = unknown
  /\ recent = {}
  /\ keyed = FALSE
  /\ given = <<>>
  /\ walk = [asked |-> FALSE, newest |-> 0, next |-> 0, got |-> {}, more |-> TRUE]

Init == ServerInit /\ PhoneInit

----------------------------------------------------------------------------
\* The snapshot

\* computeSessionFSM
state(f) == IF ~f.connected THEN "disconnected" ELSE IF ~f.online THEN "offline" ELSE f.control

modeFromState(s) == IF s \in {"local", "remote"} THEN s ELSE ""

\* Mutant: the window has no end.
stillWorkingEver(f) == f.working

\* A turn that has just begun is shown for a while, whatever a list says.
stillWorking(f) == f.working /\ "working" \in recent

uiOf(f, s, waits) ==
  [connected |-> f.connected, online |-> f.online, working |-> f.working,
   mode |-> IF f.online THEN modeFromState(s) ELSE "", switching |-> waits]

\* deriveSessionUI.  While a switch is waited for, the mode shown is the old one.
Derived(connected, online, working, control) ==
  LET next == [fsm EXCEPT !.known = TRUE, !.connected = connected, !.online = online,
                          !.working = working \/ stillWorking(fsm), !.control = control]
      waits == fsm.switching /\ "switching" \in recent
  IN [next EXCEPT !.ui = uiOf(next, state(IF waits /\ fsm.known THEN fsm ELSE next), waits)]

\* The times that deriveSessionUI sets.
Dated(working) ==
  recent' = recent \cup {"fetched"} \cup (IF working /\ ~fsm.working THEN {"working"} ELSE {})

connectedBy(s) == socks[s].at \in {"up", "dying"}

isConnected == userSocket # 0 /\ connectedBy(userSocket)

connectedNow == IF userSocket = 0 THEN fsm.connected ELSE isConnected

----------------------------------------------------------------------------
\* The queue of the dispatcher

Run(t) == job = idle /\ inbox # <<>> /\ Head(inbox).t = t

Rest == inbox' = Tail(inbox) /\ UNCHANGED job

fresh == fsm.known /\ "fetched" \in recent

\* ensureSessionFSM: a list is read first if the snapshot is missing or old.
ensured(j, pc) == [j EXCEPT !.pc = IF fresh THEN pc ELSE "read", !.then = pc]

Hold(j) == job' = j /\ inbox' = Tail(inbox)

\* The app calls; a page is asked for when the one before it has come.
Calls(t) ==
  /\ \/ t = "connect" /\ Spend("connects")
     \/ t \in budget.kinds /\ Spend("calls")
  /\ t = "page" => walk.more /\ ~\E i \in DOMAIN inbox : inbox[i].t = "page"
  /\ inbox' = Append(inbox, [t |-> t])
  /\ UNCHANGED <<cli, row, seq, log, events, handling, socks, missed, phoneVars>>

----------------------------------------------------------------------------
\* The sockets

controlUnderWay(s) == \E i \in DOMAIN socks[s].wire : socks[s].wire[i].t = "control"

\* Sockets that close or break lose what is under way.
lose(ss, at) ==
  [s \in Sockets |-> IF s \in ss THEN [socks[s] EXCEPT !.at = at, !.wire = <<>>] ELSE socks[s]]

Lost(ss) == missed' = (missed \/ \E s \in ss : controlUnderWay(s))

\* A socket is dialed when others are closed; `beside` only remembers which live.
Dial(ss) ==
  /\ made' = made + 1
  /\ socks' = [lose(ss, "closed")
               EXCEPT ![made + 1] = [noSocket EXCEPT !.at = "lost", !.beside = live \ ss]]
  /\ Lost(ss)

Dialing(pc) == job.t = "connect" /\ job.pc = pc

\* connect makes another socket, whatever there is.
Connect ==
  /\ Run("connect") /\ made < MaxSockets
  /\ Hold([idle EXCEPT !.t = "connect", !.pc = "dial"])
  /\ Dial({})
  /\ UNCHANGED <<cli, row, seq, log, events, handling, budget, userSocket,
                 fsm, recent, keyed, given, walk>>

\* WaitForConnect; a list for the keys is put at the end of the queue.
Connected ==
  /\ Dialing("dial") /\ connectedBy(made)
  /\ userSocket' = made
  /\ job' = idle
  /\ inbox' = Append(inbox, [t |-> "list"])
  /\ UNCHANGED <<cli, row, seq, log, events, handling, socks, missed, budget, made,
                 fsm, recent, keyed, given, walk>>

\* 10 s; the second socket is the last.
ConnectTimesOut ==
  /\ Dialing("dial") /\ ~connectedBy(made) /\ Spend("failures")
  /\ job' = IF job.then = "again" THEN idle ELSE [job EXCEPT !.pc = "refresh"]
  /\ UNCHANGED <<cli, row, seq, log, events, handling, socks, inbox, missed, made, userSocket,
                 fsm, recent, keyed, given, walk>>

\* With a new token another socket is made in place of the first; without one connect
\* returns an error, and the library goes on dialing.
RefreshesToken ==
  /\ Dialing("refresh")
  /\ \/ /\ made < MaxSockets
        /\ Dial({made})
        /\ job' = [job EXCEPT !.pc = "dial", !.then = "again"]
     \/ job' = idle /\ UNCHANGED <<made, socks, missed>>
  /\ UNCHANGED <<cli, row, seq, log, events, handling, inbox, budget, userSocket,
                 fsm, recent, keyed, given, walk>>

\* disconnect closes the socket that calls go out on.
Disconnect ==
  /\ Run("disconnect") /\ Rest
  /\ userSocket' = 0
  /\ socks' = lose({userSocket}, "closed") /\ Lost({userSocket} \ {0})
  /\ UNCHANGED <<cli, row, seq, log, events, handling, budget, made,
                 fsm, recent, keyed, given, walk>>

\* A connection breaks, the library finds out, and makes it again.
Breaks(s) ==
  /\ socks[s].at = "up" /\ Spend("failures")
  /\ socks' = lose({s}, "dying") /\ Lost({s})
  /\ UNCHANGED <<cli, row, seq, log, events, handling, inbox, phoneVars>>

Reconnects(s) ==
  /\ \/ socks[s].at = "dying" /\ socks' = [socks EXCEPT ![s].at = "lost"]
     \/ socks[s].at = "lost" /\ socks' = [socks EXCEPT ![s].at = "up", ![s].dials = @ + 1]
  /\ UNCHANGED <<cli, row, seq, log, events, handling, inbox, missed, budget, phoneVars>>

\* handleUpdateQueued and handleEphemeralQueued, whichever socket it is
Arrives(s) ==
  /\ socks[s].wire # <<>>
  /\ socks' = [socks EXCEPT ![s].wire = Tail(@)]
  /\ inbox' = Append(inbox, Head(socks[s].wire))
  /\ UNCHANGED <<cli, row, seq, log, events, handling, missed, budget, phoneVars>>

\* Time passes a window.
Expires(w) ==
  /\ recent' = recent \ {w}
  /\ UNCHANGED <<serverVars, socketVars, job, fsm, keyed, given, walk>>

\* The app's listener is given the message that waits for the list, if there is one.
GiveKept == given' = given \o job.kept

----------------------------------------------------------------------------
\* listSessions, for the app or inside of another call

StartList ==
  /\ Run("list")
  /\ Hold([idle EXCEPT !.t = "list", !.pc = "read", !.then = "done"])
  /\ UNCHANGED <<cli, row, seq, log, events, handling, socks, missed, budget,
                 socketVars, fsm, recent, keyed, given, walk>>

\* Where a call goes on when its list has failed: the mark of a switch is left
\* out, and whatever else needed the list is given up.
listFailed ==
  IF job.then # "doMark" THEN idle
  ELSE IF job.t = "remote" THEN [job EXCEPT !.then = "doGate"] ELSE [job EXCEPT !.pc = "call"]

\* Versions are not compared: an update that waits in the queue replaces what a
\* list has read after it.
overtaken ==
  (\E i \in DOMAIN inbox : inbox[i].t = "control") \/ \E s \in Sockets : controlUnderWay(s)

ReadSessions ==
  /\ job.pc = "read"
  /\ \/ /\ job' = [job EXCEPT !.pc = "turns", !.active = row.active, !.control = row.control]
        /\ missed' = (missed /\ overtaken)
        /\ UNCHANGED <<budget, given>>
     \/ /\ Spend("failures")
        /\ job' = listFailed
        /\ GiveKept
        /\ UNCHANGED missed
  /\ UNCHANGED <<cli, row, seq, log, events, handling, socks, inbox, socketVars,
                 fsm, recent, keyed, walk>>

\* The turns are another query; when it fails no session is in a turn.
ListSessions ==
  /\ job.pc = "turns"
  /\ \E working \in {row.open, FALSE} :
       /\ IF working = row.open THEN UNCHANGED budget ELSE Spend("failures")
       /\ fsm' = Derived(isConnected, job.active, working, job.control)
       /\ Dated(working)
  /\ keyed' = TRUE
  /\ job' = IF job.then \in {"done", "retry"} THEN idle ELSE [job EXCEPT !.pc = job.then]
  /\ GiveKept
  /\ UNCHANGED <<cli, row, seq, log, events, handling, socks, inbox, missed, socketVars, walk>>

----------------------------------------------------------------------------
\* What the server sends

Applied(next) == fsm' = [next EXCEPT !.switching = FALSE]

HandleActivity ==
  /\ Run("activity") /\ Rest
  /\ LET e == Head(inbox)
         working == e.active /\ e.working
     IN Applied(Derived(connectedNow, e.active, working, fsm.control)) /\ Dated(working)
  /\ UNCHANGED <<cli, row, seq, log, events, handling, socks, missed, budget, socketVars,
                 keyed, given, walk>>

\* An update of a session that no list has shown makes it online.
HandleControl ==
  /\ Run("control") /\ Rest
  /\ Applied(Derived(connectedNow \/ ~fsm.known, fsm.online \/ ~fsm.known, fsm.working,
                     Head(inbox).control))
  /\ Dated(fsm.working)
  /\ UNCHANGED <<cli, row, seq, log, events, handling, socks, missed, budget, socketVars,
                 keyed, given, walk>>

mayHydrate == ~keyed /\ "hydrated" \notin recent

\* Without a key the sessions are listed, not too often, and the message tried again.
HandleMessageUpdate ==
  LET m == Head(inbox) IN
  /\ Run("message")
  /\ IF mayHydrate
     THEN /\ Hold([idle EXCEPT !.t = "message", !.pc = "read", !.then = "retry", !.kept = <<m>>])
          /\ recent' = recent \cup {"hydrated"}
          /\ UNCHANGED given
     ELSE Rest /\ given' = Append(given, m) /\ UNCHANGED recent
  /\ UNCHANGED <<cli, row, seq, log, events, handling, socks, missed, budget, socketVars,
                 fsm, keyed, walk>>

----------------------------------------------------------------------------
\* sendMessageWithLocalID

StartSend ==
  /\ Run("send")
  /\ IF userSocket = 0 THEN Rest ELSE Hold(ensured([idle EXCEPT !.t = "send"], "doGate"))
  /\ UNCHANGED <<cli, row, seq, log, events, handling, socks, missed, budget,
                 socketVars, fsm, recent, keyed, given, walk>>

SendMessage ==
  /\ job.t = "send" /\ job.pc = "doGate"
  /\ job' = idle
  /\ events' = IF state(fsm) = "remote" /\ ~fsm.working /\ keyed /\ userSocket \in up
               THEN enqueue(connection(userSocket)) ELSE events
  /\ UNCHANGED <<cli, row, seq, log, handling, socks, inbox, missed, budget,
                 socketVars, fsm, recent, keyed, given, walk>>

----------------------------------------------------------------------------
\* callRPC, of a switch

StartSwitch(mode) ==
  /\ Run(mode)
  /\ IF userSocket = 0 THEN Rest ELSE Hold(ensured([idle EXCEPT !.t = mode], "doMark"))
  /\ UNCHANGED <<cli, row, seq, log, events, handling, socks, missed, budget,
                 socketVars, fsm, recent, keyed, given, walk>>

Mark ==
  /\ job.pc = "doMark"
  /\ LET ui == uiOf(fsm, state(fsm), TRUE)
     IN /\ fsm' = [fsm EXCEPT !.switching = TRUE, !.ui = ui]
        /\ recent' = recent \cup {"switching"} \cup (IF ui # fsm.ui THEN {"fetched"} ELSE {})
  /\ job' = [job EXCEPT !.pc = IF job.t = "remote" THEN "ensure" ELSE "call"]
  /\ UNCHANGED <<serverVars, socketVars, keyed, given, walk>>

EnsureAgain ==
  /\ job.pc = "ensure"
  /\ job' = ensured(job, "doGate")
  /\ UNCHANGED <<serverVars, socketVars, fsm, recent, keyed, given, walk>>

\* A switch that is refused here leaves its mark.
Gate ==
  /\ job.t = "remote" /\ job.pc = "doGate"
  /\ job' = IF state(fsm) \in {"local", "remote"} THEN [job EXCEPT !.pc = "call"] ELSE idle
  /\ UNCHANGED <<serverVars, socketVars, fsm, recent, keyed, given, walk>>

\* clearSessionSwitching
cleared ==
  LET next == [fsm EXCEPT !.switching = FALSE]
  IN [next EXCEPT !.ui = uiOf(next, state(next), FALSE)]

\* The cached control follows the acknowledgement.
switched ==
  LET next == [fsm EXCEPT !.known = TRUE, !.connected = @ \/ ~fsm.known, !.online = @ \/ ~fsm.known,
                          !.control = job.t, !.switching = FALSE]
  IN [next EXCEPT !.ui = uiOf(next, state(next), FALSE)]

reachable == userSocket \in up /\ cli.up

\* EmitWithAck: it may fail although the CLI switches.  An error of the CLI's handler
\* is a result like others; it has no mode, and changes nothing at the phone.
Call ==
  /\ job.pc = "call"
  /\ job' = idle
  /\ \/ /\ reachable
        /\ cli' = controlled(job.t)
        /\ fsm' = switched
        /\ recent' = (recent \ {"working"}) \cup {"fetched"}
        /\ UNCHANGED budget
     \/ /\ IF reachable THEN Spend("failures") ELSE UNCHANGED budget
        /\ \/ UNCHANGED cli
           \/ reachable /\ cli' = controlled(job.t)
        /\ fsm' = cleared
        /\ UNCHANGED recent
     \/ /\ reachable /\ Spend("failures")
        /\ \/ UNCHANGED cli
           \/ cli' = controlled(job.t)
        /\ UNCHANGED <<fsm, recent>>
  /\ UNCHANGED <<row, seq, log, events, handling, socks, inbox, missed, socketVars,
                 keyed, given, walk>>

----------------------------------------------------------------------------
\* getSessionMessagesPage, from the latest page to the oldest

GetPage ==
  /\ Run("page") /\ Rest
  /\ \/ LET page == GetSessionMessages(walk.next)
        IN /\ walk' = [asked |-> TRUE,
                       newest |-> IF walk.asked \/ page.messages = {} THEN walk.newest
                                  ELSE Max(page.messages),
                       next |-> page.next,
                       got |-> walk.got \cup page.messages,
                       more |-> page.more]
           /\ UNCHANGED budget
     \/ Spend("failures") /\ UNCHANGED walk
  /\ UNCHANGED <<cli, row, seq, log, events, handling, socks, missed, socketVars,
                 fsm, recent, keyed, given>>

Dispatch ==
  \/ Connect \/ Connected \/ ConnectTimesOut \/ RefreshesToken \/ Disconnect
  \/ StartList \/ StartSend \/ GetPage
  \/ \E mode \in {"remote", "local"} : StartSwitch(mode)
  \/ ReadSessions \/ ListSessions \/ SendMessage \/ Mark \/ EnsureAgain \/ Gate \/ Call
  \/ HandleActivity \/ HandleControl \/ HandleMessageUpdate

Kinds == {"connect", "disconnect", "list", "send", "remote", "local", "page"}

Server == (PersistControl \/ HandleMessage \/ Stores) /\ UNCHANGED phoneVars

Next ==
  \/ Dispatch \/ Server
  \/ \E s \in Sockets : Breaks(s) \/ Reconnects(s) \/ Arrives(s)
  \/ Happens /\ UNCHANGED phoneVars
  \/ KeepAlive(job = idle) /\ UNCHANGED phoneVars
  \/ \E t \in Kinds : Calls(t)
  \/ \E w \in recent : Expires(w)

Spec == Init /\ [][Next]_vars

FairSpec ==
  /\ Spec
  /\ WF_vars(Dispatch)
  /\ WF_vars(PersistControl /\ UNCHANGED phoneVars)
  /\ WF_vars(HandleMessage /\ UNCHANGED phoneVars)
  /\ WF_vars(Stores /\ UNCHANGED phoneVars)
  /\ WF_vars(KeepAlive(job = idle) /\ UNCHANGED phoneVars)
  /\ WF_vars(\E s \in Sockets : Reconnects(s) \/ Arrives(s))
  /\ \A w \in Windows : WF_vars(w \in recent /\ Expires(w))

----------------------------------------------------------------------------
\* Properties

Beside(s, t) == s \in socks[t].beside \/ t \in socks[s].beside

\* handleMessage (message.go) is run by one loop and the dispatcher keeps the order
\* of the events of each socket: the app is given the messages of a session in the
\* order of their numbers and none twice, whatever fails and whenever a list has to
\* be fetched for the key.  It is not so between two sockets that live at one time:
\* what a socket that connect has replaced or given up still brings comes again, and late.
UpdatesInOrder ==
  \A i, j \in DOMAIN given :
    (i < j /\ ~Beside(given[i].from, given[j].from)) => given[i].seq < given[j].seq

\* GetSessionMessages, page after page with nextBeforeSeq until hasMore is
\* false: the app has then seen every message up to the newest of the first
\* page, although numbers are skipped and messages are stored meanwhile.
WalkComplete == ~walk.more => {s \in log : s <= walk.newest} \subseteq walk.got

agrees ==
  fsm.ui = [connected |-> TRUE, online |-> TRUE, working |-> cli.working, mode |-> cli.control,
            switching |-> FALSE]

\* The snapshot is pieced together from lists, activity, updates and
\* acknowledgements that come late, fail or are suppressed for a while
\* (session_fsm.go).  Once nothing changes any more it is what the CLI says, if
\* the phone and the CLI are connected and the phone was sent the last change
\* of control: no turn, spinner or owner is shown for ever that is not there.
PhoneSettles == <>[](userSocket \in up /\ cli.up /\ ~missed => agrees)
=============================================================================
