# A verification project for delight

delight runs a coding agent (Claude Code, Codex, an ACP server) on a desktop and
lets a phone watch it, talk to it, approve its tool calls and take it over.  The
CLI (`src/cli`) owns the agent; a server (`src/server`) relays end-to-end
encrypted messages and keeps one durable row per session; the phone uses a Go
SDK (`src/cli/sdk`) inside an iOS application (`src/ios`).

The program's own logic is in five places, and each has its modules here: the
*session actor* of the CLI (a pure reducer driven by a mailbox, with a runtime
that executes its effects on several goroutines), the *agent engines* below it
(processes, protocols and transcripts of Codex, Claude and ACP), the *relay*
(sockets, presence and RPC between CLI, server and phone), the server's
*versioned rows*, and the *phone's SDK* with the numbering of messages it reads.
They meet at narrow interfaces (an event channel, a socket, a row of a table),
so each is checked by itself against what the next one relies on.

Contents: 1 inventory, 2 modules, 3 runs, 4 fairness and bounds, 5 where code and
comments disagree, 6 proofs, 7 abstractions, 8 what is not modelled, 9 plan.

## 1. Inventory

| Part | State it keeps | Operations | Hard behaviour | What makes it correct |
|---|---|---|---|---|
| Session reducer, `actor/reducer.go`, `types.go` | FSM, mode, generation, runner handles, pending switch reply, permission promises, agentState and its version, debounce/retry/waiter bookkeeping, buffered messages | one handler per command or event | every input may arrive between any two others | messages in order and once, one answer per call, a session that never stays "starting" |
| Actor loop, `internal/actor/actor.go` | mailbox, batches of effects | Enqueue, loop, runRuntime | effects run behind the reducer's back; a full mailbox drops | one input at a time, effects in order |
| Engine runtime, `actor/runtime_engine.go`, `runtime_takeback.go` | generation and activity per mode, send mutex, watcher | start, stop, send, abort, configure, inject a line, tag events | sends on goroutines, exits reported late or never, a start that blocks | one agent at a time, in the configuration shown to users |
| Persistence, `actor/runtime_emit.go`, `websocket/client.go`, server `handlers/update_state.go` | debounce timer, requests in flight, the session row | start/cancel timer, UpdateState, compare-and-write | concurrent requests, lost acknowledgements, late arrivals, reconnects | the row never goes back; changes are not forgotten |
| AwaitPermission, `actor/runtime_permission_requester.go` | two one-place channels per call | register, acknowledge, retry, decide, cancel | retries, decisions racing cancellation and mode changes | nobody hangs, nobody gets an invented verdict |
| Manager, `session/manager_*.go` | reply channels of its calls | switch, send, abort, set config, inbound message, start | waits on an answer that several parties may give | each call ends with what really happened |
| Agent engines, `internal/agentengine/*` | one process per mode, event channel | Start, Stop, SendUserMessage, Abort, ApplyConfig, events | several goroutines per process that dies at any step, answers that cross notifications | each run reported ready and exited once, no process left behind, busy exactly during a turn, every approval and Stop comes to an end |
| Agent back ends, `codex/appserver`, `claude/process.go`, `claude/remote.go`, the bridge script, `acp/client.go` | pending calls, lines both ways, a queue of messages | call, notify, respond, cancel, close | a client closed under its callers, a script that replaces its child | nobody waits for an answer that cannot come |
| Transcripts, `codex/rollout`, `claude/scanner.go` | position in a session file, lines seen, a channel | tail, scan, forward | takeovers back and forth, lines half written, full channels | a conversation is recorded once and in full |
| Spawned children, `session/spawn_actor.go` | pending replies, a registry file | restore, shut down (spawning has no caller) | asynchronous effects against shutdown | registry equals the living children |
| CLI socket client, `websocket/client.go`, `rpc.go` | connection, token, RPC handlers | connect, refresh token, register methods, keep alive | reconnects, refreshes and old connections that linger | callable while connected |
| Server session runtime, `server/internal/session/runtime` | queue per session, sequence numbers | handle message | the queue drops; number, insert and publication are separate steps that fail | readers see every message once, in order |
| Server presence, `handlers/disconnect.go`, `session_alive.go` | activity and turn of a session | connect, alive, disconnect | the end of an old socket is handled after the new one came | activity and turn settle on the truth |
| Server RPC registry, `rpc_registry.go`, `handlers/rpc.go` | method to socket | register, unregister, forward | a reconnected client's methods against its old socket | a call reaches the living socket and ends |
| Versioned rows, `handlers/*_update.go`, `api/handlers/*` | version and content per field, number per account | read, compare-and-write, create, delete, publish | concurrent writers between the statements, statements that fail | no lost update, followers end with the row |
| Phone SDK, `sdk/sdk.go`, `dispatch.go`, `session_fsm*.go` | queue of calls and events, cached snapshot per session, data keys | connect, list, send, switch, page, apply events | sources that disagree for a while, a call that blocks the queue | the snapshot settles on what the CLI says |
| The rest | | authentication, push, crypto, storage, configuration, attachments, terminals, iOS views | I/O | not candidates for a model checker |

Interaction.  The Manager (and the phone through it) enqueues commands into the
actor; engines and the socket client enqueue events.  The reducer answers with
effects; the runtime goroutine executes them one after the other, spawning a
goroutine for each persist request and each remote send.  What those come to is
enqueued again as an event.  Callers wait on reply channels the runtime fills.
The engines put events on a bounded channel the runtime reads.  The CLI's socket
carries messages, keep-alives, state writes and RPC answers to the server, which
handles the events of a socket one after the other and those of different
sockets concurrently, a database statement at a time, and emits updates and
ephemerals to the account's other sockets.  The phone's SDK puts what arrives in
one queue with the calls of its own app.

## 2. Modules

```
SessionReducer          the pure handlers, State, Effect
  SessionActor          mailbox, loop, effect queue, stimulus budget
    EngineRuntime       engine half of the runtime, engines, takeback watcher
    AgentStateSync      debounce timer, UpdateState calls, connection, session row
    PermissionRequester AwaitPermission callers, the phone's decisions
      SessionSystem     all of them, the Manager's calls, the properties
        MCSession       constants for TLC
        SessionSystem_proofs    lemmas about the reducer, types
          SessionPersistence_proofs, SessionAnswers_proofs,
          SessionAgents_proofs
AgentStateStore         what readers of the session row may rely on

EngineReports           what the session relies on: the reports about runs
EngineEvents            runs, processes, the runtime's goroutine
  CodexLocal            Codex on the terminal
  AppServerClient       JSON-RPC client of the Codex app-server
    CodexRemote         the remote half of the Codex engine
  ClaudeLocal           Claude on the terminal and its scanner
  ClaudeRemote          the bridge, its script, approvals
  AcpEngine             an agent behind HTTP
  Transcripts           session files, their followers, what is recorded
    AgentEngines        one half of an engine at a time, the properties
      MCEngines         a view for TLC
      AgentEngines_proofs

SocketServer            the server's connections, presence, RPC registry
  SocketClient          the CLI's socket client and RPC manager, the properties
    SocketClient_proofs

VersionedRows           what writers of versioned fields are promised
ServerRows              the handlers that write rows, statement by statement
  MCRows                constants for TLC
  ServerRows_proofs

SessionMessages         a session at the server: row, queue, numbers, pages
  PhoneClient           the SDK's dispatcher and snapshot, the properties
    MCPhone             what the environment may do in a run
    PhoneClient_proofs
```

**SessionReducer** has an operator per Go function, named as in `reducer.go`,
each returning the next state and the sequence of effects.  The fields of
`State` carry the Go names.  agentState JSON is the record it encodes plus a
revision, the number of times `State.AgentStateJSON` has been assigned; the
revision is history and no handler reads it.

**SessionActor** is `actor.go`: `inbox` is the mailbox, `effects` the batches
handed to the runtime goroutine and not executed yet, `Handle` one turn of the
loop.  There is one `Reduce...` action per case of the reducer's switch.  The
Go loop reduces and then hands over the batch before it takes the next input, so
the two are one action.  The runtime executes the head of `effects`; each effect
is an action of the module whose half of the runtime it belongs to.

**EngineRuntime** keeps what `Runtime` keeps under its mutex (`engineGen`,
`engineActive`), the state of the engines behind the `AgentEngine` interface
(`live`, `exiting`, `engineEvents`, `engineConfig`) and the send goroutines
(`sends`, `sending` = holder of `engineSendMu`).  `StartEngine` and
`EngineStarted`/`EngineStartFails` are the two ends of the blocking
`engine.Start`, between which everything but the runtime goroutine may run.

**AgentStateSync** has the debounce timer with its window between expiry and
callback (`timer`, `fired`), the concurrent `UpdateState` calls (`updates`), the
requests a client gave up that the server may still see (`orphans`), and the
server's transaction (`server`).

**PermissionRequester** is the loop of `AwaitPermission` per call and the two
channels (`acks`, `decisions`).

**SessionSystem** composes them.  The Manager's calls are records in `calls`
with the phase each has reached.  Claude and Codex engines ask for approvals on
goroutines of their own (`EngineAsks`); the ACP engine asks inside
`SendUserMessage` and so while the send holds the mutex (`SendAsks`, `blocked`).

**EngineEvents and its users.**  The local and the remote half of an engine share
nothing but the event channel, so `half` says which one a behaviour is about and
the variables of the others stay as they were.  A run is a call of `Start`;
`at` is how far the runtime's goroutine has come in `Start`, `Stop` or `Abort`,
`current` the run whose process, client or bridge the engine holds, `handle` the
detached one that is being stopped.  `CodexLocal` has the exit channel of one
place that the probe in `Start`, the stop and the reporting goroutine all read,
and the `child` of an agent: a stop kills the process group and so both, a start
that fails kills the agent alone.
`AppServerClient` has the `pending` map, the reader and the two callers (the
runtime and the message being sent); `CodexRemote` the engine's fields and how
`turn/started`, `turn/completed` and the answers are applied.  A client that is
closed may still be read: `intruded` is history, true once what such a client
said has altered the turn or the report of its successor.  `ClaudeLocal` has
the goroutine that finds the session's file and makes the scanner.
`ClaudeRemote` has the Node script with its queue and its child, the lines both
ways, the `working` flag set and reset by different goroutines, and approvals.
`AcpEngine` has the cancel function that a turn leaves for `Abort`.
`Transcripts` has a file that grows in both modes, its follower with the partly
read line, the bounded channel, and the server's rule that a local id is stored
once.  `lost` and `unseen` are history: the lines that will not be recorded, and
those whose event never got to the phone, each with its cause at the action that
adds to it.  `EngineReports` is the abstract view of all of them.

**SocketServer, SocketClient.**  A connection is a number.  `far` is the server's
end, `sock` the library's; what is under way between them is in `up` and `down`.
`serving` is the event that a connection is handling and the statement it has
reached.  The client's `Connect`, `onConnect`, keep-alive loop, RPC manager and
token refresh are actions of `SocketClient`, as are the steps of `Manager.Start`
that order them.  A keep-alive that the library kept through a long disconnect
may be more than ten minutes old when it arrives, and is then ignored.
socket.io itself is external.

**ServerRows.**  A request is a handler's run (`task`): which row, the versions it
names (`exp`), the statement it is at (`pc`).  All kinds of rows share
`CompareAndWrite`, `Emit` and the re-read, as the SQL does; the handlers differ
in the order of statements and in what a failure is answered with.  `news` is
every update emitted, in no order: sockets may deliver them in any.

**SessionMessages, PhoneClient.**  `cli` is what the CLI says, `row` what the
database has, `fsm` what the phone shows.  `inbox` is the dispatcher's queue of
calls and events, `job` the call its goroutine is in, with the place where it
waits for an answer.  `recent` has the windows that have not run out.  `socks`
are the phone's sockets: a call of `Connect` makes one more (`made`) and does not
close the one in use; of its own it closes one that timed out if a refreshed token
gives it another, and leaves the last to the library, which dials on.
`userSocket` is the one that the SDK's calls use; the events of all come to
`inbox`, each through the `wire` of its own.  `beside` is history: the older
sockets that were alive when a socket was made.

## 3. Runs

`lifecycle`, `persistence` and four of the violations are of `MCSession`.  A budget
says how often each stimulus may happen and how many may happen in all; a run
explores every budget of a set, one per kind of story (`Budgets`).

| Run | Question | Result |
|---|---|---|
| `lifecycle` | three stories: switches and inbound messages with a failing start, send or process and a change of model and mode; switches, a send, an abort, a takeover, a shutdown, the same failures, reports of the agents; two approval calls for one request id from either kind of engine, a retry, a cancellation, two decisions, "yolo", an abort; any three (four) together, with fairness | holds: `InOrderOnce`, `AnsweredOnce`, `RemoteSessionConfigured`, `StartSettles`, `NoHungPermission`, `NoInventedVerdict`, `DecisionReachesEngine`; 318 000 states |
| `persistence` | connects and disconnects, a switch, a configuration change that may time out, two timer expiries, a lost acknowledgement, the persist of `Start`; any four | holds: `TypeOK`, `ArmedTimerRuns`, `StoreSpec`, `NeverForgotten`; 1 330 000 states |
| `rows` | three requests for one group of rows, any handler, every interleaving of their statements, one failing statement | holds: `StoreSpec`, `ReplicasConverge`, `KeysKeepHistory`; 301 000 states |
| `relay` | a session's or a terminal's CLI with two connections, one loss at either end, a refused handshake or refresh, an expired token, a turn, a call, Close | holds: `TypeOK`, `RPCRoutable`, `PresenceSettles`, `CallEnds`; 306 000 states |
| `engines` | local Codex, local and remote Claude, ACP: two runs, three starts, messages and stops together, processes that die at any step | holds: `ReportsSpec`, `ExitReported`, `StrayProcessEnds`, `ScannerStops`, `QuietMeansIdle`, `PermissionAnswered`, `StopEndsAcp`; 72 000 states |
| `turns` | remote Codex with two app-servers; both transcripts with files of up to four lines and a channel of one place | holds: `NoOrphanCall`, `NoLostStart`, `BusyWhileTurn`, `RecordedOnce`, `TranscriptComplete`, `ActivityFollows`; 1 507 000 states |
| `phone` | nine plans of the environment: switches, lists, reconnects, second connects and connects that time out, sends, pages while messages are stored, messages before their key; with failures | holds: `UpdatesInOrder`, `WalkComplete`, `PhoneSettles`; 508 000 states |
| `config_durable`, `stale_exit`, `orphaned_switch`, `wedge`, `stop_claude` | what a comment promises | violated, see section 5 |

What the properties say and why they are not obvious:

* `InOrderOnce`: a message that is on its way is in one of four places: handed to
  an agent, queued as an effect, kept in `PendingRemoteSends`, or in the mailbox.
  Of any two, the one that is further, or ahead in the same place, arrived before
  the other, and they are different messages.  The
  buffer is filled while a start is under way and emptied by a ready or by a
  failed start, with takeovers and restarts in between.
* `AnsweredOnce`: a reply channel is held in one place at a time (mailbox,
  pending switch, waiters, effects) and in none once its call has an answer.
* `RemoteSessionConfigured`: beside the agent of a remote session no local agent
  lives, and once no effect is queued it works with the configuration the session
  shows.  A change during the start is why `reduceRunnerReady` applies it again.
* `StartSettles`: a start ends, whatever late exits, failing sends, takeovers
  and further switches interfere.
* `StoreSpec`: refinement of `AgentStateStore`: each new version of the session
  row publishes an existing revision that is no older than the one before.
* `NeverForgotten`: a change that is on its way to the server is dropped only
  without a connection or when a mismatch finds the retry used up.
* `ArmedTimerRuns`: the reducer's belief that the timer is armed is true, also
  when a timer expired while its cancellation was queued.
* `NoHungPermission`: an engine that waits can still get a decision, or a later
  call for the same request took over.
* `NoInventedVerdict`: a verdict handed to an engine was given by the phone for
  that request or follows from the permission mode of the moment.
* `DecisionReachesEngine`: a decision in the runtime's queue gets to the engine,
  unless the runtime waits for that very engine (section 5).
* `StoreSpec` of `ServerRows`: refinement of `VersionedRows`.  Success means that
  every field of the request replaced exactly the version it named, all at one
  moment, whichever statements of other requests lie between the read, the write
  and the answer.
* `ReplicasConverge`: numbers are taken after the write, so updates may be
  published in the other order than the rows were written.  A client that keeps
  the highest version it hears of still ends with the row.
* `KeysKeepHistory`: deleting a key keeps its version, so that a writer who read
  before the deletion is refused after it.
* `RPCRoutable`: the server may notice the end of an old connection long after the
  new one has registered its methods; the late clean-up does not take them away.
  It speaks of the socket that the RPC manager listens on; one that a token
  refresh made is not that one (a hazard in `PROJECT.json`).
* `PresenceSettles`: the statements of a disconnect and of the keep-alives of the
  next connection interleave, and a keep-alive may carry a working flag read
  before the turn changed.  Once losses stop, row, turn and phones agree with the
  CLI.
* `CallEnds`: a forwarded call is answered or times out, whatever becomes of its
  connection.
* `ReportsSpec`: refinement of `EngineReports` by all halves.  `ExitReported` is its
  live side: a process that dies, also in the middle of `Start`, is reported, fails
  the start or is already replaced.
* `StrayProcessEnds`, `ScannerStops`: a run that was stopped or replaced leaves no
  agent, no child of an agent and no follower of its file behind, although the
  agent may end before the stop comes to it.  Of a start that fails only the agent
  is claimed to go (section 5).
* `NoOrphanCall`: a client that closes, or whose process ends, leaves no caller
  waiting, not even one that was about to register.
* `NoLostStart`, `BusyWhileTurn`: notifications of a turn may come before the answer
  that names it; a send is not reported as not begun when it was, and once all is
  read the engine is busy exactly when the app-server it is attached to is.  That
  holds also of an app-server that replaced another, although the old one may have
  had a turn and a report under way when it was closed, with one exception that is
  a defect: its reader may apply a last line after the stop has reset the turn
  (`intruded`, section 5).
* `QuietMeansIdle`: `working` is set before a message is written and reset by the
  result on another goroutine; with the order swapped a turn would stay shown.
* `PermissionAnswered`, `StopEndsAcp`: approvals and Stops come to an end although
  the run is replaced, the call cancelled or the turn between two requests.
* `RecordedOnce`, `TranscriptComplete`, `ActivityFollows`: after any number of
  takeovers each line of a session file is at most one message of the session, and
  a message that the follower is past is missing only if it is `lost`: torn, dropped
  by a full channel, left on it when local mode stopped, or, with Codex, written
  while nobody read (section 5).  The phone is told of the turn and shows the tools
  that the lines it saw leave running; what it did not see is `unseen`, so that a
  tool whose output was skipped is claimed to stay, as it does.
* `UpdatesInOrder`, `WalkComplete`: numbers are allocated before messages are
  inserted and published after; the app still gets messages in order and none
  twice, and the walk through the pages, while more are stored, leaves none out.
  Two messages that came through sockets which lived beside each other are
  excepted from the first (section 5).
* `PhoneSettles`: the snapshot made of lists, activity, updates and
  acknowledgements ends as what the CLI says, unless the phone was not sent the
  last change of control (it was disconnected, and asks for no list by itself) or
  has replaced it by an older one (section 5).

Each property of a passing run has a mutant in `PROJECT.json`: an operator that
stands beside the one it replaces and makes a plausible mistake (a lost effect,
a swapped pair of effects, a field not reset, an unconditional retry, a weaker
comparison), and that violates the property in the same run.

## 4. Bounds and fairness

Two callers, one or two messages, one request id with two callers, two models
and the modes "default" and "yolo" are what the races need: each involves two
requests, two generations or two calls.  Messages, models and ids are opaque to
the reducer, so more of them repeat the same behaviours.  The budgets bound the
generations (two switches, a fall-back and a restart reach the fourth), the
revisions and the queues.  They bound the depth of the interference, not the
interleavings: everything the process does by itself is unrestricted.
`CHECK_DEADLOCK` is off because a bounded run ends when its budget is spent and
the process is idle.

The other runs:

* `rows`.  Two requests suffice for every race between a writer and a writer, a
  deletion or a creation, and a third makes the row go through an ABA.  Requests
  for different tables share no statement but the account's number, so a run is
  about one group of rows (`OneGroup`); versions 0 and 1, and -1 for a key that
  is not there, name the past, the present and the future of a row that three
  requests can bring about.  Requests and keys are symmetric.
* `relay`.  Two connections are the old and the new one; every race in the code is
  between those.  One loss, one refusal and one turn each fall at any point.
* `engines`, `turns`.  Two runs are the replaced and the replacing one.  Three
  inputs allow a start, a message and a Stop, or a restart with a message before
  or after.  A channel of one place overflows at once; files of four lines hold a
  call and its output around a takeover and back.  `MaxLines` is 0 in `engines`,
  whose halves write no transcripts.  `turns` has a `VIEW`: the ids of a client's
  calls are only compared with each other, so `MCEngines` sees an id by how many
  calls were made since, and two states that differ in the number of earlier calls
  are one.
* `phone`.  A plan names the calls the app may make and how many events, messages
  and failures may happen; together the plans have every call, and each failure
  falls at any point.  Three sockets (`MaxSockets`) are a first, a second that a
  repeated or failed connect leaves beside it, and a third made in the same way or
  for a refreshed token.  Pages of two and a queue of two reach the cases of a full
  page, of a walk that moves and of a dropped message with four messages.

`CHECK_DEADLOCK` is off in all of them for the same reason: when its inputs are
used up and nothing is left to do, the program waits.

Fairness of the session: `FairSpec` asks for weak fairness of `Internal` as a whole: what the process does
by itself without a new stimulus.  Go's scheduler runs every runnable goroutine,
`engine.Start` and `engine.Stop` are called with timeouts and socket calls return
within five seconds, so while an internal step can be taken one is.  Nothing more
is needed: with finitely many stimuli the internal steps of a run come to an end,
so none is passed over for ever.  No stimulus is fair.  The debounce timer counts
as a stimulus, so no property relies on it.  `StartSettles` needs only a start
that either returns or fails: the report of an exit may be lost.

Fairness elsewhere.  In `AgentEngines` each goroutine of a half that a property
depends on is weakly fair: its select, read or wait returns when there is
something to return, every wait on an agent has a timeout in the code, and a
killed process dies.  What agents and people do is not fair; Claude's script reads
its input, and an approval that nobody decides is refused after five minutes or
with the context of its run.  `turns` needs no fairness.  In `SocketClient` the client's
goroutines, the server's handlers and the timeout of a forwarded call are fair,
and each end notices that the other is gone (ping timeouts); calls, turns, losses
and the token's expiry are not.  In `PhoneClient` the dispatcher, the server's
handlers, the CLI's keep-alives (every thirty seconds while connected), the library's
reconnects and the passing of the SDK's windows are fair; calls, events and
failures are not.

## 5. Where code and comments disagree

Five runs check what a comment of the code says, and TLC finds a behaviour of the
code that contradicts it:

* `config_durable`.  `manager_agent_config.go:39`: "Ensure the change is persisted
  before returning, so callers can reliably observe the updated values via
  listSessions."  `reduceAgentStatePersisted` (`reducer.go:1085`) completes all
  waiters on any acknowledgement; that of the preceding mode switch, which was
  under way when the configuration changed, will do.
* `stale_exit`.  `types.go:53`: "Runtime completion events must include the
  generation so stale exits/readies can be ignored."  `handleEngineEvent` tags an
  event with the generation current at reading (`runtime_engine.go:199`), so the
  late exit of a replaced run counts as that of its successor and closes the
  session while the new agent is alive.
* `orphaned_switch`.  `types.go:74`: "PendingSwitchReply is completed when a switch
  finishes (runner ready) or fails (runner exit during starting)."  A second
  switch overwrites it (`reducer.go:528`); the comment there asks callers to
  serialize, but the switch an inbound message causes has no caller.  Until the
  session closes the first caller waits.
* `wedge`.  `runtime_engine.go:400`: "Always send asynchronously so we never
  deadlock the runtime loop while an engine is blocked on tool approvals".
  `applyEngineConfig` waits for the same mutex on the runtime goroutine
  (`runtime_engine.go:471`); with the ACP engine the decision is then queued
  behind the wait until the permission context ends.
* `stop_claude`.  `agentengine.go:201`: "Working is true while the engine is
  processing a turn."  Abort has the script kill its child
  (`claude_remote_bridge.cjs:230`), which then sends no result, and
  `handleRemoteBridgeMessage` (`engine.go:662`) resets `working` on nothing else;
  the "aborted" that `remote.go:436` expects is never sent.  The phone shows a
  turn that nobody works on until a later message has its result.
  `QuietMeansIdle` excepts turns that were cut short.

Differences seen while translating, without a run of their own:

* `users.go:125` says "Update with optimistic concurrency control", but the
  statement is an `:exec` that may match no row (`accounts.sql.go:216`): a write
  with a stale version changes nothing, is answered as a success and published.
  `ReplicasConverge` and `StoreSpec` leave the settings of accounts out.
* `artifact_create.go:20` promises to return an existing artifact; of two concurrent
  creations one is answered "Internal error".
* `client.go:76` (websocket) refreshes the token after a `connect_error`, but the
  server accepts the connection of an expired token, emits "error" and disconnects
  (`socketio_connection.go:43`): the refresh starts only behind a proxy that
  refuses the handshake, which is what `Gateway` in `relay.cfg` stands for.
* `scanner.go:165` keeps uuids to "handle the case when Claude resumes a session and
  replays history", but the map belongs to one scanner.  What was said in remote
  mode is recorded with fresh ids by the bridge and again, with Claude's, by the
  scanner of the next local run.  `RecordedOnce` excepts those lines.
* The phone applies updates of agentState without comparing versions
  (`sdk.go:1169`): one that waits in the queue replaces what a list has read after
  it.  `PhoneSettles` excepts it through `overtaken`.
* `sdk.go:397`: "The server will echo the localId back in message updates"; the
  update skips the sender's socket.
* `codexengine/engine.go:527-532` wants "the full Codex local process tree" torn down
  on stop, since "killing only the parent can leave the child running"; a start that
  fails (`:576`, `:587`) has only `cmd.Process.Kill()`, of the parent.  A child that
  Codex had by then stays, and `StrayProcessEnds` claims nothing of it.  A stop kills
  the group, also when the parent is gone already; `parentOnly`, the mutant, is a
  stop that does not.
* `connect` (`sdk.go:300-346`) makes a socket without closing the one in use, and
  returns an error while the library still dials the one that failed.  All have the
  same listener (`handleUpdateQueued`), so a message comes once from each socket
  that is open, and what one still brings comes late.  The iOS app disconnects
  first in most places (`SDKBridge.swift:993`, `1260`, `1389`), which closes only the
  socket in use.  `UpdatesInOrder` excepts messages of sockets that lived beside
  each other, and nothing else; without the exception TLC has a message twice after
  two connects.
* `handleTurnStarted` and `handleTurnCompleted` (`remote_appserver.go:405-467`) do not
  ask which client a line is from.  A stop resets `remoteActiveTurnID`
  (`engine.go:759`), and a reader that holds a last "turn/started" of the stopped
  app-server sets it again; its successor is then refused messages
  (`remoteBusyLocked`, `engine.go:1232`), and shown as working, until a turn of its own ends, for which it
  would need a message.  `BusyWhileTurn` excepts what such a reader altered
  (`intruded`) and not the successors of app-servers as such; without the exception
  TLC finds this.
* `engine.go:560` says of the rollout file of a fresh session "read from the beginning".
  One that is resumed is opened at the end (`:558`, `:585`): what was written before,
  by the new process too, is not recorded, without any channel overflowing.  Nor is
  what is unread when local mode stops.  The engine forgets the tools it knew
  (`:608`, `:741-746`) and tells the phone nothing, so that a tool whose output was
  skipped is shown for good.  Both are in `lost` and `unseen`.
* `auth.go:33` gives challenges five minutes; `expires_at` is stored in the server's
  zone and compared as text with UTC, so that west of Greenwich the next request
  prunes every outstanding challenge.

* `reducer.go:121` calls `schedulePersistDebounced` idempotent, arming a timer
  "only if one isn't already pending"; the function (1204-1214) always cancels
  and restarts.
* `runtime_permission_requester.go:71` says the reducer "will avoid duplicate
  ephemerals"; `reducer.go:1051` says and does the opposite.
* `reducer.go:648` injects buffered messages into the local runner after a failed
  remote start; the effects carry the generation of that start and
  `runtime_engine.go:371` drops them whenever a local run of another generation
  was started before.
* `types.go:103` describes `PersistInFlight` as "whether an agent state
  persistence request is currently in flight"; a debounced persist clears it
  while a request is out and a mode switch does not set it.
* `manager_start.go:319` compares the requests of the previous and the next state
  to notify the user of new ones; the reducer changes the map in place, so both
  are the same map.

## 6. Proofs

`tlapm` checks the proof modules.  The proofs about the session share the
lemmas at the beginning of `SessionSystem_proofs`, one per handler: the next state is a `State`
and the effects are a sequence of `Effect` (and, where a proof needs it, which
effects there are).  Their theorems hold for every set of messages, callers,
models, tokens and requests and every budget, under `ConstantsOK`, `BudgetOK`,
`StateUpdaterOK` and `InitialOK` only; those about the rows for every set of
requests, rows and versions and every number of failing statements, under
`RowsOK` (tables are disjoint, `None` is no request, row or expectation); those
about engines and sockets for every number of runs, inputs, lines, connections,
losses and turns, under `EventsOK`, `TranscriptsOK`, `ServerOK` and `ClientOK`;
those about the phone for every queue, page, budget and number of sockets, under
`MessagesOK` (the queue and a page have room for one).
No proof uses fairness.

**TypeCorrect** (`SessionSystem_proofs`): `Spec => []TypeOK`.  `TypeOK` alone is
not inductive: while the runtime goroutine is inside `engine.Start` the model
reads mode, generation and configuration from the effect at the head of the
queue, and nothing in `TypeOK` says that a `StartRunner` effect is there.  The
inductive invariant adds `StartHeld`: while `starting`, the queue is not empty
and its head is a `StartRunner` effect.  It holds because every other effect is
executed only when its own type is at the head, and the reducer only appends.
The proof has one step per action.

**StoreImplemented** (`SessionPersistence_proofs`): `Spec => StoreSpec`, the refinement
of `AgentStateStore` under `latest <- st.AgentStateJSON.rev`,
`version <- server.version`, `published <- server.json.rev`.  A write is accepted
when the request expects the row's version; that alone does not keep an older
revision from replacing a newer one.  The invariant `StoreInv` on top of the
typing has three parts.  `RowBehind`: neither the row's revision nor the version
the reducer knows is ahead.  `RequestsSound`: each request, whether still an
effect, under way or given up, carries an existing revision and expects a version
that exists, and if it expects the *current* version of the row its revision is
at least that of the row.  `AnswersTrue`: versions in answers exist.  The point is
the second: a request that could overwrite the row cannot carry an older
agentState, because the reducer learns a new version only from an answer and
takes the revision for the next request after that, and the revision it holds is
never behind the row.  Each step then maps to `Change`, `Publish` or a stutter.

**ArmedTimer** (`SessionPersistence_proofs`): `Spec => []ArmedTimerRuns`.  The reducer
sets `PersistDebounceTimerArmed` when it *emits* the effects; the timer follows
when they are executed, and other effects may lie between.  A timer that runs may
have a cancel ahead of it in the queue, and a start in the queue may have a cancel
behind it, so that `ArmedTimerRuns` is not inductive.  `TimerInv` is about the last
timer effect of the queue: while armed, either it is a start (`Starts`), or the
queue has no cancel (`Spares`) and the timer runs, has expired, or its event is in
the mailbox.  For each handler a lemma shows that it disarms, or starts the timer
last, or leaves flag and timer alone (`TimerKept`); the handler that takes
`evTimerFired`, and with it the evidence, disarms.

**ChangeCarried** (`SessionPersistence_proofs`): `StateUpdater` proves `Spec => NeverForgotten`.
`Underway` names what may stand for a change that the server lacks: the timer, an
expired one, an effect that starts it or asks for the newest agentState, a call of
`UpdateState`, one of three events in the mailbox.  Each step that takes one of these
has to leave another.  The reducer's emission of an effect and its execution are the
difficulty once more: a `CancelTimer` that is executed takes the timer, whatever the
reducer believes.  `CarryInv` is that behind every `CancelTimer` in the queue waits a
`StartTimer` or a request with the newest agentState.  A handler that changes
agentState, or cancels, ends with one of the two (`Carried`); so does each of the three
that take an event which was evidence, except in the cases `NeverForgotten` excuses.  A
call that the server accepts ends the change (`~Dirty'`), any other answer and every
timeout becomes an event.  Without an updater the runtime drops the requests, hence the
hypothesis; `Start` configures one in every session (`manager_start.go:291`).

**RowsImplementStore** and **KeyHistory** (`ServerRows_proofs`): `Spec =>
StoreSpec`, the refinement of `VersionedRows` by the handlers, and `Spec =>
KeysKeepHistory`.  A request is abstractly asked from its first statement,
succeeds with the `UPDATE` that matched (the handler is then at `publish`, before
it has answered), and is refused with its answer.  What makes the proof go
through is not in the statement of the properties: a handler that refreshes or
creates a session relies on both fields of a row being there together, although
it looks at one.  The invariant `RowsInv` therefore says that a row which can be
created is there with all of its fields or with none (`Whole`), that a handler
writes its own content, that it names versions of fields that exist unless they
are those of keys, and keys only if it is `MutateKV` (`HandlerOK`), and that no
request is answered before its handler ends (`Open`).  Each statement is then
`Succeed`, `Refuse`, `Ask`, `Rewrite`, `Create`, `Remove` or a stutter.

**ReplicasEnd** (`ServerRows_proofs`): `Spec => []ReplicasConverge`.  The property
is about a moment when all handlers have ended.  `HeardInv` says how it comes to
that, by following contents from the fields to the updates: `Said` is what has been
emitted and what handlers hold and will still emit.  The content of a field that
changed is in `Said`, unless a handler is about to read the row it will publish
(`Current`); nothing in `Said` has a later version than the field, or another
content under the same version (`Newest`); and nobody speaks of a row before it
is there (`Unborn`).  When the handlers have ended, what was said has been emitted.

**DecisionReachable** and **VerdictGiven** (`SessionAnswers_proofs`): `Spec =>
[]NoHungPermission` and `Spec => NoInventedVerdict`.  `PermissionInv` is that a
call which was acknowledged and has no verdict has somebody who will give it: the
promise of its request is held by a call of the same request, or the completion
of one is an effect in the queue, or is in a channel (`NobodyForgotten`).  A retry
takes a promise over, a change of mode completes all of them, and the phone
decides by request, not by call; each handler has a lemma that says which of the
three it turns a promise into.  `Promised` relates the promises to the requests
the phone is shown, and `FromPhone` the decisions in the mailbox to those given.

**RepliesOnce** (`SessionAnswers_proofs`): `Spec => []AnsweredOnce`.  `CallsInv` is
about places rather than numbers: a reply channel is held at an index of the mailbox,
among the effects, by a waiter for the persistence, or by the pending switch, in one
of these at most (`Once`), and in none before the call reaches the mailbox or after its
success.  Handlers differ only in what they do with the channel of their input.
Each either answers it, keeps it for the switch and answers the switch it replaces,
answers the pending switch, adds a waiter, or answers all waiters; and each of these
`Passes`: no channel that was in one place comes to be in two, and none appears from
nowhere.  The runtime, the Manager and the budget only take channels out or put an idle
caller's in.  That the places are as many as `occurrences` counts is a matter of
cardinalities, at the end.

**MessagesOrdered** and **RemoteConfigured** (`SessionAgents_proofs`): `Spec =>
[]InOrderOnce` and `Spec => []RemoteSessionConfigured`.  Both are about what turns of
the loop do to agents, and most handlers differ in what is of no concern to them.  So
each handler is described once, by what it forwards and how it steers.  It `Forwards`:
what it sends and what it then keeps is, in this order, what was kept, and perhaps the
message that came in behind it.  It `Steers`: either no agent is started or configured
(`Drifts`), or exactly one is started, with the next generation (`Restarts`), or the
one that runs is given the configuration (`Configures`).  `StepKinds` says that a step
is a turn so described, a step of the engines, or one of the other parts, which touch
nothing of this.

For the order, `MessagesInv` compares the four places two by two (`Ordered`), knows
that what is on its way has arrived (`Arrived`), and that nothing is kept while the
remote agent runs (`Flushed`).  Without the last a message that comes in then would be
sent ahead of one that is kept.

For the configuration, `RunsInv` has to know which run is the one that lives.  The
mode started last has the higher generation, and a session that runs remotely is in
the generation of its remote run (`Generations`).  The starts in the queue are newer
than all that were started, and than those before them (`Queue`), so that a start that
is executed is never taken for an old one.  The one that is under way has been noted
(`UnderWay`), and only the mode started last has a live run (`Live`).  A report that
a runner is ready carries a generation that was started (`Tags`); otherwise the
reducer could enter remote mode for a run that is still in the queue.
Then, in remote mode, either nothing in the queue concerns runs and the live one has
the configuration, or the last thing that does configures the current generation
with it (`Config`); the generation is why the runtime will not drop it.  That no
local agent lives beside the remote one follows from `Live` and `Generations`.

**SocketTypes** and **CallsRouted** (`SocketClient_proofs`): `Spec => []TypeOK` and
`Spec => []RPCRoutable`.  The invariant adds to both how the two ends of a
connection are related (`Ends`) and where registrations of RPC methods may be
under way (`Registering`): never among the events the library keeps for later,
none at all before the RPC manager has listened, and, once it listens on the
newest socket, only on its connection.  So a late registration cannot take a
method back to a connection that was given up, and a late disconnect removes only
what is its own.

**ReportsImplemented** (`AgentEngines_proofs`): `Spec => ReportsSpec`, the refinement
of `EngineReports` by all halves of the engines.  Whether a run that is started
was already reported ready is known from the place that the runtime's goroutine
has reached (`starting`, `replacing`); which exits are still to come, from the
goroutines that wait for processes (`reporting`).  `ReportsInv` says that these and
the reports made so far exclude each other; every step then is `Start`, `Ready`,
`Fail`, `Exit` or a stutter.

**RecordsOnce**, **RecordsComplete**, **ActivityShown**: `Spec => []RecordedOnce`,
`Spec => []TranscriptComplete`, `Spec => []ActivityFollows`.  A line of a session's
file is forwarded, or on the channel, or lost, or not yet read.  The channel has
lines before the follower's position, in order (`Follows`); `Once` says that no line
is in two of these places, `Complete` that a message before the position is in one.
`Shown` follows the phone: of the lines before the position, those `heard` come
before those on the channel, the phone is told of the last message among them, and
shows the calls among them that no output among them ends.  `Alternates` is that
Codex's tools run one at a time, without which an output would not tell which call
it ends.

**CallsAttended**, **StartNotLost**, **TurnsFollowed**: `Spec => []NoOrphanCall`, `Spec =>
NoLostStart` and `Spec => []BusyWhileTurn` for the Codex app-server.  A request id is
in one place: in the hands of its caller, on the way to the app-server, or in the answer.
`CallsInv` says so, that the ids of the two callers differ, and that none is above
the client's counter; a call that is refused and tried again has a new id.  For the
turns, `TurnInv` follows the app-server that is attached, whichever it is.  While it
is being made it is asked nothing but to initialize and has no turn (`Making`), and
before that nobody uses it (`Unused`).  Once it is attached, what remains in its inbox
leads from the turn the engine knows to the one it is in (`Lined`), and how far its
reader is in handling a line says whether `working` is behind (`Attends`).  The
phone was told what the engine believes, or a report of it is on its way (`Reported`):
that of the attached reader, of one that was stopped, or of the stop itself.  The
last two are why a replaced app-server matters without having altered anything; from
the moment it did (`intruded`), nothing is claimed.

**NoTurnLeft**: `Spec => []QuietMeansIdle` for Claude's bridge.  `working` is set by the
sender before it writes, set by the reader on "thinking", and reset by the reader on
"result".  While no turn was cut short, an engine that believes in a turn has a
message being sent or is owed its end: the message is on its way to the script, in its
queue, with a busy child, or its result is in the output (`Idle`).  That a "thinking"
which is read late does not start a turn anew needs `Thought`: behind it in the
output comes a result, unless the child is still busy.

**UpdatesOrdered** and **PagesComplete** (`PhoneClient_proofs`): `Spec =>
[]UpdatesInOrder` and `Spec => []WalkComplete`, for every number of sockets.  For the
first, what has come to the dispatcher is one line: the messages given, the one kept
by the call that reads the sessions for the key, those in the queue.  In the line and
in each socket's wire the numbers rise, and those in the line are below those in the
wires (`InLine`), always except between sockets that lived beside each other; and
sockets that are open do (`LiveSockets`), so that no more is needed of two wires.  A
number under way from the server is above all of these (`Numbered`), and one that is
being stored is above all that are (`StoredInOrder`): that the loop stores one message
at a time is essential; two at a time is the mutant.  For the pages, `Seen` says that between the last page's oldest number and
the newest of the first page nothing is missing, and that when no page is left that
oldest number is below all of them.  It needs what a page contains (`PageOfLog`: the
greatest numbers below the bound, and whether any are left), and that what is stored
meanwhile has a number above all others, and so above the newest of the first page.

Only model-checked: liveness, which is out of the prover's reach: `StartSettles`,
`DecisionReachesEngine`, `PresenceSettles`, `CallEnds`, `ExitReported`,
`StrayProcessEnds`, `ScannerStops`, `PermissionAnswered`, `StopEndsAcp` and
`PhoneSettles`.  Every invariant and every other property of a step that a passing
run checks is a theorem.

## 7. Abstractions

* Messages, models, tokens, request ids, reply channels are opaque.
  `reasoningEffort` behaves like `model` and is left out; "safe-yolo" is treated
  by the code exactly like "yolo".
* The reducer's echo-suppression windows, outbound messages, UI events, rollout
  path, thread goals, engine-settings queries, activity ephemerals, terminal
  flags and `LastExitErr` are left out.  So are branches for an empty session id
  or agentState JSON (both are set before the first input), and three handlers no
  code enqueues (`cmdPersistAgentState`, `cmdSetControlledByUser`,
  `evPermissionRequested`).
* History, read by no action's guard: `rev`, `run`, `dispatched`, `delivered`,
  `answered`; `arrivals` only to make each message fresh.
* The session row starts equal to the seeded agentState (revision 0) and without
  pending requests.
* The server's compare-and-write is one action: it is one SQL statement.  The
  re-read after a mismatch is merged with it; another version could be read only
  if a second write came between, whose own answer then carries it.
* An engine may report an exit late or lose the report (`ReportExit`: a full event
  channel, or the second goroutine of a codex exit); an abort may leave the send
  in progress.
* One session mixes both kinds of engines (asking on a goroutine, asking inside a
  send): more behaviours than either has alone.
* Mailboxes are unbounded; the budgets keep them far below their 8192 places.
* Permission timeouts, acknowledgement timeouts and cancellations are choices of
  the environment.
* Engines: the contents of records and UI events, capabilities, settings and goals
  are left out; Codex's approval prompts are answered by mode in the client and
  need nobody.  The scanner's own removal of repeated uuids, history replayed
  within one file, and lines that a killed agent left half-written are left out:
  the follower reads each complete line once.  `log` is what an engine reports; the
  reducer drops reports of a run that is not the current one (`reducer.go:217`), so
  that the last lines of a local run of Codex which wait in the mailbox during a
  switch do not reach the server.  The discovery of a rollout file may
  pick that of another session (`engine.go:1398`); here it finds its own or none.
  Codex refuses a call with "unknown variant" at most once, for the enumerations are
  spelled in two ways and the second is tried.
* Relay: one CLI; presence statements do not fail; phones are `seen`, what they were
  last sent, and `Calls`.  Two CLIs in one directory share their ids and would
  share `methods`.  Only a keep-alive that the library kept can be too old: in
  transit the ping timeout comes first.
* Rows: `updated_at`, data keys, the last best-effort read after a failure, the
  activity columns of terminals, a null agentState (which publishes nothing), a key
  named twice in a request, and tags in use by another terminal are left out.
  Artifact handlers over sockets and HTTP execute the same statements and differ
  in their answers.
* Phone: a presence report is one step (its statements are `SocketServer`'s); updates
  that carry data keys of new sessions, and paging by offset or afterSeq are left
  out.  An HTTP answer is
  applied in the step of its last query.

## 8. Not modelled

Listed with reasons in `PROJECT.json`.  In short:

* I/O and data transformation: cryptography, storage, configuration, push,
  notifications, terminals, git, the iOS views, the wire types.
* Attachments: one mutex, and a phone that sends one request at a time and cancels
  on any failure.  What could go wrong is a matter of two clocks (a hazard in
  `PROJECT.json`).
* Authentication and pairing: requests over SQL, one after the other.
* Spawned children and the older event runtime: the first is only read at start,
  because nothing calls the command that adds a child; the second was replaced by
  the actor.
* `cli/internal/codex/client.go` and the fetch tracking of `claude/process.go`:
  nothing uses them.
* Parts of modelled components, named in section 7 and in the components' notes.

## 9. Plan

1. Restart of the CLI in `SessionSystem`, with pending requests in the row, and
   content properties (`controlledByUser` against the mode, the row against the
   reducer's agentState).
2. The echo windows of the reducer as functions over short histories, with the
   outbound messages they suppress.
3. The mailbox and the engines' event channels at their capacity.
4. Two CLIs of one account that share a directory, and with it their ids.
