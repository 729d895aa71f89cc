------------------------------ MODULE Transcripts ------------------------------
(***************************************************************************)
(* What a local agent writes to its session file, and how the engine makes  *)
(* the session's messages of it: Claude's Scanner and Codex's Tailer follow *)
(* the file, a channel of bounded size takes the lines to the goroutine     *)
(* that emits the engine's events, and the server stores a record unless    *)
(* its local id is taken.  In remote mode the same file grows, and the      *)
(* remote half records what it says.  A line is known by its place.         *)
(***************************************************************************)
EXTENDS EngineEvents

CONSTANTS
  MaxLines,      \* bound: lines of the session's file
  ChannelSize    \* lines between the reader and the forwarder; 128 and 100 in the code

ASSUME TranscriptsOK == MaxLines \in Nat /\ ChannelSize \in Nat \ {0}

VARIABLES
  file,       \* kinds of the lines written
  writing,    \* the kind of a line of which a part is written
  remotely,   \* lines written in remote mode
  follower,   \* the lines it is past, and whether it has read that part
  channel,    \* lines read and not forwarded
  running,    \* tools the phone shows as running, by the line of the call
  log,        \* what the server has stored: line and local id, 0 for a new one
  lost,       \* history: messages that nobody will record any more
  unseen      \* history: lines whose EvWorking or EvUIEvent nobody will give any more

transcriptVars == <<file, writing, remotely, follower, channel, running, log, lost, unseen>>

notReading == [on |-> FALSE, pos |-> 0, torn |-> FALSE]

TranscriptsInit ==
  /\ file = <<>> /\ writing = "none" /\ remotely = {}
  /\ follower = notReading /\ channel = <<>>
  /\ running = {} /\ log = <<>> /\ lost = {} /\ unseen = {}

ofCodex == half = "codex transcript"
ofClaude == half = "claude transcript"

lastOf(kinds) == {i \in DOMAIN file : /\ file[i] \in kinds
                                    /\ \A j \in DOMAIN file : j > i => file[j] \notin kinds}

messagesOf(lines) == {i \in lines : file[i] \in {"record", "user", "text"}}
eventsOf(lines) == {i \in lines : file[i] # "record"}

calling == \E i \in lastOf({"call", "output"}) : file[i] = "call"

\* Claude's lines are all records; Codex calls a tool at a time.
Kinds ==
  IF ofClaude THEN {"record"}
  ELSE {"user", "text"} \cup (IF calling THEN {"output"} ELSE {"call"})

----------------------------------------------------------------------------
\* The server

\* Mutant: each record gets a new id.
newID(i) == 0

\* A record of Claude's file has Claude's id for it; the others get a new one.
localID(i) == IF ofClaude THEN i ELSE 0

\* UNIQUE(session_id, local_id)
stored(i, id) ==
  IF id # 0 /\ \E n \in DOMAIN log : log[n].id = id THEN log
  ELSE Append(log, [line |-> i, id |-> id])

----------------------------------------------------------------------------
\* The agent

\* A line reaches the file at once, or in two parts.
AgentWrites ==
  /\ at = "local" /\ Len(file) < MaxLines
  /\ \/ /\ writing = "none"
        /\ \E k \in Kinds : \/ file' = Append(file, k) /\ UNCHANGED writing
                            \/ writing' = k /\ UNCHANGED file
     \/ /\ writing # "none"
        /\ file' = Append(file, writing) /\ writing' = "none"
  /\ UNCHANGED <<eventVars, remotely, follower, channel, running, log, lost, unseen>>

\* A remote turn: its records have ids of their own.
RemoteTurn ==
  /\ at = "remote" /\ writing = "none" /\ Len(file) < MaxLines
  /\ \E k \in Kinds \cap {"record", "user", "text"} : file' = Append(file, k)
  /\ remotely' = remotely \cup {Len(file')}
  /\ log' = stored(Len(file'), 0)
  /\ UNCHANGED <<eventVars, writing, follower, channel, running, lost, unseen>>

----------------------------------------------------------------------------
\* The runs

StartsLocal ==
  /\ at \in {"rest", "remote"} /\ started < MaxRuns /\ writing = "none"
  /\ started' = started + 1
  /\ GoTo("local")
  /\ UNCHANGED <<half, failed, ready, exited, phoneVars, current, handle, proc, transcriptVars>>

\* Mutant: also Claude's file is read from its end.
endOfFile == IF started > 1 THEN Len(file) ELSE 0

\* TailerOptions.StartAtEnd for a session that is resumed
startOf == IF ofCodex /\ started > 1 THEN Len(file) ELSE 0

\* The agent may have written by then.  Of the lines that Codex's Tailer skips, those of
\* a remote turn are recorded, and the phone is not told of any; nor is it told that the
\* tools it shows have ended.
ReaderOpens ==
  LET skipped == (follower.pos + 1)..startOf IN
  /\ at = "local" /\ ~follower.on
  /\ follower' = [on |-> TRUE, pos |-> startOf, torn |-> FALSE]
  /\ lost' = IF ofClaude THEN {} ELSE lost \cup messagesOf(skipped \ remotely)
  /\ unseen' = unseen \cup eventsOf(skipped)
  /\ UNCHANGED <<eventVars, file, writing, remotely, channel, running, log>>

onChannel == {channel[k] : k \in DOMAIN channel}

\* The forwarder leaves what is on the channel.
StopsLocal ==
  /\ at = "local" /\ follower.on
  /\ GoTo("remote")
  /\ follower' = [follower EXCEPT !.on = FALSE, !.torn = FALSE] /\ channel' = <<>>
  /\ lost' = lost \cup messagesOf(onChannel) /\ unseen' = unseen \cup eventsOf(onChannel)
  /\ UNCHANGED <<half, reportVars, phoneVars, current, handle, proc, file, writing, remotely,
                 running, log>>

----------------------------------------------------------------------------
\* The reader

\* It finds the part of a line at the end of the file: that part is dropped.
ReadsPart ==
  /\ follower.on /\ writing # "none"
  /\ follower.pos = Len(file) /\ ~follower.torn
  /\ follower' = [follower EXCEPT !.torn = TRUE]
  /\ UNCHANGED <<eventVars, file, writing, remotely, channel, running, log, lost,
                 unseen>>

nextLine == follower.pos + 1

\* The rest of a line is not JSON; a line the channel has no room for is dropped.
ReadsLine ==
  /\ follower.on /\ follower.pos < Len(file)
  /\ follower' = [follower EXCEPT !.pos = nextLine, !.torn = FALSE]
  /\ LET kept == ~follower.torn /\ Len(channel) < ChannelSize IN
       \/ kept /\ channel' = Append(channel, nextLine) /\ UNCHANGED <<lost, unseen>>
       \/ /\ ~kept /\ UNCHANGED channel
          /\ lost' = lost \cup messagesOf({nextLine})
          /\ unseen' = unseen \cup eventsOf({nextLine})
  /\ UNCHANGED <<eventVars, file, writing, remotely, running, log>>

----------------------------------------------------------------------------
\* The forwarder

\* Mutant: only the exit of the agent ends a turn.
everWorking(kind) == TRUE

\* A turn begins with what the user says and ends with what the agent says.
working(kind) == kind = "user"

Forwards(kinds) ==
  /\ channel # <<>> /\ file[Head(channel)] \in kinds
  /\ channel' = Tail(channel)
  /\ UNCHANGED <<half, reportVars, runtimeVars, pressed, sends, stops, proc, file, writing, remotely,
                 follower>>

\* tryEmit drops an event that the session does not take in time: a record is not
\* taken, a report is not seen.
records(took) ==
  /\ log' = IF took THEN stored(Head(channel), localID(Head(channel))) ELSE log
  /\ lost' = IF took THEN lost ELSE lost \cup {Head(channel)}

reports(saw) == unseen' = IF saw THEN unseen ELSE unseen \cup {Head(channel)}

\* A record of Claude's file.
ForwardsRecord == \E took \in BOOLEAN :
  /\ Forwards({"record"})
  /\ records(took)
  /\ UNCHANGED <<told, running, unseen>>

\* What the user or Codex says: EvWorking, then the record.
ForwardsMessage == \E saw, took \in BOOLEAN :
  /\ Forwards({"user", "text"})
  /\ told' = IF saw THEN working(file[Head(channel)]) ELSE told
  /\ reports(saw) /\ records(took)
  /\ UNCHANGED running

ForwardsCall == \E saw \in BOOLEAN :
  /\ Forwards({"call"})
  /\ running' = IF saw THEN running \cup {Head(channel)} ELSE running
  /\ reports(saw)
  /\ UNCHANGED <<told, log, lost>>

\* The output names its call.
callOf(i) == CHOOSE j \in 1..i : file[j] = "call" /\ \A k \in (j + 1)..i : file[k] # "call"

ForwardsOutput == \E saw \in BOOLEAN :
  /\ Forwards({"output"})
  /\ running' = IF saw THEN running \ {callOf(Head(channel))} ELSE running
  /\ reports(saw)
  /\ UNCHANGED <<told, log, lost>>

TranscriptNext ==
  \/ AgentWrites \/ RemoteTurn \/ StartsLocal \/ StopsLocal
  \/ ReaderOpens \/ ReadsPart \/ ReadsLine
  \/ ForwardsRecord \/ ForwardsMessage \/ ForwardsCall \/ ForwardsOutput
=============================================================================
