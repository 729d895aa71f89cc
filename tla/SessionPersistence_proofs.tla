------------------------ MODULE SessionPersistence_proofs ------------------------
(***************************************************************************)
(* How agentState reaches the session row, for all values of the constants. *)
(*                                                                          *)
(* StoreImplemented: the row never goes back; the detailed pipeline of      *)
(* SessionSystem implements AgentStateStore.  A request to persist carries  *)
(* the version it expects and a revision that was the newest when it was    *)
(* made.  Of two requests that expect the same version only the first one   *)
(* can be written; so the proof has to show that a request which still      *)
(* expects the current version carries no older revision than the row.      *)
(* That is what Sound says, and what survives whatever order, loss and      *)
(* lateness of the requests.                                                *)
(*                                                                          *)
(* A change is not forgotten.  ArmedTimer: whenever the reducer takes the   *)
(* debounce timer to be armed, the timer runs, is about to be started, or   *)
(* has expired and its event is on the way.  ChangeCarried: what stands for *)
(* a change that the server does not have is replaced by something else     *)
(* that does, except in the two cases in which the code drops the change.   *)
(*                                                                          *)
(* The reducer and the runtime disagree for as long as effects wait in the  *)
(* queue: a StartTimer may be followed by a CancelTimer of a later input,   *)
(* and the timer that runs now may be about to be cancelled by an effect of *)
(* an earlier one.  So the invariant of ArmedTimer is about the last timer  *)
(* effect of the queue: while armed, it starts the timer, or there is none  *)
(* that cancels it and the timer has what ArmedTimerRuns asks for.  That    *)
(* of ChangeCarried is about all of them: behind each CancelTimer there is  *)
(* an effect that makes the runtime send the newest agentState.             *)
(***************************************************************************)
EXTENDS SessionSystem_proofs

----------------------------------------------------------------------------
(* The row: the inductive invariant.                                       *)

\* A request that can still be written would not take the row back.
Sound(q, row, latest) ==
  /\ q.expected <= row.version
  /\ q.json.rev <= latest
  /\ q.expected = row.version => row.json.rev <= q.json.rev

Latest == st.AgentStateJSON.rev

RowBehind ==
  /\ server.json.rev <= st.AgentStateJSON.rev
  /\ st.AgentStateVersion <= server.version

RequestsSound ==
  /\ \A i \in DOMAIN effects : effects[i].type = "PersistAgentState" => Sound(effects[i], server, Latest)
  /\ \A i \in DOMAIN updates : Sound(updates[i], server, Latest)
  /\ \A o \in orphans : Sound(o, server, Latest)

\* No answer names a version the row has not reached.
AnswersTrue ==
  /\ \A i \in DOMAIN updates : updates[i].version <= server.version
  /\ \A i \in DOMAIN inbox : inbox[i].type \in Answers => inbox[i].version <= server.version

StoreInv == RowBehind /\ RequestsSound /\ AnswersTrue

----------------------------------------------------------------------------
(* Numbers behind the records.                                             *)

\* Revisions and versions are numbers, before a step
LEMMA RowNumbers ==
  ASSUME TypeOK
  PROVE  /\ st.AgentStateJSON.rev \in Nat /\ st.AgentStateVersion \in Nat
         /\ server.version \in Nat /\ server.json.rev \in Nat
<1>1. st.AgentStateJSON \in AgentStateJSON /\ st.AgentStateVersion \in Nat
  BY StateFields DEF TypeOK, ActorTypeOK
<1>2. server.version \in Nat /\ server.json \in AgentStateJSON
  BY DEF TypeOK, SyncTypeOK, ServerRow
<1> QED BY <1>1, <1>2 DEF AgentStateJSON

\* and after it.
LEMMA NextRowNumbers ==
  ASSUME TypeOK'
  PROVE  /\ st'.AgentStateJSON.rev \in Nat /\ st'.AgentStateVersion \in Nat
         /\ server'.version \in Nat /\ server'.json.rev \in Nat
<1>1. st'.AgentStateJSON \in AgentStateJSON /\ st'.AgentStateVersion \in Nat
  BY StateFields DEF TypeOK, ActorTypeOK
<1>2. server'.version \in Nat /\ server'.json \in AgentStateJSON
  BY DEF TypeOK, SyncTypeOK, ServerRow
<1> QED BY <1>1, <1>2 DEF AgentStateJSON

\* So are those of the requests to persist.
LEMMA RequestNumbers ==
  ASSUME TypeOK
  PROVE  /\ \A i \in DOMAIN effects : effects[i].type = "PersistAgentState" =>
              effects[i].expected \in Nat /\ effects[i].json.rev \in Nat
         /\ \A i \in DOMAIN updates : /\ updates[i].expected \in Nat
                                      /\ updates[i].json.rev \in Nat
                                      /\ updates[i].version \in Nat
         /\ \A o \in orphans : o.expected \in Nat /\ o.json.rev \in Nat
<1>1. ASSUME NEW i \in DOMAIN effects, effects[i].type = "PersistAgentState"
      PROVE  effects[i].expected \in Nat /\ effects[i].json.rev \in Nat
  <2>1. effects[i] \in Effect
    BY DEF TypeOK, ActorTypeOK
  <2> QED BY <1>1, <2>1, EffectFields DEF AgentStateJSON
<1>2. ASSUME NEW i \in DOMAIN updates
      PROVE  updates[i].expected \in Nat /\ updates[i].json.rev \in Nat /\ updates[i].version \in Nat
  <2>1. updates[i] \in Update
    BY DEF TypeOK, SyncTypeOK
  <2> QED BY <2>1 DEF Update, AgentStateJSON
<1>3. ASSUME NEW o \in orphans
      PROVE  o.expected \in Nat /\ o.json.rev \in Nat
  BY DEF TypeOK, SyncTypeOK, Orphan, AgentStateJSON
<1> QED BY <1>1, <1>2, <1>3

----------------------------------------------------------------------------
(* Steps that take no part in the persistence of agentState.               *)

\* The queue of effects is left alone or loses its head.
Consumed == effects' = effects \/ (effects # <<>> /\ effects' = Tail(effects))

\* The mailbox is left alone, or gets an input that is no answer.
NoAnswer == inbox' = inbox \/ \E in : in.type \notin Answers /\ inbox' = Append(inbox, in)

Elsewhere == UNCHANGED <<st, server, updates, orphans>> /\ Consumed /\ NoAnswer

\* An input that is no answer.
LEMMA PostNoAnswer ==
  ASSUME NEW in, Post(in), in.type \notin Answers
  PROVE  NoAnswer
BY Zenon DEF Post, NoAnswer

\* No effect is new.
LEMMA ConsumedKept ==
  ASSUME ActorTypeOK, Consumed
  PROVE  \A i \in DOMAIN effects' : \E j \in DOMAIN effects : effects'[i] = effects[j]
<1>1. CASE effects' = effects
  BY <1>1
<1>2. CASE effects # <<>> /\ effects' = Tail(effects)
  <2>1. ASSUME NEW i \in DOMAIN effects'
        PROVE  i + 1 \in DOMAIN effects /\ effects'[i] = effects[i + 1]
    BY <1>2, <2>1 DEF ActorTypeOK
  <2> QED BY <2>1
<1> QED BY <1>1, <1>2 DEF Consumed

\* No answer is new.
LEMMA NoAnswerKept ==
  ASSUME ActorTypeOK, NoAnswer
  PROVE  \A i \in DOMAIN inbox' : inbox'[i].type \in Answers =>
           \E j \in DOMAIN inbox : inbox'[i] = inbox[j]
<1>1. CASE inbox' = inbox
  BY <1>1
<1>2. ASSUME NEW in, in.type \notin Answers, inbox' = Append(inbox, in)
      PROVE  \A i \in DOMAIN inbox' : inbox'[i].type \in Answers =>
               \E j \in DOMAIN inbox : inbox'[i] = inbox[j]
  BY <1>2 DEF ActorTypeOK
<1> QED BY <1>1, <1>2 DEF NoAnswer

\* Such a step keeps the invariant.
LEMMA ElsewhereKept ==
  ASSUME TypeOK, StoreInv, Elsewhere
  PROVE  StoreInv'
<1> USE DEF TypeOK
<1>1. server' = server /\ Latest' = Latest
  BY DEF Elsewhere, Latest
<1>2. RequestsSound'
  BY <1>1, ConsumedKept DEF StoreInv, RequestsSound, Elsewhere
<1>3. RowBehind' /\ AnswersTrue'
  BY NoAnswerKept DEF StoreInv, RowBehind, AnswersTrue, Elsewhere
<1> QED BY <1>2, <1>3 DEF StoreInv

----------------------------------------------------------------------------
(* A turn of the loop.                                                     *)

\* The only request to persist that a handler adds carries the newest revision
\* and the version the reducer knows.
LEMMA PublishedSound ==
  ASSUME TypeOK, TypeOK', RowBehind', NEW e \in Publishing(st'), e.type = "PersistAgentState"
  PROVE  Sound(e, server', Latest')
<1>1. e = persistEffect(st')
  BY Zenon DEF Publishing, Quiet
<1>2. e.json = st'.AgentStateJSON /\ e.expected = st'.AgentStateVersion
  BY <1>1, Zenon DEF persistEffect, effPersistAgentState
<1> QED BY <1>2, NextRowNumbers DEF RowBehind, Sound, Latest

\* A turn keeps the invariant and makes one revision at most.
LEMMA TurnKept ==
  ASSUME TypeOK, TypeOK', StoreInv, Turned, UNCHANGED syncVars
  PROVE  /\ StoreInv'
         /\ st'.AgentStateJSON.rev \in {st.AgentStateJSON.rev, st.AgentStateJSON.rev + 1}
<1>1. In = inbox[1] /\ 1 \in DOMAIN inbox
  BY DEF Turned, In, TypeOK, ActorTypeOK
<1>2. st'.AgentStateJSON.rev \in {st.AgentStateJSON.rev, st.AgentStateJSON.rev + 1}
  BY Zenon DEF Turned, Follows
<1>3. st.AgentStateJSON.rev <= st'.AgentStateJSON.rev
  BY <1>2, RowNumbers
<1>4. server' = server /\ updates' = updates /\ orphans' = orphans
  BY DEF syncVars
<1>5. st'.AgentStateVersion <= server.version
  <2>1. CASE Follows(st, st')
    BY <2>1 DEF Follows, StoreInv, RowBehind
  <2>2. CASE In.type \in Answers /\ st'.AgentStateVersion \in {st.AgentStateVersion, In.version}
    BY <1>1, <2>2 DEF StoreInv, RowBehind, AnswersTrue
  <2> QED BY <2>1, <2>2 DEF Turned
<1>6. RowBehind'
  BY <1>3, <1>4, <1>5, RowNumbers, NextRowNumbers DEF StoreInv, RowBehind
<1>7. ASSUME NEW q, Sound(q, server, Latest), q.json.rev \in Nat
      PROVE  Sound(q, server', Latest')
  BY <1>3, <1>4, <1>7, RowNumbers, NextRowNumbers DEF Sound, Latest
<1>8. RequestsSound'
  <2>1. PICK e \in Seq(Publishing(st')) : effects' = effects \o e
    BY DEF Turned
  <2>2. ASSUME NEW i \in DOMAIN effects', effects'[i].type = "PersistAgentState"
        PROVE  Sound(effects'[i], server', Latest')
    <3>1. \/ i \in DOMAIN effects /\ effects'[i] = effects[i]
          \/ effects'[i] \in Publishing(st')
      BY <2>1, <2>2 DEF TypeOK, ActorTypeOK
    <3>2. CASE i \in DOMAIN effects /\ effects'[i] = effects[i]
      BY <1>7, <2>2, <3>2, RequestNumbers DEF StoreInv, RequestsSound
    <3>3. CASE effects'[i] \in Publishing(st')
      BY <1>6, <2>2, <3>3, PublishedSound
    <3> QED BY <3>1, <3>2, <3>3
  <2>3. \A i \in DOMAIN updates : Sound(updates[i], server', Latest')
    BY <1>7, RequestNumbers DEF StoreInv, RequestsSound
  <2>4. \A o \in orphans : Sound(o, server', Latest')
    BY <1>7, RequestNumbers DEF StoreInv, RequestsSound
  <2> QED BY <1>4, <2>2, <2>3, <2>4 DEF RequestsSound
<1>9. AnswersTrue'
  <2>1. \A i \in DOMAIN inbox' : i + 1 \in DOMAIN inbox /\ inbox'[i] = inbox[i + 1]
    BY DEF Turned, TypeOK, ActorTypeOK
  <2> QED BY <1>4, <2>1 DEF StoreInv, AnswersTrue
<1> QED BY <1>2, <1>6, <1>8, <1>9 DEF StoreInv

----------------------------------------------------------------------------
(* The requests.                                                           *)

\* The server's transaction keeps every other request sound, and publishes a
\* revision no older than the one it replaces.
LEMMA ServerAfterSound ==
  ASSUME TypeOK, StoreInv, NEW u, Sound(u, server, Latest), u.json.rev \in Nat, u.expected \in Nat,
         server' = serverAfter(u), UNCHANGED st
  PROVE  /\ RowBehind'
         /\ server.version <= server'.version
         /\ \A q : q.expected \in Nat /\ q.json.rev \in Nat /\ Sound(q, server, Latest)
                => Sound(q, server', Latest)
         /\ server' = server \/ Store!Publish
<1>1. CASE accepted(u)
  <2>1. server'.version = server.version + 1 /\ server'.json = u.json
    BY <1>1 DEF serverAfter
  <2>2. RowBehind' /\ server.version <= server'.version
    BY <2>1, RowNumbers DEF StoreInv, RowBehind, Sound, Latest
  <2>3. \A q : q.expected \in Nat /\ q.json.rev \in Nat /\ Sound(q, server, Latest)
                => Sound(q, server', Latest)
    BY <2>1, RowNumbers DEF Sound, Latest
  <2>4. Store!Publish
    BY <1>1, <2>1, RowNumbers DEF accepted, Sound, Latest, Store!Publish
  <2> QED BY <2>2, <2>3, <2>4
<1>2. CASE ~accepted(u)
  <2>1. server' = server
    BY <1>2 DEF serverAfter
  <2>2. RowBehind' /\ server.version <= server'.version
    BY <2>1, RowNumbers DEF StoreInv, RowBehind
  <2> QED BY <2>1, <2>2
<1> QED BY <1>1, <1>2

\* A request leaves for the server with what the effect carries.
LEMMA PersistKept ==
  ASSUME TypeOK, StoreInv, PersistAgentState
  PROVE  StoreInv' /\ UNCHANGED <<st, server>>
<1> USE DEF TypeOK
<1> DEFINE u == [json |-> Effect1.json, expected |-> Effect1.expected,
                 phase |-> IF online THEN "sent" ELSE "refused", version |-> 0]
<1>1. UNCHANGED <<st, server, orphans, inbox>>
  BY DEF PersistAgentState
<1>2. updates' = updates \/ updates' = Append(updates, u)
  BY Zenon DEF PersistAgentState
<1>3. Sound(Effect1, server, Latest)
  <2>1. Effect1 = effects[1] /\ 1 \in DOMAIN effects /\ effects[1].type = "PersistAgentState"
    BY DEF PersistAgentState, NextEffect, Effect1, ActorTypeOK
  <2> QED BY <2>1 DEF StoreInv, RequestsSound
<1>4. Sound(u, server, Latest) /\ u.version <= server.version
  BY <1>3, RowNumbers DEF Sound
<1> HIDE DEF u
<1>5. \A i \in DOMAIN updates' : updates'[i] = u \/ \E j \in DOMAIN updates : updates'[i] = updates[j]
  BY <1>2 DEF SyncTypeOK
<1>6. server' = server /\ Latest' = Latest
  BY <1>1 DEF Latest
<1>7. Consumed
  BY DEF PersistAgentState, NextEffect, Executed, Consumed
<1>8. RequestsSound'
  BY <1>1, <1>4, <1>5, <1>6, <1>7, ConsumedKept DEF StoreInv, RequestsSound
<1>9. RowBehind' /\ AnswersTrue'
  BY <1>1, <1>4, <1>5 DEF StoreInv, RowBehind, AnswersTrue
<1> QED BY <1>1, <1>8, <1>9 DEF StoreInv

\* A request reaches the server, from a call in progress or from one given up.
LEMMA ArrivalKept ==
  ASSUME TypeOK, StoreInv,
         \/ \E i \in DOMAIN updates : UpdateArrives(i)
         \/ \E o \in orphans : OrphanArrives(o)
  PROVE  /\ StoreInv'
         /\ UNCHANGED st
         /\ server' = server \/ Store!Publish
<1> USE DEF TypeOK
<1>1. ASSUME NEW i \in DOMAIN updates, UpdateArrives(i)
      PROVE  StoreInv' /\ UNCHANGED st /\ (server' = server \/ Store!Publish)
  <2> DEFINE u == updates[i]
             v == [u EXCEPT !.phase = IF accepted(u) THEN "ok" ELSE "mismatch",
                            !.version = serverAfter(u).version]
  <2>1. u \in Update /\ Sound(u, server, Latest) /\ u.json.rev \in Nat /\ u.expected \in Nat
    BY RequestNumbers, RemoveUpdateType DEF StoreInv, RequestsSound
  <2>2. /\ updates' = [updates EXCEPT ![i] = v] /\ server' = serverAfter(u)
        /\ UNCHANGED <<st, inbox, effects, orphans>>
    BY <1>1 DEF UpdateArrives, actorVars
  <2>3. v.json = u.json /\ v.expected = u.expected /\ v.version = server'.version
    BY <2>1, <2>2 DEF Update
  <2> HIDE DEF u, v
  <2>4. /\ RowBehind'
        /\ server.version <= server'.version
        /\ \A q : q.expected \in Nat /\ q.json.rev \in Nat /\ Sound(q, server, Latest)
                    => Sound(q, server', Latest)
        /\ server' = server \/ Store!Publish
    BY <2>1, <2>2, ServerAfterSound
  <2>5. Latest' = Latest
    BY <2>2 DEF Latest
  <2>6. Sound(v, server', Latest)
    BY <2>1, <2>3, <2>4 DEF Sound
  <2>7. /\ DOMAIN updates' = DOMAIN updates
        /\ \A j \in DOMAIN updates : updates'[j] = IF j = i THEN v ELSE updates[j]
    BY <2>2 DEF SyncTypeOK
  <2>8. RequestsSound'
    BY <2>2, <2>4, <2>5, <2>6, <2>7, RequestNumbers DEF StoreInv, RequestsSound
  <2>9. server'.version \in Nat
    BY <2>1, <2>2, ServerAfterType DEF Update, ServerRow
  <2>10. \A j \in DOMAIN updates' : updates'[j].version <= server'.version
    BY <2>3, <2>4, <2>7, <2>9, RowNumbers, RequestNumbers DEF StoreInv, AnswersTrue
  <2>11. \A j \in DOMAIN inbox' : inbox'[j].type \in Answers => inbox'[j].version <= server'.version
    <3>1. ASSUME NEW j \in DOMAIN inbox, inbox[j].type \in Answers
          PROVE  inbox[j].version \in Nat
      BY <3>1, InputFields DEF ActorTypeOK, Answers
    <3> QED BY <2>2, <2>4, <2>9, <3>1, RowNumbers DEF StoreInv, AnswersTrue
  <2> QED BY <2>2, <2>4, <2>8, <2>10, <2>11 DEF StoreInv, AnswersTrue
<1>2. ASSUME NEW o \in orphans, OrphanArrives(o)
      PROVE  StoreInv' /\ UNCHANGED st /\ (server' = server \/ Store!Publish)
  <2>1. Sound(o, server, Latest) /\ o.json.rev \in Nat /\ o.expected \in Nat
        /\ o.json \in AgentStateJSON
    BY RequestNumbers DEF StoreInv, RequestsSound, SyncTypeOK, Orphan
  <2>2. /\ orphans' = orphans \ {o} /\ server' = serverAfter(o)
        /\ UNCHANGED <<st, inbox, effects, updates>>
    BY <1>2 DEF OrphanArrives, actorVars
  <2>3. /\ RowBehind'
        /\ server.version <= server'.version
        /\ \A q : q.expected \in Nat /\ q.json.rev \in Nat /\ Sound(q, server, Latest)
                    => Sound(q, server', Latest)
        /\ server' = server \/ Store!Publish
    BY <2>1, <2>2, ServerAfterSound
  <2>4. Latest' = Latest
    BY <2>2 DEF Latest
  <2>5. RequestsSound'
    BY <2>2, <2>3, <2>4, RequestNumbers DEF StoreInv, RequestsSound
  <2>6. server'.version \in Nat
    BY <2>1, <2>2, ServerAfterType DEF ServerRow
  <2>7. AnswersTrue'
    <3>1. ASSUME NEW j \in DOMAIN inbox, inbox[j].type \in Answers
          PROVE  inbox[j].version \in Nat
      BY <3>1, InputFields DEF ActorTypeOK, Answers
    <3> QED BY <2>2, <2>3, <2>6, <3>1, RowNumbers, RequestNumbers DEF StoreInv, AnswersTrue
  <2> QED BY <2>2, <2>3, <2>5, <2>7 DEF StoreInv
<1> QED BY <1>1, <1>2

\* Removing an element adds none.
LEMMA RemoveAtElements ==
  ASSUME NEW S, NEW s \in Seq(S), NEW i \in DOMAIN s
  PROVE  \A j \in DOMAIN RemoveAt(s, i) : \E k \in DOMAIN s : RemoveAt(s, i)[j] = s[k]
<1> DEFINE T == {s[k] : k \in DOMAIN s}
<1>1. \A k \in 1..Len(s) : s[k] \in T
  OBVIOUS
<1> HIDE DEF T
<1>2. s \in Seq(T)
  BY <1>1
<1>3. RemoveAt(s, i) \in Seq(T)
  BY <1>2 DEF RemoveAt
<1>4. \A j \in DOMAIN RemoveAt(s, i) : RemoveAt(s, i)[j] \in T
  BY <1>3
<1> QED BY <1>4 DEF T

\* The call of a request ends, with an answer or without one.
LEMMA ReturnKept ==
  ASSUME TypeOK, StoreInv, NEW i \in DOMAIN updates, UpdateReturns(i) \/ UpdateTimesOut(i)
  PROVE  StoreInv' /\ UNCHANGED <<st, server>>
<1> USE DEF TypeOK
<1>1. UNCHANGED <<st, server, effects>> /\ updates' = RemoveAt(updates, i)
  BY DEF UpdateReturns, UpdateTimesOut
<1>2. Latest' = Latest
  BY <1>1 DEF Latest
<1>3. \A j \in DOMAIN updates' : \E k \in DOMAIN updates : updates'[j] = updates[k]
  BY <1>1, RemoveAtElements DEF SyncTypeOK
<1>4. \A o \in orphans' : Sound(o, server, Latest)
  <2> DEFINE new == [json |-> updates[i].json, expected |-> updates[i].expected]
  <2>1. Sound(new, server, Latest)
    BY DEF StoreInv, RequestsSound, Sound
  <2>2. orphans' = orphans \/ orphans' = orphans \cup {new}
    BY Zenon DEF UpdateReturns, UpdateTimesOut
  <2> QED BY <2>1, <2>2 DEF StoreInv, RequestsSound
<1>5. RequestsSound'
  BY <1>1, <1>2, <1>3, <1>4 DEF StoreInv, RequestsSound
<1>6. \A j \in DOMAIN inbox' : inbox'[j].type \in Answers => inbox'[j].version <= server.version
  <2>1. PICK in : /\ inbox' = Append(inbox, in)
                  /\ in.type \in Answers => in.version = updates[i].version
    BY DEF UpdateReturns, UpdateTimesOut, Post, answerOf, Answers
  <2>2. in.type \in Answers => in.version <= server.version
    BY <2>1 DEF StoreInv, AnswersTrue
  <2> QED BY <2>1, <2>2 DEF StoreInv, AnswersTrue, ActorTypeOK
<1>7. RowBehind' /\ AnswersTrue'
  BY <1>1, <1>3, <1>6 DEF StoreInv, RowBehind, AnswersTrue
<1> QED BY <1>1, <1>5, <1>7 DEF StoreInv

----------------------------------------------------------------------------
(* All the other steps are elsewhere.                                      *)

\* An engine event is no answer of the server.
LEMMA InputOfNoAnswer ==
  ASSUME NEW ev \in EngineEvent
  PROVE  inputOf(ev).type \notin Answers
<1>1. ev.type \in {"Ready", "Exited", "Identified", "Working"}
  BY EngineEventFields
<1> QED BY <1>1 DEF inputOf, Answers

\* The engine half of the runtime.
LEMMA RuntimeElsewhere ==
  ASSUME IInv, UNCHANGED syncVars,
         EngineStep \/ SendSucceeds \/ (\E x \in sending : SendFails(x)) \/ EngineStimulus
  PROVE  Elsewhere
<1> USE DEF Elsewhere, Consumed, NextEffect, Executed, syncVars
<1>1. CASE StopEngineLocal \/ StopEngineRemote
  BY <1>1 DEF StopEngineLocal, StopEngineRemote, stopEngine, NoAnswer
<1>2. CASE StartEngine \/ \E x \in exiting : ReportExit(x)
  BY <1>2 DEF StartEngine, ReportExit, actorVars, NoAnswer
<1>3. CASE EngineStarted
  <2>1. effects # <<>>
    BY <1>3 DEF EngineStarted, IInv, StartHeld
  <2> QED BY <1>3, <2>1 DEF EngineStarted, NoAnswer
<1>4. CASE HandleEngineEvent
  <2>1. inputOf(Head(engineEvents)).type \notin Answers
    BY <1>4, HeadTailProperties, InputOfNoAnswer DEF HandleEngineEvent, IInv, TypeOK, EngineTypeOK
  <2> QED BY <1>4, <2>1, PostNoAnswer DEF HandleEngineEvent
<1>5. CASE EngineRemoteSend \/ EngineRemoteAbort \/ ApplyEngineConfig \/ EngineLocalSendLine
           \/ SetTakebackWatcher
  BY <1>5 DEF EngineRemoteSend, EngineRemoteAbort, ApplyEngineConfig, EngineLocalSendLine,
              SetTakebackWatcher, NoAnswer
<1>6. CASE SendSucceeds \/ \E x \in sends : SendBegins(x)
  BY <1>6 DEF SendSucceeds, SendBegins, actorVars, NoAnswer
<1>7. CASE EmitKey
  <2> DEFINE key == [type |-> IF pressed = "takeback" THEN "evDesktopTakeback" ELSE "cmdShutdown"]
  <2>1. key.type \in {"evDesktopTakeback", "cmdShutdown"}
    OBVIOUS
  <2>2. Post(key) /\ st' = st /\ effects' = effects
    BY <1>7 DEF EmitKey
  <2> HIDE DEF key
  <2>3. key.type \notin Answers
    BY <2>1 DEF Answers
  <2>4. NoAnswer
    BY <2>2, <2>3, PostNoAnswer
  <2> QED BY <2>2, <2>4
<1>8. ASSUME NEW x \in sending, SendFails(x)
      PROVE  Elsewhere
  <2>1. UNCHANGED inbox => NoAnswer
    BY DEF NoAnswer
  <2> QED BY <1>8, <2>1, PostNoAnswer DEF SendFails, Answers
<1>9. CASE EngineStartFails
  BY <1>9, PostNoAnswer DEF EngineStartFails, Answers
<1>10. CASE \/ \E m \in Modes, err \in Results : RunExits(m, err)
            \/ \E m \in Modes, token \in Tokens : Identify(m, token)
            \/ \E m \in Modes, w \in BOOLEAN : ReportWorking(m, w)
            \/ \E k \in {"takeback", "shutdown"} : PressKey(k)
  BY <1>10 DEF RunExits, Identify, ReportWorking, ReportFromRun, PressKey, NoAnswer
<1> QED BY <1>1, <1>2, <1>3, <1>4, <1>5, <1>6, <1>7, <1>8, <1>9, <1>10 DEF EngineStep,
           EngineStimulus

\* The debounce timer and the connection.
LEMMA TimerElsewhere ==
  ASSUME \/ StartTimer \/ CancelTimer \/ TimerCallback \/ Connect \/ Disconnect \/ TimerExpires
  PROVE  Elsewhere
<1> USE DEF Elsewhere, Consumed, NextEffect, Executed
<1>1. CASE StartTimer \/ CancelTimer
  BY <1>1 DEF StartTimer, CancelTimer, NoAnswer
<1>2. CASE TimerExpires
  BY <1>2 DEF TimerExpires, NoAnswer
<1>3. CASE TimerCallback \/ Connect \/ Disconnect
  BY <1>3, PostNoAnswer DEF TimerCallback, Connect, Disconnect, Answers
<1> QED BY <1>1, <1>2, <1>3

\* AwaitPermission.
LEMMA PermissionElsewhere ==
  ASSUME UNCHANGED syncVars,
         \/ PermissionStep \/ PermissionStimulus
         \/ \E r \in Requests, v \in {"allow", "deny"} : \E known : PhoneDecides(r, v, known)
         \/ \E a \in Awaits : \E k : AwaitPermission(a, k)
  PROVE  Elsewhere
<1> USE DEF Elsewhere, Consumed, NextEffect, Executed, syncVars
<1>1. CASE PermissionStep
  BY <1>1 DEF PermissionStep, AwaitAcknowledged, AwaitDecided, SignalAck,
              CompletePermissionDecision, EmitPermissionRequest, actorVars, NoAnswer
<1>2. ASSUME NEW a \in Awaits, AwaitCancelled(a)
      PROVE  Elsewhere
  BY <1>2 DEF AwaitCancelled, NoAnswer
<1>3. ASSUME NEW a \in Awaits, NEW k, AwaitRetries(a) \/ AwaitPermission(a, k)
      PROVE  Elsewhere
  BY <1>3, PostNoAnswer DEF AwaitRetries, AwaitPermission, Answers
<1>4. ASSUME NEW r \in Requests, NEW v \in {"allow", "deny"}, NEW known, PhoneDecides(r, v, known)
      PROVE  Elsewhere
  BY <1>4, PostNoAnswer DEF PhoneDecides, Answers
<1> QED BY <1>1, <1>2, <1>3, <1>4 DEF PermissionStimulus

\* The Manager.
LEMMA ManagerElsewhere ==
  ASSUME UNCHANGED syncVars, ManagerStep \/ ManagerStimulus
  PROVE  Elsewhere
<1> USE DEF Elsewhere, Consumed, NextEffect, Executed, syncVars
<1>1. CASE CompleteReply \/ StartReadsState \/ \E c \in Calls : ConfigTimesOut(c)
  BY <1>1 DEF CompleteReply, StartReadsState, ConfigTimesOut, NoAnswer
<1>2. CASE \/ \E c \in Calls : AwaitConfigPersisted(c)
           \/ \E doc \in snapshot : StartPersistsState(doc)
           \/ InboundUserMessage
  BY <1>2, PostNoAnswer DEF AwaitConfigPersisted, StartPersistsState, InboundUserMessage, Answers
<1>3. CASE \/ \E target \in Modes : SwitchMode(target)
           \/ SendUserMessage \/ AbortRemote
           \/ \E req \in ConfigRequests : SetAgentConfig(req)
  BY <1>3, PostNoAnswer DEF SwitchMode, SendUserMessage, AbortRemote, SetAgentConfig, begin, Answers
<1> QED BY <1>1, <1>2, <1>3 DEF ManagerStep, ManagerStimulus

----------------------------------------------------------------------------
(* The theorem.                                                            *)

\* The row starts as the session knows it.
LEMMA StoreInit == Init => StoreInv /\ Store!Init
<1> SUFFICES ASSUME Init PROVE StoreInv /\ Store!Init
  OBVIOUS
<1>1. IInv
  BY InitType
<1>2. /\ server.version = st.AgentStateVersion /\ server.json = st.AgentStateJSON
      /\ effects = <<>> /\ inbox = <<>> /\ updates = <<>> /\ orphans = {}
  BY DEF Init, ActorInit, SyncInit
<1>3. st.AgentStateJSON.rev = 0
  BY DEF Init, ActorInit, InitialState
<1>4. StoreInv
  BY <1>1, <1>2, RowNumbers DEF IInv, StoreInv, RowBehind, RequestsSound, AnswersTrue
<1> QED BY <1>1, <1>2, <1>3, <1>4, RowNumbers DEF IInv, Store!Init

\* Every step of the session keeps the invariant, and is a step of the store
\* or one that its readers do not see.
LEMMA StoreStep ==
  ASSUME IInv, IInv', StoreInv, [Next]_vars
  PROVE  StoreInv' /\ [Store!Next]_(Store!vars)
<1> USE DEF IInv
<1>1. CASE UNCHANGED <<st, server>> /\ StoreInv'
  BY <1>1 DEF Store!vars
<1>2. CASE Elsewhere
  <2>1. StoreInv' /\ UNCHANGED <<st, server>>
    BY <1>2, ElsewhereKept DEF Elsewhere
  <2> QED BY <1>1, <2>1
<1>3. CASE LoopStep
  <2>1. Turned /\ UNCHANGED syncVars
    BY <1>3, ReduceType DEF LoopStep, TypeOK
  <2>2. /\ StoreInv'
        /\ st'.AgentStateJSON.rev \in {st.AgentStateJSON.rev, st.AgentStateJSON.rev + 1}
    BY <2>1, TurnKept
  <2>3. server' = server
    BY <2>1 DEF syncVars
  <2> QED BY <2>2, <2>3 DEF Store!Next, Store!Change, Store!vars
<1>4. CASE RuntimeStep \/ (EngineStimulus /\ engineOnly)
  <2>1. UNCHANGED syncVars
    BY <1>4 DEF RuntimeStep, engineOnly
  <2>2. Elsewhere
    BY <1>4, <2>1, RuntimeElsewhere DEF RuntimeStep
  <2> QED BY <1>2, <2>2
<1>5. CASE SyncStep \/ SyncStimulus
  <2>1. CASE \/ StartTimer \/ CancelTimer \/ TimerCallback \/ Connect \/ Disconnect
             \/ TimerExpires
    BY <1>2, <2>1, TimerElsewhere
  <2>2. CASE PersistAgentState
    BY <1>1, <2>2, PersistKept
  <2>3. CASE \/ \E i \in DOMAIN updates : UpdateArrives(i)
             \/ \E o \in orphans : OrphanArrives(o)
    <3>1. StoreInv' /\ UNCHANGED st /\ (server' = server \/ Store!Publish)
      BY <2>3, ArrivalKept
    <3> QED BY <3>1 DEF Store!Next, Store!vars
  <2>4. CASE \E i \in DOMAIN updates : UpdateReturns(i) \/ UpdateTimesOut(i)
    BY <1>1, <2>4, ReturnKept
  <2> QED BY <1>5, <2>1, <2>2, <2>3, <2>4 DEF SyncStep, SyncStimulus
<1>6. CASE /\ \/ PermissionStep \/ PermissionStimulus
              \/ \E r \in Requests, v \in {"allow", "deny"} : \E known : PhoneDecides(r, v, known)
           /\ permissionOnly
  <2>1. UNCHANGED syncVars
    BY <1>6 DEF permissionOnly
  <2> QED BY <1>2, <1>6, <2>1, PermissionElsewhere
<1>7. CASE (ManagerStep \/ ManagerStimulus) /\ managerOnly
  <2>1. UNCHANGED syncVars
    BY <1>7 DEF managerOnly
  <2> QED BY <1>2, <1>7, <2>1, ManagerElsewhere
<1>8. CASE SendResumes /\ UNCHANGED <<engineVars, syncVars>>
  BY <1>2, <1>8 DEF SendResumes, actorVars, syncVars, Elsewhere, Consumed, NoAnswer
<1>9. CASE \E a \in Awaits : (EngineAsks(a) \/ SendAsks(a)) /\ UNCHANGED <<engineVars, syncVars>>
  <2>1. \E a \in Awaits : \E k : AwaitPermission(a, k)
    BY <1>9 DEF EngineAsks, SendAsks
  <2> QED BY <1>2, <1>9, <2>1, PermissionElsewhere
<1>10. CASE UNCHANGED vars
  BY <1>2, <1>10 DEF vars, actorVars, syncVars, Elsewhere, Consumed, NoAnswer
<1> QED BY <1>3, <1>4, <1>5, <1>6, <1>7, <1>8, <1>9, <1>10 DEF Next, Internal, Stimulus

\* The pipeline that persists agentState keeps the promise of AgentStateStore:
\* each version of the session row publishes a revision that exists and is no
\* older than the one before, whatever requests cross, repeat, or arrive after
\* the client gave them up.
THEOREM StoreImplemented == Spec => StoreSpec
<1>1. IInv /\ StoreInv /\ [Next]_vars => IInv' /\ StoreInv' /\ [Store!Next]_(Store!vars)
  BY NextType, StoreStep
<1> QED BY <1>1, InitType, StoreInit, PTL DEF Spec, StoreSpec, Store!Spec


----------------------------------------------------------------------------
(* The timer: the inductive invariant.                                     *)

TimerTypes == {"StartTimer", "CancelTimer"}

\* The last timer effect of a sequence starts the timer.
Starts(e) ==
  \E i \in 1..Len(e) :
    /\ e[i].type = "StartTimer"
    /\ \A j \in 1..Len(e) : j > i => e[j].type # "CancelTimer"

\* No effect of a sequence cancels the timer.
Spares(e) == \A i \in 1..Len(e) : e[i].type # "CancelTimer"

Ticking == timer \/ fired > 0 \/ someInput({"evTimerFired"})

TimerInv ==
  st.PersistDebounceTimerArmed => Starts(effects) \/ (Spares(effects) /\ Ticking)

----------------------------------------------------------------------------
(* Sequences of effects.                                                   *)

\* Effects that leave the timer alone.
Timeless == {e \in Effect : e.type \notin TimerTypes}

\* What is queued behind a start leaves it the last one.
LEMMA StartsBefore ==
  ASSUME NEW S, NEW a \in Seq(S), NEW b \in Seq(Timeless), Starts(a)
  PROVE  Starts(a \o b)
<1>1. PICK i \in 1..Len(a) :
        /\ a[i].type = "StartTimer"
        /\ \A j \in 1..Len(a) : j > i => a[j].type # "CancelTimer"
  BY DEF Starts
<1>2. i \in 1..Len(a \o b) /\ (a \o b)[i] = a[i]
  OBVIOUS
<1>3. ASSUME NEW j \in 1..Len(a \o b), j > i
      PROVE  (a \o b)[j].type # "CancelTimer"
  <2>1. CASE j \in 1..Len(a)
    BY <1>1, <1>3, <2>1
  <2>2. CASE j \notin 1..Len(a)
    <3>1. (a \o b)[j] \in Timeless
      BY <2>2
    <3> QED BY <3>1 DEF Timeless, TimerTypes
  <2> QED BY <2>1, <2>2
<1> QED BY <1>1, <1>2, <1>3 DEF Starts

\* What came before a start does not matter.
LEMMA StartsAfter ==
  ASSUME NEW S, NEW a \in Seq(S), NEW b \in Seq(Effect), Starts(b)
  PROVE  Starts(a \o b)
<1>1. PICK i \in 1..Len(b) :
        /\ b[i].type = "StartTimer"
        /\ \A j \in 1..Len(b) : j > i => b[j].type # "CancelTimer"
  BY DEF Starts
<1>2. i + Len(a) \in 1..Len(a \o b) /\ (a \o b)[i + Len(a)] = b[i]
  OBVIOUS
<1>3. ASSUME NEW j \in 1..Len(a \o b), j > i + Len(a)
      PROVE  (a \o b)[j].type # "CancelTimer"
  <2>1. j - Len(a) \in 1..Len(b) /\ (a \o b)[j] = b[j - Len(a)] /\ j - Len(a) > i
    BY <1>3
  <2> QED BY <1>1, <2>1
<1> QED BY <1>1, <1>2, <1>3 DEF Starts

\* Effects that leave the timer alone cancel nothing.
LEMMA SparesBefore ==
  ASSUME NEW a \in Seq(Effect), NEW b \in Seq(Timeless), Spares(a)
  PROVE  Spares(a \o b)
<1>1. ASSUME NEW j \in 1..Len(a \o b)
      PROVE  (a \o b)[j].type # "CancelTimer"
  <2>1. CASE j \in 1..Len(a)
    BY <2>1 DEF Spares
  <2>2. CASE j \notin 1..Len(a)
    <3>1. (a \o b)[j] \in Timeless
      BY <2>2
    <3> QED BY <3>1 DEF Timeless, TimerTypes
  <2> QED BY <2>1, <2>2
<1> QED BY <1>1 DEF Spares

\* The head of the queue is executed.
LEMMA TailOfEffects ==
  ASSUME NEW e \in Seq(Effect), e # <<>>
  PROVE  /\ Spares(e) => Spares(Tail(e))
         /\ Starts(e) /\ Head(e).type # "StartTimer" => Starts(Tail(e))
         /\ Starts(e) => Starts(Tail(e)) \/ Spares(Tail(e))
<1>1. \A j \in 1..Len(Tail(e)) : Tail(e)[j] = e[j + 1] /\ j + 1 \in 1..Len(e)
  OBVIOUS
<1>2. Spares(e) => Spares(Tail(e))
  BY <1>1 DEF Spares
<1>3. ASSUME Starts(e)
      PROVE  /\ Head(e).type # "StartTimer" => Starts(Tail(e))
             /\ Starts(Tail(e)) \/ Spares(Tail(e))
  <2>1. PICK i \in 1..Len(e) :
          /\ e[i].type = "StartTimer"
          /\ \A j \in 1..Len(e) : j > i => e[j].type # "CancelTimer"
    BY <1>3 DEF Starts
  <2>2. CASE i = 1
    <3>1. Head(e).type = "StartTimer"
      BY <2>1, <2>2
    <3>2. ASSUME NEW j \in 1..Len(Tail(e))
          PROVE  Tail(e)[j].type # "CancelTimer"
      <4>1. j + 1 \in 1..Len(e) /\ j + 1 > i /\ Tail(e)[j] = e[j + 1]
        BY <1>1, <2>2
      <4> QED BY <2>1, <4>1
    <3> QED BY <3>1, <3>2 DEF Spares
  <2>3. CASE i # 1
    <3>1. i - 1 \in 1..Len(Tail(e)) /\ Tail(e)[i - 1] = e[i]
      BY <2>3
    <3>2. ASSUME NEW j \in 1..Len(Tail(e)), j > i - 1
          PROVE  Tail(e)[j].type # "CancelTimer"
      <4>1. j + 1 \in 1..Len(e) /\ j + 1 > i /\ Tail(e)[j] = e[j + 1]
        BY <1>1, <3>2
      <4> QED BY <2>1, <4>1
    <3>3. Starts(Tail(e))
      BY <2>1, <3>1, <3>2 DEF Starts
    <3> QED BY <3>3
  <2> QED BY <2>2, <2>3
<1> QED BY <1>2, <1>3

----------------------------------------------------------------------------
(* What a handler does to the timer: it leaves it disarmed; it arms it and  *)
(* starts it last; or it has nothing to do with it.                         *)

TimerKept(s, r) ==
  \/ ~r.st.PersistDebounceTimerArmed
  \/ Starts(r.eff)
  \/ /\ r.st.PersistDebounceTimerArmed = s.PersistDebounceTimerArmed
     /\ r.eff \in Seq(Timeless)

\* All constructors but two make effects that leave the timer alone.
LEMMA TimelessTypes ==
  /\ \A g \in Nat : /\ effStopLocalRunner(g) \in Timeless
                    /\ effStopRemoteRunner(g) \in Timeless
                    /\ effRemoteAbort(g) \in Timeless
  /\ \A m \in Modes, g \in Nat, cfg \in AgentConfig : effStartRunner(m, g, cfg) \in Timeless
  /\ \A g \in Nat, m \in Messages : /\ effLocalSendLine(g, m) \in Timeless
                                    /\ effRemoteSend(g, m) \in Timeless
  /\ \A g \in Nat, cfg \in AgentConfig : effApplyEngineConfig(g, cfg) \in Timeless
  /\ \A n \in State : persistEffect(n) \in Timeless
  /\ \A on \in BOOLEAN : effTakebackWatcher(on) \in Timeless
  /\ \A c \in Calls, r \in Results : effCompleteReply(c, r) \in Timeless
  /\ \A a \in Awaits, v \in Verdicts : effCompletePermissionDecision(a, v) \in Timeless
  /\ \A a \in Awaits : effSignalAck(a) \in Timeless
  /\ \A r \in Requests : effEmitPermissionRequest(r) \in Timeless
<1>1. \A n \in State : persistEffect(n) \in Timeless
  <2> TAKE n \in State
  <2>1. persistEffect(n) \in Effect
    BY PublishingType, Zenon
  <2> QED BY <2>1 DEF Timeless, TimerTypes, persistEffect, effPersistAgentState
<1> QED BY <1>1, EffectTypes DEF Timeless, TimerTypes, Quiet, effStopLocalRunner,
       effStopRemoteRunner, effRemoteAbort, effStartRunner, effLocalSendLine, effRemoteSend,
       effApplyEngineConfig, effTakebackWatcher, effCompleteReply,
       effCompletePermissionDecision, effSignalAck, effEmitPermissionRequest

\* Replies and answers to waiters leave the timer alone,
LEMMA RepliesTimeless ==
  ASSUME NEW r \in Results
  PROVE  /\ \A c \in Calls \cup {None} : replyTo(c, r) \in Seq(Timeless)
         /\ \A ws \in Seq(Calls) : completeWaiters(ws, r) \in Seq(Timeless)
<1>1. \A c \in Calls \cup {None} : replyTo(c, r) \in Seq(Timeless)
  BY TimelessTypes DEF replyTo
<1>2. ASSUME NEW ws \in Seq(Calls)
      PROVE  completeWaiters(ws, r) \in Seq(Timeless)
  <2>1. \A i \in 1..Len(ws) : effCompleteReply(ws[i], r) \in Timeless
    BY TimelessTypes
  <2> QED BY <2>1 DEF completeWaiters
<1> QED BY <1>1, <1>2

\* and so do the buffered messages.
LEMMA SendsTimeless ==
  ASSUME NEW s \in State
  PROVE  remoteSends(s) \in Seq(Timeless) /\ localSendLines(s) \in Seq(Timeless)
<1>1. Len(s.PendingRemoteSends) \in Nat
      /\ \A i \in 1..Len(s.PendingRemoteSends) : s.PendingRemoteSends[i] \in Messages
  BY StateFields
<1>2. \A i \in 1..Len(s.PendingRemoteSends) :
         /\ effRemoteSend(s.RunnerGen, s.PendingRemoteSends[i]) \in Timeless
         /\ effLocalSendLine(s.RunnerGen, s.PendingRemoteSends[i]) \in Timeless
  BY <1>1, StateFields, TimelessTypes
<1> QED BY <1>1, <1>2 DEF remoteSends, localSendLines

\* What follows the report that the remote runner is ready.
LEMMA ReadyTimeless ==
  ASSUME NEW s \in State
  PROVE  remoteReadyEffects(s) \in Seq(Timeless)
<1>1. s.RunnerGen \in Nat /\ s.AgentState.config \in AgentConfig
  BY StateFields, AgentStateFields
<1>2. /\ effTakebackWatcher(TRUE) \in Timeless
      /\ effApplyEngineConfig(s.RunnerGen, s.AgentState.config) \in Timeless
  BY <1>1, TimelessTypes, Zenon
<1> QED BY <1>2, SendsTimeless, SeqType, Zenon DEF remoteReadyEffects

\* A restart is a sequence of effects, whatever is restarted.
LEMMA RestartSeq ==
  ASSUME NEW d
  PROVE  \E S : restartEffects(d) \in Seq(S)
<1> DEFINE a == IF d.Mode = "remote" THEN effStopLocalRunner(d.RunnerGen - 1)
                                     ELSE effStopRemoteRunner(d.RunnerGen - 1)
           b == effTakebackWatcher(FALSE)
           c == effStartRunner(d.Mode, d.RunnerGen, d.AgentState.config)
<1>1. restartEffects(d) = <<a, b, c>>
  BY Zenon DEF restartEffects
<1> HIDE DEF a, b, c
<1>2. <<a, b, c>> \in Seq({a, b, c})
  OBVIOUS
<1> QED BY <1>1, <1>2

\* A handler that has nothing to do with the timer.
LEMMA RetTimeless ==
  ASSUME NEW s, NEW n, n.PersistDebounceTimerArmed = s.PersistDebounceTimerArmed,
         NEW eff \in Seq(Timeless)
  PROVE  TimerKept(s, Ret(n, eff))
BY Zenon DEF TimerKept, Ret

\* An immediate persist disarms the timer, whatever else the handler emits.
LEMMA PersistNowTimer ==
  ASSUME NEW n \in State
  PROVE  ~persistAgentStateImmediately(n).st.PersistDebounceTimerArmed
<1>1. [n EXCEPT !.PersistRetryRemaining = 1, !.PersistDebounceTimerArmed = FALSE,
                !.PersistInFlight = TRUE].PersistDebounceTimerArmed = FALSE
  BY Zenon DEF State
<1> QED BY <1>1, Zenon DEF persistAgentStateImmediately, Ret

\* A debounced persist arms the timer and starts it last.
LEMMA DebounceTimer ==
  ASSUME NEW n
  PROVE  /\ schedulePersistDebounced(n).eff \in Seq(Effect)
         /\ Starts(schedulePersistDebounced(n).eff)
<1>1. schedulePersistDebounced(n).eff = <<effCancelTimer, effStartTimer>>
  BY Zenon DEF schedulePersistDebounced, Ret
<1>2. effCancelTimer \in Effect /\ effStartTimer \in Effect
  BY EffectTypes DEF Quiet
<1>3. Starts(<<effCancelTimer, effStartTimer>>)
  BY DEF Starts, effCancelTimer, effStartTimer
<1> QED BY <1>1, <1>2, <1>3

\* So does a handler that emits more around it, as long as nothing that comes
\* after concerns the timer.
LEMMA DebounceAmong ==
  ASSUME NEW s, NEW m, NEW n, NEW S, NEW a \in Seq(S), NEW b \in Seq(Timeless)
  PROVE  /\ TimerKept(s, schedulePersistDebounced(n))
         /\ TimerKept(s, Ret(m, a \o schedulePersistDebounced(n).eff))
         /\ TimerKept(s, Ret(m, a \o schedulePersistDebounced(n).eff \o b))
<1> DEFINE e == schedulePersistDebounced(n).eff
<1>1. e \in Seq(Effect) /\ Starts(e)
  BY DebounceTimer
<1> HIDE DEF e
<1>2. Starts(a \o e) /\ a \o e \in Seq(S \cup Effect)
  BY <1>1, StartsAfter
<1>3. Starts(a \o e \o b)
  BY <1>2, StartsBefore
<1> QED BY <1>1, <1>2, <1>3, Zenon DEF TimerKept, Ret, e

----------------------------------------------------------------------------
(* The handlers, one by one.                                               *)

\* cmdSwitchMode and the takeback: a switch disarms the timer.
LEMMA SwitchModeTimer ==
  ASSUME NEW s \in State, NEW target \in Modes, NEW reply \in Calls \cup {None}
  PROVE  TimerKept(s, reduceSwitchMode(s, target, reply))
<1> DEFINE n == switchedTo(s, target, reply)
<1>1. TimerKept(s, Ret(s, replyTo(reply, "ok")))
  BY RepliesTimeless, RetTimeless DEF Results
<1>2. n.PersistDebounceTimerArmed = FALSE
  BY Zenon DEF switchedTo, refreshAgentStateJSON, setAgentStateJSON, State
<1> HIDE DEF n
<1>3. \A eff : TimerKept(s, Ret(n, eff))
  BY <1>2, Zenon DEF TimerKept, Ret
<1> QED BY <1>1, <1>3, Zenon DEF reduceSwitchMode, n

\* evRunnerReady.
LEMMA RunnerReadyTimer ==
  ASSUME NEW s \in State, NEW in
  PROVE  TimerKept(s, reduceRunnerReady(s, in))
<1> DEFINE handle == [gen |-> in.gen, running |-> TRUE]
           reply == replyTo(s.PendingSwitchReply, "ok")
           l == [s EXCEPT !.FSM = "LocalRunning", !.LocalRunner = handle,
                          !.PendingSwitchReply = None]
           r == [s EXCEPT !.FSM = "RemoteRunning", !.RemoteRunner = handle,
                          !.PendingSwitchReply = None, !.PendingRemoteSends = <<>>]
<1>1. reply \in Seq(Timeless) /\ <<>> \in Seq(Timeless)
  BY StateFields, RepliesTimeless DEF Results
<1>2. /\ l.PersistDebounceTimerArmed = s.PersistDebounceTimerArmed
      /\ r.PersistDebounceTimerArmed = s.PersistDebounceTimerArmed
  BY Zenon DEF State
<1>3. remoteReadyEffects(s) \in Seq(Timeless)
  BY ReadyTimeless
<1>4. reply \o remoteReadyEffects(s) \in Seq(Timeless)
  BY <1>1, <1>3, SeqType, Zenon
<1>5. /\ TimerKept(s, Ret(s, <<>>))
      /\ TimerKept(s, Ret(l, reply))
      /\ TimerKept(s, Ret(r, reply \o remoteReadyEffects(s)))
  BY <1>1, <1>2, <1>4, RetTimeless, Zenon
<1> QED BY <1>5, Zenon DEF reduceRunnerReady

\* evRunnerExited: a start that fails with messages in the buffer and a remote
\* agent that dies persist anew, the other exits leave the timer alone.
LEMMA RunnerExitedTimer ==
  ASSUME NEW s \in State, NEW in, in.err \in Results
  PROVE  TimerKept(s, reduceRunnerExited(s, in))
<1> DEFINE n == recordExit(s, in)
           failed == backToLocal(n)
           idle == [failed EXCEPT !.Working = FALSE]
           closed == [n EXCEPT !.FSM = "Closed"]
           reply == replyTo(n.PendingSwitchReply, in.err)
<1>1. n \in State /\ n.PersistDebounceTimerArmed = s.PersistDebounceTimerArmed
  <2>1. n \in State
    BY RecordExitType, Zenon
  <2>2. n.PersistDebounceTimerArmed = s.PersistDebounceTimerArmed
    BY Zenon DEF recordExit, State
  <2> QED BY <2>1, <2>2
<1> HIDE DEF n
<1>2. reply \in Seq(Timeless) /\ <<>> \in Seq(Timeless)
  BY <1>1, StateFields, RepliesTimeless
<1>3. /\ idle.PersistDebounceTimerArmed = s.PersistDebounceTimerArmed
      /\ closed.PersistDebounceTimerArmed = s.PersistDebounceTimerArmed
  BY <1>1, Zenon DEF backToLocal, State
<1>4. TimerKept(s, failStart(n, in.err))
  <2>1. reply \o localSendLines(n) \in Seq(Timeless)
    BY <1>1, <1>2, SendsTimeless, SeqType, Zenon
  <2>2. TimerKept(s, Ret(idle, reply))
    BY <1>2, <1>3, RetTimeless, Zenon
  <2>3. \A d : TimerKept(s, Ret(schedulePersistDebounced(d).st,
                                reply \o localSendLines(n) \o schedulePersistDebounced(d).eff))
    BY <1>2, <2>1, DebounceAmong, Zenon
  <2> QED BY <2>2, <2>3, Zenon DEF failStart
<1>5. TimerKept(s, fallBackToLocal(n))
  <2>1. \A d : \E S : restartEffects(d) \in Seq(S)
    BY RestartSeq, Zenon
  <2>2. \A d : TimerKept(s, Ret(schedulePersistDebounced(d).st,
                                restartEffects(schedulePersistDebounced(d).st)
                                  \o schedulePersistDebounced(d).eff))
    BY <1>2, <2>1, DebounceAmong, Zenon
  <2> QED BY <2>2, Zenon DEF fallBackToLocal
<1>6. TimerKept(s, Ret(s, <<>>)) /\ TimerKept(s, Ret(closed, <<>>))
  BY <1>2, <1>3, RetTimeless, Zenon
<1>7. \/ reduceRunnerExited(s, in) = Ret(s, <<>>)
      \/ reduceRunnerExited(s, in) = failStart(n, in.err)
      \/ reduceRunnerExited(s, in) = fallBackToLocal(n)
      \/ reduceRunnerExited(s, in) = Ret(closed, <<>>)
  BY DEF reduceRunnerExited, n
<1> QED BY <1>4, <1>5, <1>6, <1>7, Zenon

\* cmdShutdown, cmdRemoteSend, cmdAbortRemote and evEngineWorking.
LEMMA PlainTimer ==
  ASSUME NEW s \in State
  PROVE  /\ TimerKept(s, reduceShutdown(s))
         /\ \A msg \in Messages, reply \in Calls \cup {None} :
              TimerKept(s, reduceRemoteSend(s, msg, reply))
         /\ \A reply \in Calls \cup {None} : TimerKept(s, reduceAbortRemote(s, reply))
         /\ \A in : TimerKept(s, reduceEngineWorking(s, in))
<1>1. s.RunnerGen \in Nat /\ <<>> \in Seq(Timeless)
  BY StateFields
<1>2. TimerKept(s, reduceShutdown(s))
  <2>1. [s EXCEPT !.FSM = "Closing"].PersistDebounceTimerArmed = s.PersistDebounceTimerArmed
    BY Zenon DEF State
  <2>2. <<effStopLocalRunner(s.RunnerGen), effStopRemoteRunner(s.RunnerGen),
          effTakebackWatcher(FALSE)>> \in Seq(Timeless)
    BY <1>1, TimelessTypes, SeqType, Zenon
  <2> QED BY <2>1, <2>2, RetTimeless, Zenon DEF reduceShutdown
<1>3. ASSUME NEW msg \in Messages, NEW reply \in Calls \cup {None}
      PROVE  TimerKept(s, reduceRemoteSend(s, msg, reply))
  <2>1. replyTo(reply, "ok") \in Seq(Timeless) /\ replyTo(reply, "err") \in Seq(Timeless)
    BY RepliesTimeless DEF Results
  <2>2. <<effRemoteSend(s.RunnerGen, msg)>> \o replyTo(reply, "ok") \in Seq(Timeless)
    BY <1>1, <2>1, TimelessTypes, SeqType, Zenon
  <2>3. maybeStartTurn(s).PersistDebounceTimerArmed = s.PersistDebounceTimerArmed
    BY Zenon DEF maybeStartTurn, State
  <2> QED BY <2>1, <2>2, <2>3, RetTimeless, Zenon DEF reduceRemoteSend
<1>4. ASSUME NEW reply \in Calls \cup {None}
      PROVE  TimerKept(s, reduceAbortRemote(s, reply))
  <2>1. replyTo(reply, "ok") \in Seq(Timeless) /\ replyTo(reply, "err") \in Seq(Timeless)
    BY RepliesTimeless DEF Results
  <2>2. <<effRemoteAbort(s.RunnerGen)>> \o replyTo(reply, "ok") \in Seq(Timeless)
    BY <1>1, <2>1, TimelessTypes, SeqType, Zenon
  <2> QED BY <2>1, <2>2, RetTimeless, Zenon DEF reduceAbortRemote
<1>5. ASSUME NEW in
      PROVE  TimerKept(s, reduceEngineWorking(s, in))
  <2>1. [s EXCEPT !.Working = in.working].PersistDebounceTimerArmed = s.PersistDebounceTimerArmed
    BY Zenon DEF State
  <2> QED BY <1>1, <2>1, RetTimeless, Zenon DEF reduceEngineWorking
<1> QED BY <1>2, <1>3, <1>4, <1>5

\* cmdInboundUserMessage: only the switch it may cause concerns the timer.
LEMMA InboundTimer ==
  ASSUME NEW s \in State, NEW msg \in Messages
  PROVE  TimerKept(s, reduceInboundUserMessage(s, msg))
<1> DEFINE buffered == [s EXCEPT !.PendingRemoteSends = Append(@, msg)]
           r == reduceSwitchMode(buffered, "remote", None)
<1>1. buffered \in State /\ buffered.PersistDebounceTimerArmed = s.PersistDebounceTimerArmed
  <2>1. Append(s.PendingRemoteSends, msg) \in Seq(Messages)
    BY StateFields
  <2> QED BY <2>1, Zenon DEF State
<1> HIDE DEF buffered
<1>2. r.st \in State /\ TimerKept(s, r)
  <2>1. "remote" \in Modes
    BY DEF Modes
  <2>2. r.st \in State
    BY <1>1, <2>1, SwitchModeType, Zenon DEF Handled, WellTyped
  <2>3. TimerKept(buffered, r)
    BY <1>1, <2>1, SwitchModeTimer, Zenon
  <2> QED BY <1>1, <2>2, <2>3, Zenon DEF TimerKept
<1> HIDE DEF r
<1>3. \A n \in State :
        maybeStartTurn(n).PersistDebounceTimerArmed = n.PersistDebounceTimerArmed
  BY Zenon DEF maybeStartTurn, State
<1>4. TimerKept(s, Ret(maybeStartTurn(r.st), r.eff))
  BY <1>2, <1>3, Zenon DEF TimerKept, Ret
<1>5. <<effRemoteSend(s.RunnerGen, msg)>> \in Seq(Timeless) /\ <<>> \in Seq(Timeless)
  BY StateFields, TimelessTypes, SeqType, Zenon
<1>6. /\ TimerKept(s, Ret(maybeStartTurn(s), <<effRemoteSend(s.RunnerGen, msg)>>))
      /\ TimerKept(s, Ret(maybeStartTurn(buffered), <<>>))
  BY <1>1, <1>3, <1>5, RetTimeless, Zenon
<1> QED BY <1>4, <1>6, Zenon DEF reduceInboundUserMessage, buffered, r

\* A document of the right shape may be published at once, which disarms.
LEMMA PublishNowTimer ==
  ASSUME NEW s, NEW n \in State, NEW doc \in AgentState
  PROVE  /\ \A eff :
              TimerKept(s, Ret(persistAgentStateImmediately(refreshAgentStateJSON(n)).st, eff))
         /\ TimerKept(s, persistAgentStateImmediately(n))
         /\ TimerKept(s, persistAgentStateImmediately(setAgentStateJSON(n, doc)))
<1>1. Keeps(n, n)
  BY DEF Keeps
<1>2. refreshAgentStateJSON(n) \in State /\ setAgentStateJSON(n, doc) \in State
  BY <1>1, RevisionType, Zenon
<1> QED BY <1>2, PersistNowTimer, Zenon DEF TimerKept, Ret

\* cmdSetAgentConfig: refused, without effect, or persisted at once.
LEMMA SetAgentConfigTimer ==
  ASSUME NEW s \in State, NEW in, in.model \in Models \cup {None},
         in.permissionMode \in PermissionModes \cup {None}, in.reply \in Calls \cup {None}
  PROVE  TimerKept(s, reduceSetAgentConfig(s, in))
<1> DEFINE keep(new, old) == IF new = None THEN old ELSE new
           cfg == [model |-> keep(in.model, s.AgentState.config.model),
                   permissionMode |-> keep(in.permissionMode,
                                           s.AgentState.config.permissionMode)]
           n == [s EXCEPT !.AgentState.config = cfg]
<1>1. cfg \in AgentConfig
  <2>1. s.AgentState.config.model \in Models
        /\ s.AgentState.config.permissionMode \in PermissionModes
    BY StateFields, AgentStateFields
  <2>2. keep(in.model, s.AgentState.config.model) \in Models
        /\ keep(in.permissionMode, s.AgentState.config.permissionMode) \in PermissionModes
    BY <2>1
  <2> QED BY <2>2, Zenon DEF AgentConfig
<1> HIDE DEF cfg
<1>2. [s.AgentState EXCEPT !.config = cfg] \in AgentState
  BY <1>1, StateFields, Zenon DEF AgentState
<1>3. n \in State
  BY <1>2, Zenon DEF State
<1> HIDE DEF n
<1>4. \A eff : TimerKept(s, Ret(persistAgentStateImmediately(refreshAgentStateJSON(n)).st, eff))
  BY <1>2, <1>3, PublishNowTimer, Zenon
<1>5. /\ TimerKept(s, Ret(s, replyTo(in.reply, "err")))
      /\ TimerKept(s, Ret(s, replyTo(in.reply, "ok")))
  BY RepliesTimeless, RetTimeless DEF Results
<1>6. \/ reduceSetAgentConfig(s, in) = Ret(s, replyTo(in.reply, "err"))
      \/ reduceSetAgentConfig(s, in) = Ret(s, replyTo(in.reply, "ok"))
      \/ \E eff : reduceSetAgentConfig(s, in)
                   = Ret(persistAgentStateImmediately(refreshAgentStateJSON(n)).st, eff)
  <2>1. CASE s.Mode # "remote" \/ s.AgentState.controlledByUser
    BY <2>1, Zenon DEF reduceSetAgentConfig
  <2>2. CASE /\ ~(s.Mode # "remote" \/ s.AgentState.controlledByUser)
             /\ cfg = s.AgentState.config
    BY <2>2, Zenon DEF reduceSetAgentConfig, cfg
  <2>3. CASE /\ ~(s.Mode # "remote" \/ s.AgentState.controlledByUser)
             /\ cfg # s.AgentState.config
    BY <2>3, Zenon DEF reduceSetAgentConfig, cfg, n
  <2> QED BY <2>1, <2>2, <2>3
<1> QED BY <1>4, <1>5, <1>6, Zenon

\* evEngineSessionIdentified, evWSConnected and evWSDisconnected.
LEMMA IdentityTimer ==
  ASSUME NEW s \in State
  PROVE  /\ \A in : TimerKept(s, reduceEngineSessionIdentified(s, in))
         /\ TimerKept(s, reduceWSConnected(s))
         /\ TimerKept(s, reduceWSDisconnected(s))
<1>1. <<>> \in Seq(Timeless)
  BY SeqType, Zenon
<1>2. [s EXCEPT !.WSConnected = FALSE].PersistDebounceTimerArmed = s.PersistDebounceTimerArmed
  BY Zenon DEF State
<1>3. \A n : TimerKept(s, schedulePersistDebounced(n))
  BY <1>1, DebounceAmong, Zenon
<1> QED BY <1>1, <1>2, <1>3, RetTimeless, Zenon
        DEF reduceEngineSessionIdentified, reduceWSConnected, reduceWSDisconnected

\* cmdPermissionDecision: a decision that has its request persists anew.
LEMMA DecisionTimer ==
  ASSUME NEW s \in State, NEW in, in.request \in Requests, in.verdict \in {"allow", "deny"}
  PROVE  TimerKept(s, reducePermissionDecision(s, in))
<1>1. <<>> \in Seq(Timeless) /\ in.verdict \in Verdicts
  BY DEF Verdicts
<1>2. completePromise(s, in.request, in.verdict) \in Seq(Quiet)
  BY <1>1, CompletePromiseType
<1>3. \A n : TimerKept(s, Ret(schedulePersistDebounced(n).st,
                              completePromise(s, in.request, in.verdict)
                                \o schedulePersistDebounced(n).eff))
  BY <1>1, <1>2, DebounceAmong, Zenon
<1> QED BY <1>1, <1>3, RetTimeless, Zenon DEF reducePermissionDecision

\* cmdPermissionAwait: answered at once, asked again, or registered.
LEMMA AwaitTimer ==
  ASSUME NEW s \in State, NEW in, in.await \in Awaits
  PROVE  TimerKept(s, reducePermissionAwait(s, in))
<1> DEFINE a == in.await
           r == RequestOf[a]
           auto == autoVerdict(s)
           finished == [s EXCEPT !.AgentState.completedRequests = [@ EXCEPT ![r] = auto]]
           promised == [s EXCEPT !.PendingPermissionPromises = [@ EXCEPT ![r] = a]]
           again == <<effEmitPermissionRequest(r), effSignalAck(a)>>
<1>1. a \in Awaits /\ r \in Requests /\ auto \in Verdicts
  BY ConstantsOK, AutoVerdictType
<1>2. finished \in State
  <2>1. [s.AgentState.completedRequests EXCEPT ![r] = auto] \in [Requests -> Verdicts]
    BY <1>1, StateFields, AgentStateFields
  <2>2. [s.AgentState EXCEPT !.completedRequests
           = [s.AgentState.completedRequests EXCEPT ![r] = auto]] \in AgentState
    BY <2>1, StateFields, Zenon DEF AgentState
  <2> QED BY <2>2, Zenon DEF State
<1>3. promised.PersistDebounceTimerArmed = s.PersistDebounceTimerArmed
  BY Zenon DEF State
<1> HIDE DEF a, r, auto
<1>4. again \in Seq(Timeless) /\ <<effSignalAck(a)>> \in Seq(Timeless)
      /\ <<effEmitPermissionRequest(r)>> \in Seq(Timeless)
  BY <1>1, TimelessTypes, SeqType, Zenon
<1> HIDE DEF finished, promised, again
<1>5. \A eff : TimerKept(s, Ret(persistAgentStateImmediately(refreshAgentStateJSON(finished)).st,
                                eff))
  <2>1. s.AgentState \in AgentState
    BY StateFields
  <2> QED BY <1>2, <2>1, PublishNowTimer, Zenon
<1>6. TimerKept(s, Ret(promised, again))
  BY <1>3, <1>4, RetTimeless, Zenon
<1>7. \A n : TimerKept(s, Ret(schedulePersistDebounced(n).st,
                              <<effEmitPermissionRequest(r)>> \o schedulePersistDebounced(n).eff
                                \o <<effSignalAck(a)>>))
  BY <1>4, DebounceAmong, Zenon
<1> QED BY <1>5, <1>6, <1>7, Zenon DEF reducePermissionAwait, a, r, auto, finished, promised, again

\* The handlers of the persistence itself.
LEMMA PersistenceTimer ==
  ASSUME NEW s \in State
  PROVE  /\ \A doc \in AgentState : TimerKept(s, reducePersistAgentStateImmediate(s, doc))
         /\ \A reply \in Calls : TimerKept(s, reduceWaitForAgentStatePersist(s, reply))
         /\ \A in : TimerKept(s, reduceAgentStatePersisted(s, in))
         /\ \A in : TimerKept(s, reduceAgentStateVersionMismatch(s, in))
         /\ TimerKept(s, reduceAgentStatePersistFailed(s))
         /\ ~reduceTimerFired(s).st.PersistDebounceTimerArmed
<1>1. /\ <<>> \in Seq(Timeless) /\ s.AgentState \in AgentState
      /\ completeWaiters(s.PersistWaiters, "ok") \in Seq(Timeless)
      /\ completeWaiters(s.PersistWaiters, "err") \in Seq(Timeless)
  BY StateFields, RepliesTimeless DEF Results
<1>2. \A doc \in AgentState : TimerKept(s, reducePersistAgentStateImmediate(s, doc))
  BY PublishNowTimer, Zenon DEF reducePersistAgentStateImmediate
<1>3. ASSUME NEW reply \in Calls
      PROVE  TimerKept(s, reduceWaitForAgentStatePersist(s, reply))
  <2> DEFINE w == [s EXCEPT !.PersistWaiters = Append(@, reply)]
  <2>1. Append(s.PersistWaiters, reply) \in Seq(Calls)
    BY StateFields
  <2>2. w \in State /\ w.PersistDebounceTimerArmed = s.PersistDebounceTimerArmed
    BY <2>1, Zenon DEF State
  <2> HIDE DEF w
  <2>3. TimerKept(s, Ret(w, <<>>)) /\ TimerKept(s, persistAgentStateImmediately(w))
    BY <1>1, <2>2, RetTimeless, PublishNowTimer, Zenon
  <2> QED BY <2>3, Zenon DEF reduceWaitForAgentStatePersist, w
<1>4. ASSUME NEW in
      PROVE  TimerKept(s, reduceAgentStatePersisted(s, in))
  <2>1. [s EXCEPT !.AgentStateVersion = IF in.version > 0 THEN in.version ELSE @,
                  !.PersistRetryRemaining = 0, !.PersistInFlight = FALSE,
                  !.PersistWaiters = <<>>].PersistDebounceTimerArmed
          = s.PersistDebounceTimerArmed
    BY Zenon DEF State
  <2> QED BY <1>1, <2>1, RetTimeless, Zenon DEF reduceAgentStatePersisted
<1>5. ASSUME NEW in
      PROVE  TimerKept(s, reduceAgentStateVersionMismatch(s, in))
  <2> DEFINE v == IF in.version > 0 THEN in.version ELSE s.AgentStateVersion
             n == [s EXCEPT !.AgentStateVersion = v]
             m == [n EXCEPT !.PersistRetryRemaining = @ - 1,
                            !.PersistDebounceTimerArmed = FALSE,
                            !.PersistInFlight = TRUE]
  <2> HIDE DEF v
  <2>1. n.PersistDebounceTimerArmed = s.PersistDebounceTimerArmed
    BY Zenon DEF State
  <2>2. m.PersistDebounceTimerArmed = FALSE
    BY Zenon DEF State
  <2> HIDE DEF m
  <2>3. TimerKept(s, Ret(n, <<>>)) /\ \A eff : TimerKept(s, Ret(m, eff))
    <3> HIDE DEF n
    <3>1. TimerKept(s, Ret(n, <<>>))
      BY <1>1, <2>1, RetTimeless, Zenon
    <3> QED BY <2>2, <3>1, Zenon DEF TimerKept, Ret
  <2> QED BY <2>3, Zenon DEF reduceAgentStateVersionMismatch, v, n, m
<1>6. TimerKept(s, reduceAgentStatePersistFailed(s))
  <2> DEFINE n == [s EXCEPT !.PersistInFlight = FALSE, !.PersistWaiters = <<>>]
  <2>1. n.PersistDebounceTimerArmed = s.PersistDebounceTimerArmed
    BY Zenon DEF State
  <2> HIDE DEF n
  <2>2. /\ TimerKept(s, Ret(n, completeWaiters(s.PersistWaiters, "err")))
        /\ TimerKept(s, Ret(schedulePersistDebounced(n).st,
                            completeWaiters(s.PersistWaiters, "err")
                              \o schedulePersistDebounced(n).eff))
    BY <1>1, <2>1, RetTimeless, DebounceAmong, Zenon
  <2> QED BY <2>2, Zenon DEF reduceAgentStatePersistFailed, n
<1>7. ~reduceTimerFired(s).st.PersistDebounceTimerArmed
  <2>1. [s EXCEPT !.PersistDebounceTimerArmed = FALSE,
                  !.PersistRetryRemaining = 1].PersistDebounceTimerArmed = FALSE
    BY Zenon DEF State
  <2> QED BY <2>1, Zenon DEF reduceTimerFired, Ret
<1> QED BY <1>2, <1>3, <1>4, <1>5, <1>6, <1>7

----------------------------------------------------------------------------
(* A turn of the loop.                                                     *)

\* What a handler has to show.
Timely(r) == WellTyped(r) /\ TimerKept(st, r)

\* Then its turn keeps the invariant; the handler that takes the event of the
\* timer has to disarm it.
LEMMA TurnTimer ==
  ASSUME ActorTypeOK, TimerInv, UNCHANGED <<timer, fired>>, NEW t, NEW r, Handle(t, r), Timely(r),
         t = "evTimerFired" => ~r.st.PersistDebounceTimerArmed
  PROVE  TimerInv'
<1> USE DEF Timely
<1>1. st' = r.st /\ effects' = effects \o r.eff /\ inbox' = Tail(inbox) /\ inbox # <<>>
      /\ In.type = t
  BY DEF Handle
<1>2. effects \in Seq(Effect) /\ r.eff \in Seq(Effect)
  BY PublishingType, SeqMonotonic DEF ActorTypeOK, WellTyped
<1>3. CASE ~r.st.PersistDebounceTimerArmed
  BY <1>1, <1>3 DEF TimerInv
<1>4. CASE Starts(r.eff)
  <2>1. Starts(effects')
    BY <1>1, <1>2, <1>4, StartsAfter
  <2> QED BY <2>1 DEF TimerInv, Starts
<1>5. CASE /\ r.st.PersistDebounceTimerArmed
           /\ r.st.PersistDebounceTimerArmed = st.PersistDebounceTimerArmed
           /\ r.eff \in Seq(Timeless)
  <2>1. CASE Starts(effects)
    <3>1. Starts(effects')
      BY <1>1, <1>2, <1>5, <2>1, StartsBefore
    <3> QED BY <3>1 DEF TimerInv, Starts
  <2>2. CASE Spares(effects) /\ Ticking
    <3>1. Spares(effects')
      BY <1>1, <1>2, <1>5, <2>2, SparesBefore
    <3>2. ASSUME NEW i \in DOMAIN inbox, inbox[i].type = "evTimerFired"
          PROVE  \E j \in DOMAIN inbox' : inbox'[j].type = "evTimerFired"
      <4>1. i # 1
        BY <1>1, <1>5, <3>2 DEF In, ActorTypeOK
      <4>2. i - 1 \in DOMAIN inbox' /\ inbox'[i - 1] = inbox[i]
        BY <1>1, <4>1 DEF ActorTypeOK
      <4> QED BY <3>2, <4>2
    <3>3. Ticking'
      BY <2>2, <3>2 DEF Ticking, someInput
    <3> QED BY <3>1, <3>3 DEF TimerInv, Spares
  <2> QED BY <1>5, <2>1, <2>2 DEF TimerInv
<1> QED BY <1>3, <1>4, <1>5 DEF TimerKept

\* Every turn keeps the invariant.
LEMMA ReduceTimer ==
  ASSUME ActorTypeOK, TimerInv, UNCHANGED <<timer, fired>>, Reduce
  PROVE  TimerInv'
<1> USE DEF Timely, Handled, Answered
<1>1. CASE ReduceSwitchMode
  <2>1. Timely(reduceSwitchMode(st, In.target, In.reply))
    BY <1>1, HandledInput, InputFields, SwitchModeType, SwitchModeTimer DEF ReduceSwitchMode
  <2> QED BY <1>1, <2>1, TurnTimer DEF ReduceSwitchMode
<1>2. CASE ReduceDesktopTakeback
  <2>1. Timely(reduceSwitchMode(st, "local", None))
    BY <1>2, HandledInput, SwitchModeType, SwitchModeTimer DEF ReduceDesktopTakeback, Modes
  <2> QED BY <1>2, <2>1, TurnTimer DEF ReduceDesktopTakeback
<1>3. CASE ReduceRunnerReady
  <2>1. Timely(reduceRunnerReady(st, In))
    BY <1>3, HandledInput, InputFields, RunnerReadyType, RunnerReadyTimer DEF ReduceRunnerReady
  <2> QED BY <1>3, <2>1, TurnTimer DEF ReduceRunnerReady
<1>4. CASE ReduceRunnerExited
  <2>1. Timely(reduceRunnerExited(st, In))
    BY <1>4, HandledInput, InputFields, RunnerExitedType, RunnerExitedTimer DEF ReduceRunnerExited
  <2> QED BY <1>4, <2>1, TurnTimer DEF ReduceRunnerExited
<1>5. CASE ReduceShutdown
  <2>1. Timely(reduceShutdown(st))
    BY <1>5, HandledInput, ShutdownType, PlainTimer DEF ReduceShutdown
  <2> QED BY <1>5, <2>1, TurnTimer DEF ReduceShutdown
<1>6. CASE ReduceInboundUserMessage
  <2>1. Timely(reduceInboundUserMessage(st, In.msg))
    BY <1>6, HandledInput, InputFields, InboundType, InboundTimer DEF ReduceInboundUserMessage
  <2> QED BY <1>6, <2>1, TurnTimer DEF ReduceInboundUserMessage
<1>7. CASE ReduceRemoteSend
  <2>1. Timely(reduceRemoteSend(st, In.msg, In.reply))
    BY <1>7, HandledInput, InputFields, RemoteSendType, PlainTimer DEF ReduceRemoteSend
  <2> QED BY <1>7, <2>1, TurnTimer DEF ReduceRemoteSend
<1>8. CASE ReduceAbortRemote
  <2>1. Timely(reduceAbortRemote(st, In.reply))
    BY <1>8, HandledInput, InputFields, AbortType, PlainTimer DEF ReduceAbortRemote
  <2> QED BY <1>8, <2>1, TurnTimer DEF ReduceAbortRemote
<1>9. CASE ReduceEngineWorking
  <2>1. Timely(reduceEngineWorking(st, In))
    BY <1>9, HandledInput, WorkingReduced, PlainTimer DEF ReduceEngineWorking
  <2> QED BY <1>9, <2>1, TurnTimer DEF ReduceEngineWorking
<1>10. CASE ReduceEngineSessionIdentified
  <2>1. Timely(reduceEngineSessionIdentified(st, In))
    BY <1>10, HandledInput, InputFields, IdentifiedType, IdentityTimer
       DEF ReduceEngineSessionIdentified
  <2> QED BY <1>10, <2>1, TurnTimer DEF ReduceEngineSessionIdentified
<1>11. CASE ReduceSetAgentConfig
  <2>1. Timely(reduceSetAgentConfig(st, In))
    BY <1>11, HandledInput, InputFields, SetAgentConfigType, SetAgentConfigTimer
       DEF ReduceSetAgentConfig
  <2> QED BY <1>11, <2>1, TurnTimer DEF ReduceSetAgentConfig
<1>12. CASE ReducePermissionAwait
  <2>1. Timely(reducePermissionAwait(st, In))
    BY <1>12, HandledInput, InputFields, AwaitType, AwaitTimer DEF ReducePermissionAwait
  <2> QED BY <1>12, <2>1, TurnTimer DEF ReducePermissionAwait
<1>13. CASE ReducePermissionDecision
  <2>1. Timely(reducePermissionDecision(st, In))
    BY <1>13, HandledInput, InputFields, DecisionType, DecisionTimer DEF ReducePermissionDecision
  <2> QED BY <1>13, <2>1, TurnTimer DEF ReducePermissionDecision
<1>14. CASE ReducePersistAgentStateImmediate
  <2>1. Timely(reducePersistAgentStateImmediate(st, In.doc))
    BY <1>14, HandledInput, InputFields, ImmediateType, PersistenceTimer
       DEF ReducePersistAgentStateImmediate
  <2> QED BY <1>14, <2>1, TurnTimer DEF ReducePersistAgentStateImmediate
<1>15. CASE ReduceWaitForAgentStatePersist
  <2>1. Timely(reduceWaitForAgentStatePersist(st, In.reply))
    BY <1>15, HandledInput, InputFields, WaitType, PersistenceTimer
       DEF ReduceWaitForAgentStatePersist
  <2> QED BY <1>15, <2>1, TurnTimer DEF ReduceWaitForAgentStatePersist
<1>16. CASE ReduceAgentStatePersisted
  <2>1. Timely(reduceAgentStatePersisted(st, In))
    BY <1>16, HandledInput, InputFields, PersistedType, PersistenceTimer
       DEF ReduceAgentStatePersisted
  <2> QED BY <1>16, <2>1, TurnTimer DEF ReduceAgentStatePersisted
<1>17. CASE ReduceAgentStateVersionMismatch
  <2>1. Timely(reduceAgentStateVersionMismatch(st, In))
    BY <1>17, HandledInput, InputFields, MismatchType, PersistenceTimer
       DEF ReduceAgentStateVersionMismatch
  <2> QED BY <1>17, <2>1, TurnTimer DEF ReduceAgentStateVersionMismatch
<1>18. CASE ReduceAgentStatePersistFailed
  <2>1. Timely(reduceAgentStatePersistFailed(st))
    BY <1>18, HandledInput, FailedType, PersistenceTimer DEF ReduceAgentStatePersistFailed
  <2> QED BY <1>18, <2>1, TurnTimer DEF ReduceAgentStatePersistFailed
<1>19. CASE ReduceTimerFired
  <2>1. Timely(reduceTimerFired(st)) /\ ~reduceTimerFired(st).st.PersistDebounceTimerArmed
    BY <1>19, HandledInput, TimerFiredType, PersistenceTimer DEF ReduceTimerFired, TimerKept
  <2> QED BY <1>19, <2>1, TurnTimer DEF ReduceTimerFired
<1>20. CASE ReduceWSConnected
  <2>1. Timely(reduceWSConnected(st))
    BY <1>20, HandledInput, ConnectionTypes, IdentityTimer DEF ReduceWSConnected
  <2> QED BY <1>20, <2>1, TurnTimer DEF ReduceWSConnected
<1>21. CASE ReduceWSDisconnected
  <2>1. Timely(reduceWSDisconnected(st))
    BY <1>21, HandledInput, ConnectionTypes, IdentityTimer DEF ReduceWSDisconnected
  <2> QED BY <1>21, <2>1, TurnTimer DEF ReduceWSDisconnected
<1> QED BY <1>1, <1>2, <1>3, <1>4, <1>5, <1>6, <1>7, <1>8, <1>9, <1>10, <1>11,
           <1>12, <1>13, <1>14, <1>15, <1>16, <1>17, <1>18, <1>19, <1>20, <1>21 DEF Reduce

----------------------------------------------------------------------------
(* Steps that have nothing to do with the timer.                           *)

\* The queue of effects is left alone or loses a head that is neither a timer effect nor
\* a request to persist.
OtherEffect ==
  \/ effects' = effects
  \/ /\ effects # <<>> /\ effects' = Tail(effects)
     /\ Head(effects).type \notin TimerTypes \cup {"PersistAgentState"}

\* The mailbox loses nothing.
MailKept == inbox' = inbox \/ \E in : inbox' = Append(inbox, in)

Aside == UNCHANGED <<st, timer, fired>> /\ OtherEffect /\ MailKept

\* What waits in the mailbox stays there.
LEMMA EventWaits ==
  ASSUME ActorTypeOK, MailKept, NEW T, someInput(T)
  PROVE  someInput(T)'
<1>1. PICK i \in DOMAIN inbox : inbox[i].type \in T
  BY DEF someInput
<1>2. i \in DOMAIN inbox' /\ inbox'[i] = inbox[i]
  <2>1. CASE inbox' = inbox
    BY <1>1, <2>1
  <2>2. ASSUME NEW in, inbox' = Append(inbox, in)
        PROVE  i \in DOMAIN inbox' /\ inbox'[i] = inbox[i]
    BY <1>1, <2>2 DEF ActorTypeOK
  <2> QED BY <2>1, <2>2 DEF MailKept
<1> QED BY <1>1, <1>2 DEF someInput

\* Such a step keeps the invariant.
LEMMA AsideKept ==
  ASSUME ActorTypeOK, TimerInv, Aside
  PROVE  TimerInv'
<1>1. UNCHANGED <<st, timer, fired>> /\ MailKept /\ OtherEffect
  BY DEF Aside
<1>2. Ticking => Ticking'
  BY <1>1, EventWaits DEF Ticking
<1>3. CASE effects' = effects
  BY <1>1, <1>2, <1>3 DEF TimerInv, Starts, Spares
<1>4. CASE /\ effects # <<>> /\ effects' = Tail(effects)
           /\ Head(effects).type \notin TimerTypes \cup {"PersistAgentState"}
  <2>1. (Starts(effects) => Starts(effects')) /\ (Spares(effects) => Spares(effects'))
    BY <1>4, TailOfEffects DEF ActorTypeOK, TimerTypes
  <2>2. Starts(effects') = Starts(effects)' /\ Spares(effects') = Spares(effects)'
    BY DEF Starts, Spares
  <2> QED BY <1>1, <1>2, <2>1, <2>2 DEF TimerInv
<1> QED BY <1>1, <1>3, <1>4 DEF OtherEffect

\* The engine half of the runtime.
LEMMA RuntimeAside ==
  ASSUME IInv, UNCHANGED syncVars,
         EngineStep \/ SendSucceeds \/ (\E x \in sending : SendFails(x)) \/ EngineStimulus
  PROVE  Aside
<1> USE DEF Aside, OtherEffect, MailKept, NextEffect, Effect1, Executed, syncVars, TimerTypes
<1>1. CASE StopEngineLocal \/ StopEngineRemote
  BY <1>1 DEF StopEngineLocal, StopEngineRemote, stopEngine
<1>2. CASE StartEngine \/ \E x \in exiting : ReportExit(x)
  BY <1>2 DEF StartEngine, ReportExit, actorVars
<1>3. CASE EngineStarted \/ EngineStartFails
  <2>1. effects # <<>> /\ Head(effects).type = "StartRunner"
    BY <1>3 DEF EngineStarted, EngineStartFails, IInv, StartHeld
  <2> QED BY <1>3, <2>1 DEF EngineStarted, EngineStartFails, Post
<1>4. CASE HandleEngineEvent \/ EmitKey
  BY <1>4, Zenon DEF HandleEngineEvent, EmitKey, Post
<1>5. CASE EngineRemoteSend \/ EngineRemoteAbort \/ ApplyEngineConfig \/ EngineLocalSendLine
           \/ SetTakebackWatcher
  BY <1>5 DEF EngineRemoteSend, EngineRemoteAbort, ApplyEngineConfig, EngineLocalSendLine,
              SetTakebackWatcher
<1>6. CASE SendSucceeds \/ \E x \in sends : SendBegins(x)
  BY <1>6 DEF SendSucceeds, SendBegins, actorVars
<1>7. CASE \E x \in sending : SendFails(x)
  BY <1>7, Zenon DEF SendFails, Post
<1>8. CASE \/ \E m \in Modes, err \in Results : RunExits(m, err)
           \/ \E m \in Modes, token \in Tokens : Identify(m, token)
           \/ \E m \in Modes, w \in BOOLEAN : ReportWorking(m, w)
           \/ \E k \in {"takeback", "shutdown"} : PressKey(k)
  BY <1>8 DEF RunExits, Identify, ReportWorking, ReportFromRun, PressKey
<1> QED BY <1>1, <1>2, <1>3, <1>4, <1>5, <1>6, <1>7, <1>8 DEF EngineStep, EngineStimulus

\* The calls of UpdateState and the connection.
LEMMA SyncAside ==
  ASSUME \/ Connect \/ Disconnect
         \/ \E i \in DOMAIN updates : \/ UpdateArrives(i) \/ UpdateReturns(i)
                                      \/ UpdateTimesOut(i)
         \/ \E o \in orphans : OrphanArrives(o)
  PROVE  Aside
<1> USE DEF Aside, OtherEffect, MailKept, NextEffect, Effect1, Executed, TimerTypes
<1>1. CASE Connect \/ Disconnect
  BY <1>1, Zenon DEF Connect, Disconnect, Post
<1>2. ASSUME NEW i \in DOMAIN updates, UpdateArrives(i) \/ UpdateReturns(i) \/ UpdateTimesOut(i)
      PROVE  Aside
  BY <1>2, Zenon DEF UpdateArrives, UpdateReturns, UpdateTimesOut, Post, actorVars
<1>3. CASE \E o \in orphans : OrphanArrives(o)
  BY <1>3 DEF OrphanArrives, actorVars
<1> QED BY <1>1, <1>2, <1>3

\* AwaitPermission.
LEMMA PermissionAside ==
  ASSUME UNCHANGED syncVars,
         \/ PermissionStep \/ PermissionStimulus
         \/ \E r \in Requests, v \in {"allow", "deny"} : \E known : PhoneDecides(r, v, known)
         \/ \E a \in Awaits : \E k : AwaitPermission(a, k)
  PROVE  Aside
<1> USE DEF Aside, OtherEffect, MailKept, NextEffect, Effect1, Executed, syncVars, TimerTypes
<1>1. CASE PermissionStep
  BY <1>1 DEF PermissionStep, AwaitAcknowledged, AwaitDecided, SignalAck,
              CompletePermissionDecision, EmitPermissionRequest, actorVars
<1>2. CASE PermissionStimulus
  BY <1>2 DEF PermissionStimulus, AwaitCancelled, AwaitRetries, Post
<1>3. CASE \/ \E r \in Requests, v \in {"allow", "deny"} : \E known : PhoneDecides(r, v, known)
           \/ \E a \in Awaits : \E k : AwaitPermission(a, k)
  BY <1>3 DEF PhoneDecides, AwaitPermission, Post
<1> QED BY <1>1, <1>2, <1>3

\* The Manager.
LEMMA ManagerAside ==
  ASSUME UNCHANGED syncVars, ManagerStep \/ ManagerStimulus
  PROVE  Aside
<1> USE DEF Aside, OtherEffect, MailKept, NextEffect, Effect1, Executed, syncVars, TimerTypes
<1>1. CASE ManagerStep
  BY <1>1 DEF ManagerStep, CompleteReply, AwaitConfigPersisted, StartPersistsState, Post
<1>2. CASE ManagerStimulus
  BY <1>2 DEF ManagerStimulus, SwitchMode, SendUserMessage, AbortRemote, SetAgentConfig, begin,
              ConfigTimesOut, InboundUserMessage, StartReadsState, Post
<1> QED BY <1>1, <1>2

----------------------------------------------------------------------------
(* The timer itself.                                                       *)

\* Starting, stopping and expiring: what is left of the queue decides.
LEMMA TimerKeptItself ==
  ASSUME ActorTypeOK, SyncTypeOK, TimerInv,
         StartTimer \/ CancelTimer \/ TimerExpires \/ TimerCallback \/ PersistAgentState
  PROVE  TimerInv'
<1>1. st' = st
  BY DEF StartTimer, CancelTimer, TimerExpires, TimerCallback, PersistAgentState
<1>2. CASE StartTimer
  <2>1. effects # <<>> /\ effects' = Tail(effects) /\ timer'
    BY <1>2 DEF StartTimer, NextEffect, Executed
  <2>2. Starts(effects) \/ Spares(effects) => Starts(effects') \/ Spares(effects')
    BY <2>1, TailOfEffects DEF ActorTypeOK
  <2> QED BY <1>1, <2>1, <2>2 DEF TimerInv, Ticking, Starts, Spares
<1>3. CASE CancelTimer
  <2>1. effects # <<>> /\ effects' = Tail(effects) /\ Head(effects).type = "CancelTimer"
    BY <1>3 DEF CancelTimer, NextEffect, Effect1, Executed
  <2>2. ~Spares(effects)
    BY <2>1 DEF Spares, ActorTypeOK
  <2>3. Starts(effects) => Starts(effects')
    BY <2>1, TailOfEffects DEF ActorTypeOK
  <2> QED BY <1>1, <2>2, <2>3 DEF TimerInv, Starts
<1>4. CASE TimerExpires
  <2>1. fired' > 0 /\ effects' = effects
    BY <1>4 DEF TimerExpires, SyncTypeOK
  <2> QED BY <1>1, <2>1 DEF TimerInv, Ticking, Starts, Spares
<1>5. CASE TimerCallback
  <2>1. effects' = effects
    BY <1>5 DEF TimerCallback
  <2>2. \E i \in DOMAIN inbox' : inbox'[i].type = "evTimerFired"
    <3>1. inbox' = Append(inbox, [type |-> "evTimerFired"])
      BY <1>5 DEF TimerCallback, Post
    <3>2. Len(inbox) + 1 \in DOMAIN inbox' /\ inbox'[Len(inbox) + 1] = [type |-> "evTimerFired"]
      BY <3>1 DEF ActorTypeOK
    <3> QED BY <3>2
  <2> QED BY <1>1, <2>1, <2>2 DEF TimerInv, Ticking, someInput, Starts, Spares
<1>6. CASE PersistAgentState
  <2>1. /\ effects # <<>> /\ effects' = Tail(effects) /\ Head(effects).type = "PersistAgentState"
        /\ timer' = timer /\ fired' = fired /\ inbox' = inbox
    BY <1>6 DEF PersistAgentState, NextEffect, Effect1, Executed
  <2>2. (Starts(effects) => Starts(effects')) /\ (Spares(effects) => Spares(effects'))
    BY <2>1, TailOfEffects DEF ActorTypeOK
  <2>3. Starts(effects') = Starts(effects)' /\ Spares(effects') = Spares(effects)'
    BY DEF Starts, Spares
  <2>4. Ticking' = Ticking
    BY <2>1 DEF Ticking, someInput
  <2> QED BY <1>1, <2>2, <2>3, <2>4 DEF TimerInv
<1> QED BY <1>2, <1>3, <1>4, <1>5, <1>6

----------------------------------------------------------------------------
(* The theorem.                                                            *)

\* Nothing is armed at the start.
LEMMA TimerInit == Init => TimerInv
<1>1. \A doc, version : ~InitialState(doc, version).PersistDebounceTimerArmed
  BY DEF InitialState
<1>2. Init => \E doc, version : st = InitialState(doc, version)
  BY Zenon DEF Init, ActorInit
<1> QED BY <1>1, <1>2 DEF TimerInv

\* Every step keeps the invariant.
LEMMA TimerStep ==
  ASSUME IInv, TimerInv, [Next]_vars
  PROVE  TimerInv'
<1>1. ActorTypeOK /\ SyncTypeOK
  BY DEF IInv, TypeOK
<1>2. CASE Aside
  BY <1>1, <1>2, AsideKept
<1>3. CASE LoopStep
  BY <1>1, <1>3, ReduceTimer DEF LoopStep, syncVars
<1>4. CASE RuntimeStep \/ (EngineStimulus /\ engineOnly)
  <2>1. UNCHANGED syncVars
    BY <1>4 DEF RuntimeStep, engineOnly
  <2> QED BY <1>2, <1>4, <2>1, RuntimeAside DEF RuntimeStep
<1>5. CASE SyncStep \/ SyncStimulus
  <2>1. CASE StartTimer \/ CancelTimer \/ TimerExpires \/ TimerCallback \/ PersistAgentState
    BY <1>1, <2>1, TimerKeptItself
  <2>2. CASE ~(StartTimer \/ CancelTimer \/ TimerExpires \/ TimerCallback \/ PersistAgentState)
    BY <1>2, <1>5, <2>2, SyncAside DEF SyncStep, SyncStimulus
  <2> QED BY <2>1, <2>2
<1>6. CASE /\ \/ PermissionStep \/ PermissionStimulus
              \/ \E r \in Requests, v \in {"allow", "deny"} : \E known : PhoneDecides(r, v, known)
           /\ permissionOnly
  <2>1. UNCHANGED syncVars
    BY <1>6 DEF permissionOnly
  <2> QED BY <1>2, <1>6, <2>1, PermissionAside
<1>7. CASE (ManagerStep \/ ManagerStimulus) /\ managerOnly
  <2>1. UNCHANGED syncVars
    BY <1>7 DEF managerOnly
  <2> QED BY <1>2, <1>7, <2>1, ManagerAside
<1>8. CASE SendResumes /\ UNCHANGED <<engineVars, syncVars>>
  BY <1>2, <1>8 DEF SendResumes, actorVars, syncVars, Aside, OtherEffect, MailKept
<1>9. CASE \E a \in Awaits : (EngineAsks(a) \/ SendAsks(a)) /\ UNCHANGED <<engineVars, syncVars>>
  <2>1. \E a \in Awaits : \E k : AwaitPermission(a, k)
    BY <1>9 DEF EngineAsks, SendAsks
  <2> QED BY <1>2, <1>9, <2>1, PermissionAside
<1>10. CASE UNCHANGED vars
  BY <1>2, <1>10 DEF vars, actorVars, syncVars, Aside, OtherEffect, MailKept
<1> QED BY <1>3, <1>4, <1>5, <1>6, <1>7, <1>8, <1>9, <1>10 DEF Next, Internal, Stimulus

\* What the invariant is for.
LEMMA TimerInvSuffices ==
  ASSUME ActorTypeOK, TimerInv
  PROVE  ArmedTimerRuns
<1>1. Starts(effects) => someEffect({"StartTimer"})
  BY DEF Starts, someEffect, ActorTypeOK
<1> QED BY <1>1 DEF TimerInv, Ticking, ArmedTimerRuns

\* A dirty agentState is never left waiting for a timer that does not run: in
\* every interleaving of the reducer, the queue of effects and the callback of
\* a timer that expires while it is being cancelled, the reducer's belief that
\* the timer is armed is true or about to be.
THEOREM ArmedTimer == Spec => []ArmedTimerRuns
<1>1. IInv /\ TimerInv /\ [Next]_vars => IInv' /\ TimerInv'
  BY NextType, TimerStep
<1>2. IInv /\ TimerInv => ArmedTimerRuns
  BY TimerInvSuffices DEF IInv, TypeOK
<1> QED BY <1>1, <1>2, InitType, TimerInit, PTL DEF Spec

----------------------------------------------------------------------------
(* A change of agentState is not forgotten on its way to the server.  The   *)
(* evidence that it is under way can be lost to a CancelTimer; behind that  *)
(* there is always an effect that makes new evidence.                       *)

\* The effect makes the runtime send json, now or when the timer expires.
carries(x, json) ==
  x.type = "StartTimer" \/ (x.type = "PersistAgentState" /\ x.json = json)

\* No cancellation waits behind the i-th effect.
Stays(e, i) == \A j \in 1..Len(e) : j > i => e[j].type # "CancelTimer"

Launches(e, json) == \E i \in 1..Len(e) : carries(e[i], json) /\ Stays(e, i)

\* Behind every cancellation.
Covered(e, json) ==
  \A i \in 1..Len(e) : e[i].type = "CancelTimer" =>
    \E j \in 1..Len(e) : j > i /\ carries(e[j], json)

CarryInv == Covered(effects, st.AgentStateJSON)

\* What is queued behind a carrier, and what came before it.
LEMMA LaunchesBefore ==
  ASSUME NEW S, NEW a \in Seq(S), NEW b \in Seq(Timeless), NEW json, Launches(a, json)
  PROVE  Launches(a \o b, json)
<1>1. PICK i \in 1..Len(a) : carries(a[i], json) /\ Stays(a, i)
  BY DEF Launches
<1>2. i \in 1..Len(a \o b) /\ (a \o b)[i] = a[i]
  OBVIOUS
<1>3. ASSUME NEW j \in 1..Len(a \o b), j > i
      PROVE  (a \o b)[j].type # "CancelTimer"
  <2>1. CASE j \in 1..Len(a)
    BY <1>1, <1>3, <2>1 DEF Stays
  <2>2. CASE j \notin 1..Len(a)
    <3>1. (a \o b)[j] \in Timeless
      BY <2>2
    <3> QED BY <3>1 DEF Timeless, TimerTypes
  <2> QED BY <2>1, <2>2
<1>4. Stays(a \o b, i)
  BY <1>3 DEF Stays
<1> QED BY <1>1, <1>2, <1>4, Zenon DEF Launches

LEMMA LaunchesAfter ==
  ASSUME NEW S, NEW a \in Seq(S), NEW T, NEW b \in Seq(T), NEW json, Launches(b, json)
  PROVE  Launches(a \o b, json)
<1>1. PICK i \in 1..Len(b) : carries(b[i], json) /\ Stays(b, i)
  BY DEF Launches
<1>2. i + Len(a) \in 1..Len(a \o b) /\ (a \o b)[i + Len(a)] = b[i]
  OBVIOUS
<1>3. ASSUME NEW j \in 1..Len(a \o b), j > i + Len(a)
      PROVE  (a \o b)[j].type # "CancelTimer"
  <2>1. j - Len(a) \in 1..Len(b) /\ (a \o b)[j] = b[j - Len(a)] /\ j - Len(a) > i
    BY <1>3
  <2> QED BY <1>1, <2>1 DEF Stays
<1>4. Stays(a \o b, i + Len(a))
  BY <1>3 DEF Stays
<1> QED BY <1>1, <1>2, <1>4, Zenon DEF Launches

\* A carrier covers all cancellations, those before and those behind it.
LEMMA LaunchesCover ==
  ASSUME NEW S, NEW a \in Seq(S), NEW b \in Seq(S), NEW json, Launches(b, json)
  PROVE  /\ Covered(a \o b, json)
         /\ \E i \in DOMAIN (a \o b) : carries((a \o b)[i], json)
<1>1. PICK c : c = a \o b
  OBVIOUS
<1>2. c \in Seq(S) /\ Launches(c, json)
  BY <1>1, LaunchesAfter
<1>3. PICK i \in 1..Len(c) : carries(c[i], json) /\ Stays(c, i)
  BY <1>2 DEF Launches
<1>4. ASSUME NEW k \in 1..Len(c), c[k].type = "CancelTimer"
      PROVE  \E j \in 1..Len(c) : j > k /\ carries(c[j], json)
  <2>1. ~(k > i)
    BY <1>3, <1>4 DEF Stays
  <2>2. k # i
    BY <1>3, <1>4 DEF carries
  <2>3. i > k
    BY <1>2, <2>1, <2>2
  <2> QED BY <1>3, <2>3
<1>5. DOMAIN c = 1..Len(c)
  BY <1>2
<1> QED BY <1>1, <1>3, <1>4, <1>5 DEF Covered

LEMMA CoveredBefore ==
  ASSUME NEW S, NEW a \in Seq(S), NEW b \in Seq(S), NEW json, Covered(a, json), Spares(b)
  PROVE  Covered(a \o b, json)
<1>1. PICK c : c = a \o b
  OBVIOUS
<1>2. ASSUME NEW k \in 1..Len(c), c[k].type = "CancelTimer"
      PROVE  \E j \in 1..Len(c) : j > k /\ carries(c[j], json)
  <2>1. k \in 1..Len(a) /\ c[k] = a[k]
    <3>1. CASE k \in 1..Len(a)
      BY <1>1, <3>1
    <3>2. CASE k \notin 1..Len(a)
      <4>1. k - Len(a) \in 1..Len(b) /\ c[k] = b[k - Len(a)]
        BY <1>1, <3>2
      <4> QED BY <1>2, <4>1 DEF Spares
    <3> QED BY <3>1, <3>2
  <2>2. PICK j \in 1..Len(a) : j > k /\ carries(a[j], json)
    BY <1>2, <2>1 DEF Covered
  <2>3. j \in 1..Len(c) /\ c[j] = a[j]
    BY <1>1
  <2> QED BY <2>2, <2>3
<1> QED BY <1>1, <1>2 DEF Covered

\* The head of the queue is executed.
LEMMA CoveredTail ==
  ASSUME NEW e \in Seq(Effect), e # <<>>, NEW json, Covered(e, json)
  PROVE  /\ Covered(Tail(e), json)
         /\ Head(e).type = "CancelTimer" =>
              \E j \in DOMAIN Tail(e) : carries(Tail(e)[j], json)
<1>1. PICK t : t = Tail(e)
  OBVIOUS
<1>2. /\ t \in Seq(Effect) /\ DOMAIN t = 1..Len(t) /\ Len(e) \in Nat
      /\ \A j \in 1..Len(t) : t[j] = e[j + 1] /\ j + 1 \in 1..Len(e)
      /\ \A j \in 1..Len(e) : j > 1 => j - 1 \in 1..Len(t) /\ t[j - 1] = e[j]
  BY <1>1
<1>3. ASSUME NEW k \in 1..Len(e), e[k].type = "CancelTimer"
      PROVE  \E j \in 1..Len(t) : j > k - 1 /\ carries(t[j], json)
  <2>1. PICK j \in 1..Len(e) : j > k /\ carries(e[j], json)
    BY <1>3 DEF Covered
  <2>2. j > 1 /\ j - 1 > k - 1
    BY <2>1, <1>2
  <2> QED BY <1>2, <2>1, <2>2
<1>4. Covered(t, json)
  <2>1. ASSUME NEW k \in 1..Len(t), t[k].type = "CancelTimer"
        PROVE  \E j \in 1..Len(t) : j > k /\ carries(t[j], json)
    <3>1. k + 1 \in 1..Len(e) /\ e[k + 1].type = "CancelTimer" /\ (k + 1) - 1 = k
      BY <1>2, <2>1
    <3> QED BY <1>3, <3>1
  <2> QED BY <2>1 DEF Covered
<1>5. ASSUME Head(e).type = "CancelTimer"
      PROVE  \E j \in DOMAIN t : carries(t[j], json)
  <2>1. 1 \in 1..Len(e) /\ e[1].type = "CancelTimer"
    BY <1>5
  <2> QED BY <1>2, <1>3, <2>1
<1> QED BY <1>1, <1>4, <1>5

----------------------------------------------------------------------------
(* What a handler does: it makes a carrier, which it has to do if it        *)
(* changes agentState or cancels, or it leaves both alone.                  *)

Carried(s, r) ==
  \/ Launches(r.eff, r.st.AgentStateJSON)
  \/ r.st.AgentStateJSON = s.AgentStateJSON /\ Spares(r.eff)

LEMMA RetCarried ==
  ASSUME NEW s, NEW n, n.AgentStateJSON = s.AgentStateJSON, NEW eff \in Seq(Timeless)
  PROVE  Carried(s, Ret(n, eff))
<1>1. \A i \in 1..Len(eff) : eff[i].type # "CancelTimer"
  BY DEF Timeless, TimerTypes
<1> QED BY <1>1, Zenon DEF Carried, Ret, Spares

LEMMA RetLaunched ==
  ASSUME NEW s, NEW n, NEW eff, Launches(eff, n.AgentStateJSON)
  PROVE  Carried(s, Ret(n, eff))
BY Zenon DEF Carried, Ret

\* Both ways to persist make a carrier.
LEMMA DebounceLaunches ==
  ASSUME NEW s, NEW m, NEW n, NEW json, NEW S, NEW a \in Seq(S), NEW b \in Seq(Timeless)
  PROVE  /\ Launches(schedulePersistDebounced(n).eff, json)
         /\ Launches(a \o schedulePersistDebounced(n).eff, json)
         /\ Launches(a \o schedulePersistDebounced(n).eff \o b, json)
<1> DEFINE e == schedulePersistDebounced(n).eff
<1>1. e = <<effCancelTimer, effStartTimer>>
  BY Zenon DEF schedulePersistDebounced, Ret
<1>2. e \in Seq(Effect)
  BY DebounceTimer
<1>3. Launches(e, json)
  <2>1. Len(e) = 2 /\ e[2].type = "StartTimer"
    BY <1>1 DEF effStartTimer
  <2>2. 2 \in 1..Len(e) /\ Stays(e, 2) /\ carries(e[2], json)
    BY <2>1 DEF Stays, carries
  <2> QED BY <2>2 DEF Launches
<1> HIDE DEF e
<1>4. Launches(a \o e, json) /\ a \o e \in Seq(S \cup Effect)
  BY <1>2, <1>3, LaunchesAfter
<1>5. Launches(a \o e \o b, json)
  BY <1>4, LaunchesBefore
<1> QED BY <1>3, <1>4, <1>5 DEF e

LEMMA RequestLaunches ==
  ASSUME NEW n \in State
  PROVE  /\ <<effCancelTimer, persistEffect(n)>> \in Seq(Effect)
         /\ Launches(<<effCancelTimer, persistEffect(n)>>, n.AgentStateJSON)
         /\ Launches(<<persistEffect(n)>>, n.AgentStateJSON)
<1>1. PICK x : x = persistEffect(n)
  OBVIOUS
<1>2. x \in Effect /\ x.type = "PersistAgentState" /\ x.json = n.AgentStateJSON
  BY <1>1, PublishingType DEF persistEffect, effPersistAgentState
<1>3. carries(x, n.AgentStateJSON)
  BY <1>2 DEF carries
<1>4. effCancelTimer \in Effect
  BY EffectTypes DEF Quiet
<1>5. <<effCancelTimer, x>> \in Seq(Effect)
  BY <1>2, <1>4
<1>6. Launches(<<effCancelTimer, x>>, n.AgentStateJSON)
  <2>1. Len(<<effCancelTimer, x>>) = 2 /\ <<effCancelTimer, x>>[2] = x
    OBVIOUS
  <2>2. 2 \in 1..2 /\ Stays(<<effCancelTimer, x>>, 2)
    BY <2>1 DEF Stays
  <2> QED BY <1>3, <2>1, <2>2 DEF Launches
<1>7. Launches(<<x>>, n.AgentStateJSON)
  <2>1. Len(<<x>>) = 1 /\ <<x>>[1] = x
    OBVIOUS
  <2>2. 1 \in 1..1 /\ Stays(<<x>>, 1)
    BY <2>1 DEF Stays
  <2> QED BY <1>3, <2>1, <2>2 DEF Launches
<1> QED BY <1>1, <1>5, <1>6, <1>7

LEMMA PersistNowLaunches ==
  ASSUME NEW s, NEW n \in State, NEW b \in Seq(Timeless), NEW c \in Seq(Timeless)
  PROVE  /\ Carried(s, persistAgentStateImmediately(n))
         /\ Carried(s, Ret(persistAgentStateImmediately(n).st, persistAgentStateImmediately(n).eff \o b))
         /\ Carried(s, Ret(persistAgentStateImmediately(n).st,
                           persistAgentStateImmediately(n).eff \o b \o c))
<1> DEFINE m == [n EXCEPT !.PersistRetryRemaining = 1, !.PersistDebounceTimerArmed = FALSE,
                          !.PersistInFlight = TRUE]
           e == <<effCancelTimer, persistEffect(n)>>
<1>1. persistAgentStateImmediately(n) = Ret(m, e)
  BY Zenon DEF persistAgentStateImmediately
<1>2. m.AgentStateJSON = n.AgentStateJSON
  BY Zenon DEF State
<1>3. e \in Seq(Effect) /\ Launches(e, n.AgentStateJSON)
  BY RequestLaunches
<1> HIDE DEF m, e
<1>4. Ret(m, e).st = m /\ Ret(m, e).eff = e
  BY Zenon DEF Ret
<1>5. e \o b \in Seq(Effect) /\ Launches(e \o b, n.AgentStateJSON)
  <2>1. b \in Seq(Effect)
    BY SeqMonotonic DEF Timeless
  <2> QED BY <1>3, <2>1, LaunchesBefore
<1>6. Launches(e \o b \o c, n.AgentStateJSON)
  BY <1>5, LaunchesBefore
<1>7. Carried(s, Ret(m, e)) /\ Carried(s, Ret(m, e \o b)) /\ Carried(s, Ret(m, e \o b \o c))
  BY <1>2, <1>3, <1>5, <1>6, RetLaunched
<1> QED BY <1>1, <1>4, <1>7

\* cmdSwitchMode and the takeback.
LEMMA SwitchModeCarries ==
  ASSUME NEW s \in State, NEW target \in Modes, NEW reply \in Calls \cup {None}
  PROVE  Carried(s, reduceSwitchMode(s, target, reply))
<1> DEFINE n == switchedTo(s, target, reply)
<1>1. Carried(s, Ret(s, replyTo(reply, "ok")))
  BY RepliesTimeless, RetCarried DEF Results
<1>2. n \in State
  BY SwitchedType
<1> HIDE DEF n
<1>3. PICK S : restartEffects(n) \in Seq(S)
  BY RestartSeq
<1>4. Launches(restartEffects(n) \o <<effCancelTimer, persistEffect(n)>>, n.AgentStateJSON)
  BY <1>2, <1>3, RequestLaunches, LaunchesAfter
<1>5. Carried(s, Ret(n, restartEffects(n) \o <<effCancelTimer, persistEffect(n)>>))
  BY <1>4, RetLaunched, Zenon
<1> QED BY <1>1, <1>5, Zenon DEF reduceSwitchMode, n

\* evRunnerReady.
LEMMA RunnerReadyCarries ==
  ASSUME NEW s \in State, NEW in
  PROVE  Carried(s, reduceRunnerReady(s, in))
<1> DEFINE handle == [gen |-> in.gen, running |-> TRUE]
           reply == replyTo(s.PendingSwitchReply, "ok")
           l == [s EXCEPT !.FSM = "LocalRunning", !.LocalRunner = handle,
                          !.PendingSwitchReply = None]
           r == [s EXCEPT !.FSM = "RemoteRunning", !.RemoteRunner = handle,
                          !.PendingSwitchReply = None, !.PendingRemoteSends = <<>>]
<1>1. reply \in Seq(Timeless) /\ <<>> \in Seq(Timeless)
  BY StateFields, RepliesTimeless DEF Results
<1>2. l.AgentStateJSON = s.AgentStateJSON /\ r.AgentStateJSON = s.AgentStateJSON
  BY Zenon DEF State
<1>3. remoteReadyEffects(s) \in Seq(Timeless)
  BY ReadyTimeless
<1>4. reply \o remoteReadyEffects(s) \in Seq(Timeless)
  BY <1>1, <1>3, SeqType, Zenon
<1>5. /\ Carried(s, Ret(s, <<>>))
      /\ Carried(s, Ret(l, reply))
      /\ Carried(s, Ret(r, reply \o remoteReadyEffects(s)))
  BY <1>1, <1>2, <1>4, RetCarried, Zenon
<1> QED BY <1>5, Zenon DEF reduceRunnerReady

\* evRunnerExited.
LEMMA RunnerExitedCarries ==
  ASSUME NEW s \in State, NEW in, in.err \in Results
  PROVE  Carried(s, reduceRunnerExited(s, in))
<1> DEFINE n == recordExit(s, in)
           failed == backToLocal(n)
           idle == [failed EXCEPT !.Working = FALSE]
           closed == [n EXCEPT !.FSM = "Closed"]
           reply == replyTo(n.PendingSwitchReply, in.err)
<1>1. n \in State /\ n.AgentStateJSON = s.AgentStateJSON
  <2>1. n \in State
    BY RecordExitType, Zenon
  <2>2. n.AgentStateJSON = s.AgentStateJSON
    BY Zenon DEF recordExit, State
  <2> QED BY <2>1, <2>2
<1> HIDE DEF n
<1>2. reply \in Seq(Timeless) /\ <<>> \in Seq(Timeless)
  BY <1>1, StateFields, RepliesTimeless
<1>3. idle.AgentStateJSON = s.AgentStateJSON /\ closed.AgentStateJSON = s.AgentStateJSON
  BY <1>1, Zenon DEF backToLocal, State
<1>4. Carried(s, failStart(n, in.err))
  <2>1. reply \o localSendLines(n) \in Seq(Timeless)
    BY <1>1, <1>2, SendsTimeless, SeqType, Zenon
  <2>2. Carried(s, Ret(idle, reply))
    BY <1>2, <1>3, RetCarried, Zenon
  <2>3. \A d, json : Launches(reply \o localSendLines(n) \o schedulePersistDebounced(d).eff, json)
    BY <1>2, <2>1, DebounceLaunches, Zenon
  <2>4. \A d : Carried(s, Ret(schedulePersistDebounced(d).st,
                              reply \o localSendLines(n) \o schedulePersistDebounced(d).eff))
    BY <2>3, RetLaunched, Zenon
  <2> QED BY <2>2, <2>4, Zenon DEF failStart
<1>5. Carried(s, fallBackToLocal(n))
  <2>1. \A d : \E S : restartEffects(d) \in Seq(S)
    BY RestartSeq, Zenon
  <2>2. \A d, json : Launches(restartEffects(schedulePersistDebounced(d).st)
                                \o schedulePersistDebounced(d).eff, json)
    BY <1>2, <2>1, DebounceLaunches, Zenon
  <2>3. \A d : Carried(s, Ret(schedulePersistDebounced(d).st,
                              restartEffects(schedulePersistDebounced(d).st)
                                \o schedulePersistDebounced(d).eff))
    BY <2>2, RetLaunched, Zenon
  <2> QED BY <2>3, Zenon DEF fallBackToLocal
<1>6. Carried(s, Ret(s, <<>>)) /\ Carried(s, Ret(closed, <<>>))
  BY <1>2, <1>3, RetCarried, Zenon
<1>7. \/ reduceRunnerExited(s, in) = Ret(s, <<>>)
      \/ reduceRunnerExited(s, in) = failStart(n, in.err)
      \/ reduceRunnerExited(s, in) = fallBackToLocal(n)
      \/ reduceRunnerExited(s, in) = Ret(closed, <<>>)
  BY DEF reduceRunnerExited, n
<1> QED BY <1>4, <1>5, <1>6, <1>7, Zenon

\* cmdShutdown, cmdRemoteSend, cmdAbortRemote and evEngineWorking.
LEMMA PlainCarries ==
  ASSUME NEW s \in State
  PROVE  /\ Carried(s, reduceShutdown(s))
         /\ \A msg \in Messages, reply \in Calls \cup {None} :
              Carried(s, reduceRemoteSend(s, msg, reply))
         /\ \A reply \in Calls \cup {None} : Carried(s, reduceAbortRemote(s, reply))
         /\ \A in : Carried(s, reduceEngineWorking(s, in))
<1>1. s.RunnerGen \in Nat /\ <<>> \in Seq(Timeless)
  BY StateFields
<1>2. Carried(s, reduceShutdown(s))
  <2>1. [s EXCEPT !.FSM = "Closing"].AgentStateJSON = s.AgentStateJSON
    BY Zenon DEF State
  <2>2. <<effStopLocalRunner(s.RunnerGen), effStopRemoteRunner(s.RunnerGen),
          effTakebackWatcher(FALSE)>> \in Seq(Timeless)
    BY <1>1, TimelessTypes, SeqType, Zenon
  <2> QED BY <2>1, <2>2, RetCarried, Zenon DEF reduceShutdown
<1>3. ASSUME NEW msg \in Messages, NEW reply \in Calls \cup {None}
      PROVE  Carried(s, reduceRemoteSend(s, msg, reply))
  <2>1. replyTo(reply, "ok") \in Seq(Timeless) /\ replyTo(reply, "err") \in Seq(Timeless)
    BY RepliesTimeless DEF Results
  <2>2. <<effRemoteSend(s.RunnerGen, msg)>> \o replyTo(reply, "ok") \in Seq(Timeless)
    BY <1>1, <2>1, TimelessTypes, SeqType, Zenon
  <2>3. maybeStartTurn(s).AgentStateJSON = s.AgentStateJSON
    BY Zenon DEF maybeStartTurn, State
  <2> QED BY <2>1, <2>2, <2>3, RetCarried, Zenon DEF reduceRemoteSend
<1>4. ASSUME NEW reply \in Calls \cup {None}
      PROVE  Carried(s, reduceAbortRemote(s, reply))
  <2>1. replyTo(reply, "ok") \in Seq(Timeless) /\ replyTo(reply, "err") \in Seq(Timeless)
    BY RepliesTimeless DEF Results
  <2>2. <<effRemoteAbort(s.RunnerGen)>> \o replyTo(reply, "ok") \in Seq(Timeless)
    BY <1>1, <2>1, TimelessTypes, SeqType, Zenon
  <2> QED BY <2>1, <2>2, RetCarried, Zenon DEF reduceAbortRemote
<1>5. ASSUME NEW in
      PROVE  Carried(s, reduceEngineWorking(s, in))
  <2>1. [s EXCEPT !.Working = in.working].AgentStateJSON = s.AgentStateJSON
    BY Zenon DEF State
  <2> QED BY <1>1, <2>1, RetCarried, Zenon DEF reduceEngineWorking
<1> QED BY <1>2, <1>3, <1>4, <1>5

\* cmdInboundUserMessage.
LEMMA InboundCarries ==
  ASSUME NEW s \in State, NEW msg \in Messages
  PROVE  Carried(s, reduceInboundUserMessage(s, msg))
<1> DEFINE buffered == [s EXCEPT !.PendingRemoteSends = Append(@, msg)]
           r == reduceSwitchMode(buffered, "remote", None)
<1>1. buffered \in State /\ buffered.AgentStateJSON = s.AgentStateJSON
  <2>1. Append(s.PendingRemoteSends, msg) \in Seq(Messages)
    BY StateFields
  <2> QED BY <2>1, Zenon DEF State
<1> HIDE DEF buffered
<1>2. r.st \in State /\ Carried(s, r)
  <2>1. "remote" \in Modes
    BY DEF Modes
  <2>2. r.st \in State
    BY <1>1, <2>1, SwitchModeType, Zenon DEF Handled, WellTyped
  <2>3. Carried(buffered, r)
    BY <1>1, <2>1, SwitchModeCarries, Zenon
  <2> QED BY <1>1, <2>2, <2>3, Zenon DEF Carried
<1> HIDE DEF r
<1>3. \A n \in State : maybeStartTurn(n).AgentStateJSON = n.AgentStateJSON
  BY Zenon DEF maybeStartTurn, State
<1>4. Carried(s, Ret(maybeStartTurn(r.st), r.eff))
  BY <1>2, <1>3, Zenon DEF Carried, Ret
<1>5. <<effRemoteSend(s.RunnerGen, msg)>> \in Seq(Timeless) /\ <<>> \in Seq(Timeless)
  BY StateFields, TimelessTypes, SeqType, Zenon
<1>6. /\ Carried(s, Ret(maybeStartTurn(s), <<effRemoteSend(s.RunnerGen, msg)>>))
      /\ Carried(s, Ret(maybeStartTurn(buffered), <<>>))
  BY <1>1, <1>3, <1>5, RetCarried, Zenon
<1> QED BY <1>4, <1>6, Zenon DEF reduceInboundUserMessage, buffered, r

\* cmdSetAgentConfig.
LEMMA SetAgentConfigCarries ==
  ASSUME NEW s \in State, NEW in, in.model \in Models \cup {None},
         in.permissionMode \in PermissionModes \cup {None}, in.reply \in Calls \cup {None}
  PROVE  Carried(s, reduceSetAgentConfig(s, in))
<1> DEFINE keep(new, old) == IF new = None THEN old ELSE new
           cfg == [model |-> keep(in.model, s.AgentState.config.model),
                   permissionMode |-> keep(in.permissionMode,
                                           s.AgentState.config.permissionMode)]
           n == [s EXCEPT !.AgentState.config = cfg]
           m == refreshAgentStateJSON(n)
           p == persistAgentStateImmediately(m)
           apply == IF s.FSM = "RemoteRunning"
                    THEN <<effApplyEngineConfig(s.RunnerGen, cfg)>> ELSE <<>>
           reply == replyTo(in.reply, "ok")
<1>1. cfg \in AgentConfig
  <2>1. s.AgentState.config.model \in Models
        /\ s.AgentState.config.permissionMode \in PermissionModes
    BY StateFields, AgentStateFields
  <2>2. keep(in.model, s.AgentState.config.model) \in Models
        /\ keep(in.permissionMode, s.AgentState.config.permissionMode) \in PermissionModes
    BY <2>1
  <2> QED BY <2>2, Zenon DEF AgentConfig
<1> HIDE DEF cfg
<1>2. [s.AgentState EXCEPT !.config = cfg] \in AgentState
  BY <1>1, StateFields, Zenon DEF AgentState
<1>3. n \in State /\ Keeps(n, n)
  BY <1>2, Zenon DEF State, Keeps
<1> HIDE DEF n
<1>4. m \in State
  BY <1>2, <1>3, RevisionType, Zenon
<1> HIDE DEF m
<1>5. apply \in Seq(Timeless)
  <2>1. effApplyEngineConfig(s.RunnerGen, cfg) \in Timeless
    BY <1>1, StateFields, TimelessTypes, Zenon
  <2> QED BY <2>1, SeqType, Zenon
<1>6. reply \in Seq(Timeless)
  BY RepliesTimeless DEF Results
<1>7. Carried(s, Ret(p.st, p.eff \o apply \o reply))
  <2> HIDE DEF apply, reply
  <2> QED BY <1>4, <1>5, <1>6, PersistNowLaunches, Zenon
<1>8. /\ Carried(s, Ret(s, replyTo(in.reply, "err")))
      /\ Carried(s, Ret(s, replyTo(in.reply, "ok")))
  BY RepliesTimeless, RetCarried DEF Results
<1>9. \/ reduceSetAgentConfig(s, in) = Ret(s, replyTo(in.reply, "err"))
      \/ reduceSetAgentConfig(s, in) = Ret(s, replyTo(in.reply, "ok"))
      \/ reduceSetAgentConfig(s, in) = Ret(p.st, p.eff \o apply \o reply)
  <2>1. CASE s.Mode # "remote" \/ s.AgentState.controlledByUser
    BY <2>1, Zenon DEF reduceSetAgentConfig
  <2>2. CASE /\ ~(s.Mode # "remote" \/ s.AgentState.controlledByUser)
             /\ cfg = s.AgentState.config
    BY <2>2, Zenon DEF reduceSetAgentConfig, cfg
  <2>3. CASE /\ ~(s.Mode # "remote" \/ s.AgentState.controlledByUser)
             /\ cfg # s.AgentState.config
    BY <2>3, Zenon DEF reduceSetAgentConfig, cfg, n, m
  <2> QED BY <2>1, <2>2, <2>3
<1> QED BY <1>7, <1>8, <1>9, Zenon

\* evEngineSessionIdentified, evWSConnected and evWSDisconnected.
LEMMA IdentityCarries ==
  ASSUME NEW s \in State
  PROVE  /\ \A in : Carried(s, reduceEngineSessionIdentified(s, in))
         /\ Carried(s, reduceWSConnected(s))
         /\ Carried(s, reduceWSDisconnected(s))
<1>1. <<>> \in Seq(Timeless)
  BY SeqType, Zenon
<1>2. [s EXCEPT !.WSConnected = FALSE].AgentStateJSON = s.AgentStateJSON
  BY Zenon DEF State
<1>3. \A n : Carried(s, schedulePersistDebounced(n))
  BY <1>1, DebounceLaunches, Zenon DEF Carried
<1> QED BY <1>1, <1>2, <1>3, RetCarried, Zenon
        DEF reduceEngineSessionIdentified, reduceWSConnected, reduceWSDisconnected

\* cmdPermissionDecision.
LEMMA DecisionCarries ==
  ASSUME NEW s \in State, NEW in, in.request \in Requests, in.verdict \in {"allow", "deny"}
  PROVE  Carried(s, reducePermissionDecision(s, in))
<1>1. <<>> \in Seq(Timeless) /\ in.verdict \in Verdicts
  BY DEF Verdicts
<1>2. completePromise(s, in.request, in.verdict) \in Seq(Quiet)
  BY <1>1, CompletePromiseType
<1>3. \A n, json : Launches(completePromise(s, in.request, in.verdict)
                              \o schedulePersistDebounced(n).eff, json)
  BY <1>1, <1>2, DebounceLaunches, Zenon
<1>4. \A n : Carried(s, Ret(schedulePersistDebounced(n).st,
                            completePromise(s, in.request, in.verdict)
                              \o schedulePersistDebounced(n).eff))
  BY <1>3, RetLaunched, Zenon
<1> QED BY <1>1, <1>4, RetCarried, Zenon DEF reducePermissionDecision

\* cmdPermissionAwait.
LEMMA AwaitCarries ==
  ASSUME NEW s \in State, NEW in, in.await \in Awaits
  PROVE  Carried(s, reducePermissionAwait(s, in))
<1> DEFINE a == in.await
           r == RequestOf[a]
           auto == autoVerdict(s)
           finished == [s EXCEPT !.AgentState.completedRequests = [@ EXCEPT ![r] = auto]]
           m == refreshAgentStateJSON(finished)
           p == persistAgentStateImmediately(m)
           promised == [s EXCEPT !.PendingPermissionPromises = [@ EXCEPT ![r] = a]]
           again == <<effEmitPermissionRequest(r), effSignalAck(a)>>
           decide == <<effSignalAck(a), effCompletePermissionDecision(a, auto)>>
<1>1. a \in Awaits /\ r \in Requests /\ auto \in Verdicts
  BY ConstantsOK, AutoVerdictType
<1>2. finished \in State /\ Keeps(finished, finished)
  <2>1. [s.AgentState.completedRequests EXCEPT ![r] = auto] \in [Requests -> Verdicts]
    BY <1>1, StateFields, AgentStateFields
  <2>2. [s.AgentState EXCEPT !.completedRequests
           = [s.AgentState.completedRequests EXCEPT ![r] = auto]] \in AgentState
    BY <2>1, StateFields, Zenon DEF AgentState
  <2> QED BY <2>2, Zenon DEF State, Keeps
<1>3. promised.AgentStateJSON = s.AgentStateJSON
  BY Zenon DEF State
<1> HIDE DEF a, r, auto
<1>4. again \in Seq(Timeless) /\ <<effSignalAck(a)>> \in Seq(Timeless)
      /\ <<effEmitPermissionRequest(r)>> \in Seq(Timeless) /\ decide \in Seq(Timeless)
  BY <1>1, TimelessTypes, SeqType, Zenon
<1> HIDE DEF finished, promised, again, decide
<1>5. m \in State
  <2>1. s.AgentState \in AgentState
    BY StateFields
  <2> QED BY <1>2, <2>1, RevisionType, Zenon
<1> HIDE DEF m
<1>6. Carried(s, Ret(p.st, p.eff \o decide))
  BY <1>4, <1>5, PersistNowLaunches, Zenon
<1>7. Carried(s, Ret(promised, again))
  BY <1>3, <1>4, RetCarried, Zenon
<1>8. \A n, json : Launches(<<effEmitPermissionRequest(r)>> \o schedulePersistDebounced(n).eff
                              \o <<effSignalAck(a)>>, json)
  BY <1>4, DebounceLaunches, Zenon
<1>9. \A n : Carried(s, Ret(schedulePersistDebounced(n).st,
                            <<effEmitPermissionRequest(r)>> \o schedulePersistDebounced(n).eff
                              \o <<effSignalAck(a)>>))
  BY <1>8, RetLaunched, Zenon
<1> QED BY <1>6, <1>7, <1>9, Zenon
        DEF reducePermissionAwait, a, r, auto, finished, m, promised, again, decide

\* The handlers of the persistence itself.
LEMMA PersistenceCarries ==
  ASSUME NEW s \in State
  PROVE  /\ \A doc \in AgentState : Carried(s, reducePersistAgentStateImmediate(s, doc))
         /\ \A reply \in Calls : Carried(s, reduceWaitForAgentStatePersist(s, reply))
         /\ \A in : Carried(s, reduceAgentStatePersisted(s, in))
<1>1. /\ <<>> \in Seq(Timeless) /\ s.AgentState \in AgentState /\ Keeps(s, s)
      /\ completeWaiters(s.PersistWaiters, "ok") \in Seq(Timeless)
  BY StateFields, RepliesTimeless DEF Results, Keeps
<1>2. ASSUME NEW doc \in AgentState
      PROVE  Carried(s, reducePersistAgentStateImmediate(s, doc))
  <2>1. setAgentStateJSON(s, doc) \in State
    BY <1>1, RevisionType, Zenon
  <2> QED BY <1>1, <2>1, PersistNowLaunches, Zenon DEF reducePersistAgentStateImmediate
<1>3. ASSUME NEW reply \in Calls
      PROVE  Carried(s, reduceWaitForAgentStatePersist(s, reply))
  <2> DEFINE w == [s EXCEPT !.PersistWaiters = Append(@, reply)]
  <2>1. Append(s.PersistWaiters, reply) \in Seq(Calls)
    BY StateFields
  <2>2. w \in State /\ w.AgentStateJSON = s.AgentStateJSON
    BY <2>1, Zenon DEF State
  <2> HIDE DEF w
  <2>3. Carried(s, Ret(w, <<>>)) /\ Carried(s, persistAgentStateImmediately(w))
    BY <1>1, <2>2, RetCarried, PersistNowLaunches, Zenon
  <2> QED BY <2>3, Zenon DEF reduceWaitForAgentStatePersist, w
<1>4. ASSUME NEW in
      PROVE  Carried(s, reduceAgentStatePersisted(s, in))
  <2>1. [s EXCEPT !.AgentStateVersion = IF in.version > 0 THEN in.version ELSE @,
                  !.PersistRetryRemaining = 0, !.PersistInFlight = FALSE,
                  !.PersistWaiters = <<>>].AgentStateJSON = s.AgentStateJSON
    BY Zenon DEF State
  <2> QED BY <1>1, <2>1, RetCarried, Zenon DEF reduceAgentStatePersisted
<1> QED BY <1>2, <1>3, <1>4

\* Three handlers take the evidence from the mailbox, and make a carrier unless there
\* is no retry left,
LEMMA MismatchCarries ==
  ASSUME NEW s \in State, NEW in, in.version \in Nat
  PROVE  LET r == reduceAgentStateVersionMismatch(s, in)
         IN  Carried(s, r) /\ (s.PersistRetryRemaining # 0 => Launches(r.eff, r.st.AgentStateJSON))
<1> DEFINE v == IF in.version > 0 THEN in.version ELSE s.AgentStateVersion
           n == [s EXCEPT !.AgentStateVersion = v]
           m == [n EXCEPT !.PersistRetryRemaining = @ - 1,
                          !.PersistDebounceTimerArmed = FALSE,
                          !.PersistInFlight = TRUE]
           r == reduceAgentStateVersionMismatch(s, in)
<1>1. v \in Nat
  BY StateFields
<1> HIDE DEF v
<1>2. n \in State /\ n.AgentStateJSON = s.AgentStateJSON
  BY <1>1, Zenon DEF State
<1>3. m.AgentStateJSON = n.AgentStateJSON
  BY <1>2, Zenon DEF State
<1>4. r = IF s.PersistRetryRemaining = 0 THEN Ret(n, <<>>) ELSE Ret(m, <<persistEffect(n)>>)
  BY Zenon DEF reduceAgentStateVersionMismatch, v
<1> HIDE DEF n, m
<1>5. Carried(s, Ret(n, <<>>))
  BY <1>2, SeqType, RetCarried, Zenon
<1>6. Launches(<<persistEffect(n)>>, m.AgentStateJSON)
  BY <1>2, <1>3, RequestLaunches
<1>7. /\ Carried(s, Ret(m, <<persistEffect(n)>>))
      /\ Launches(Ret(m, <<persistEffect(n)>>).eff, Ret(m, <<persistEffect(n)>>).st.AgentStateJSON)
  BY <1>6, RetLaunched, Zenon DEF Ret
<1> HIDE DEF r
<1>8. Carried(s, r) /\ (s.PersistRetryRemaining # 0 => Launches(r.eff, r.st.AgentStateJSON))
  <2>1. CASE s.PersistRetryRemaining = 0
    BY <1>4, <1>5, <2>1, Zenon
  <2>2. CASE s.PersistRetryRemaining # 0
    <3>1. r = Ret(m, <<persistEffect(n)>>)
      BY <1>4, <2>2, Zenon
    <3> QED BY <1>7, <3>1, Zenon
  <2> QED BY <2>1, <2>2
<1> QED BY <1>8, Zenon DEF r

\* no connection,
LEMMA FailedCarries ==
  ASSUME NEW s \in State
  PROVE  LET r == reduceAgentStatePersistFailed(s)
         IN  Carried(s, r) /\ (s.WSConnected => Launches(r.eff, r.st.AgentStateJSON))
<1> DEFINE n == [s EXCEPT !.PersistInFlight = FALSE, !.PersistWaiters = <<>>]
           failed == completeWaiters(s.PersistWaiters, "err")
           d == schedulePersistDebounced(n)
           r == reduceAgentStatePersistFailed(s)
<1>1. failed \in Seq(Timeless) /\ <<>> \in Seq(Timeless)
  BY StateFields, RepliesTimeless DEF Results
<1>2. n.AgentStateJSON = s.AgentStateJSON
  BY Zenon DEF State
<1>3. r = IF s.WSConnected THEN Ret(d.st, failed \o d.eff) ELSE Ret(n, failed)
  BY Zenon DEF reduceAgentStatePersistFailed
<1>4. Carried(s, Ret(n, failed))
  <2> HIDE DEF n, failed
  <2> QED BY <1>1, <1>2, RetCarried, Zenon
<1>5. \A json : Launches(failed \o d.eff, json)
  <2> HIDE DEF n, failed
  <2> QED BY <1>1, DebounceLaunches, Zenon
<1> HIDE DEF n, failed, d
<1>6. /\ Carried(s, Ret(d.st, failed \o d.eff))
      /\ Launches(Ret(d.st, failed \o d.eff).eff, Ret(d.st, failed \o d.eff).st.AgentStateJSON)
  BY <1>5, RetLaunched, Zenon DEF Ret
<1> HIDE DEF r
<1>7. Carried(s, r) /\ (s.WSConnected => Launches(r.eff, r.st.AgentStateJSON))
  <2>1. CASE s.WSConnected
    <3>1. r = Ret(d.st, failed \o d.eff)
      BY <1>3, <2>1, Zenon
    <3> QED BY <1>6, <3>1, Zenon
  <2>2. CASE ~s.WSConnected
    BY <1>3, <1>4, <2>2, Zenon
  <2> QED BY <2>1, <2>2
<1> QED BY <1>7, Zenon DEF r

\* and the timer's in any case.
LEMMA TimerFiredCarries ==
  ASSUME NEW s \in State
  PROVE  Launches(reduceTimerFired(s).eff, reduceTimerFired(s).st.AgentStateJSON)
<1> DEFINE n == [s EXCEPT !.PersistDebounceTimerArmed = FALSE, !.PersistRetryRemaining = 1]
<1>1. n \in State
  <2>1. 1 \in 0..1
    OBVIOUS
  <2> QED BY <2>1, Zenon DEF State
<1> HIDE DEF n
<1>2. Launches(<<persistEffect(n)>>, n.AgentStateJSON)
  BY <1>1, RequestLaunches
<1>3. reduceTimerFired(s) = Ret(n, <<persistEffect(n)>>)
  BY Zenon DEF reduceTimerFired, n
<1>4. Ret(n, <<persistEffect(n)>>).st = n /\ Ret(n, <<persistEffect(n)>>).eff = <<persistEffect(n)>>
  BY Zenon DEF Ret
<1> QED BY <1>2, <1>3, <1>4

----------------------------------------------------------------------------
(* What a step does to the evidence.                                       *)

carried == \E i \in DOMAIN effects : carries(effects[i], st.AgentStateJSON)
mailed ==
  someInput({"evTimerFired", "EvAgentStatePersistFailed", "EvAgentStateVersionMismatch"})
requested == \E i \in DOMAIN updates : updates[i].phase # "ok" /\ updates[i].json = st.AgentStateJSON

evident == timer \/ fired > 0 \/ carried \/ mailed \/ requested

LEMMA UnderwayIs == (Underway <=> evident) /\ (Underway' <=> evident')
BY DEF Underway, evident, carried, carries, mailed, requested, someEffect

\* The two cases in which a change may be dropped.
Dropped ==
  \/ ~st.WSConnected
  \/ inbox # <<>> /\ In.type = "EvAgentStateVersionMismatch" /\ st.PersistRetryRemaining = 0

Remembered == CarryInv' /\ (Underway /\ Dirty' /\ ~Underway' => Dropped)

\* What a handler has to show: it may take evidence only if it makes some.
Careful(t, r) ==
  /\ WellTyped(r) /\ Carried(st, r)
  /\ t \in {"evTimerFired", "EvAgentStatePersistFailed", "EvAgentStateVersionMismatch"} =>
       Launches(r.eff, r.st.AgentStateJSON) \/ Dropped

LEMMA TurnRemembers ==
  ASSUME ActorTypeOK, CarryInv, UNCHANGED <<timer, fired, updates>>,
         NEW t, NEW r, Handle(t, r), Careful(t, r)
  PROVE  Remembered
<1>1. st' = r.st /\ effects' = effects \o r.eff /\ inbox' = Tail(inbox) /\ inbox # <<>>
      /\ In.type = t
  BY DEF Handle
<1>2. effects \in Seq(Effect) /\ r.eff \in Seq(Effect)
  BY PublishingType, SeqMonotonic DEF ActorTypeOK, WellTyped, Careful
<1>3. CASE Launches(r.eff, r.st.AgentStateJSON)
  <2>1. /\ Covered(effects \o r.eff, r.st.AgentStateJSON)
        /\ \E i \in DOMAIN (effects \o r.eff) : carries((effects \o r.eff)[i], r.st.AgentStateJSON)
    BY <1>2, <1>3, LaunchesCover
  <2>2. CarryInv'
    BY <1>1, <2>1 DEF CarryInv, Covered
  <2>3. carried'
    BY <1>1, <2>1 DEF carried
  <2> QED BY <2>2, <2>3, UnderwayIs DEF Remembered, evident
<1>4. CASE /\ ~Launches(r.eff, r.st.AgentStateJSON)
           /\ r.st.AgentStateJSON = st.AgentStateJSON /\ Spares(r.eff)
  <2>1. Covered(effects \o r.eff, st.AgentStateJSON)
    BY <1>2, <1>4, CoveredBefore DEF CarryInv
  <2>2. CarryInv'
    BY <1>1, <1>4, <2>1 DEF CarryInv, Covered
  <2>3. carried => carried'
    <3>1. ASSUME NEW i \in DOMAIN effects, carries(effects[i], st.AgentStateJSON)
          PROVE  \E j \in DOMAIN effects' : carries(effects'[j], st'.AgentStateJSON)
      <4>1. i \in DOMAIN effects' /\ effects'[i] = effects[i]
        BY <1>1, <1>2
      <4> QED BY <1>1, <1>4, <3>1, <4>1
    <3> QED BY <3>1 DEF carried
  <2>4. requested => requested'
    BY <1>1, <1>4 DEF requested
  <2>5. mailed => mailed' \/ Dropped
    <3> DEFINE T == {"evTimerFired", "EvAgentStatePersistFailed", "EvAgentStateVersionMismatch"}
    <3>1. ASSUME NEW i \in DOMAIN inbox, inbox[i].type \in T, ~Dropped
          PROVE  \E j \in DOMAIN inbox' : inbox'[j].type \in T
      <4>1. i # 1
        BY <1>1, <1>4, <3>1 DEF In, ActorTypeOK, Careful
      <4>2. i - 1 \in DOMAIN inbox' /\ inbox'[i - 1] = inbox[i]
        BY <1>1, <4>1 DEF ActorTypeOK
      <4> QED BY <3>1, <4>2
    <3> QED BY <3>1 DEF mailed, someInput
  <2>6. timer' = timer /\ fired' = fired
    OBVIOUS
  <2>7. evident => evident' \/ Dropped
    BY <2>3, <2>4, <2>5, <2>6 DEF evident
  <2> QED BY <2>2, <2>7, UnderwayIs DEF Remembered
<1> QED BY <1>3, <1>4 DEF Careful, Carried

\* Every turn of the loop.
LEMMA ReduceRemembers ==
  ASSUME ActorTypeOK, CarryInv, UNCHANGED <<timer, fired, updates>>, Reduce
  PROVE  Remembered
<1> USE DEF Careful, Handled, Answered
<1>1. CASE ReduceSwitchMode
  <2>1. Careful("cmdSwitchMode", reduceSwitchMode(st, In.target, In.reply))
    BY <1>1, HandledInput, InputFields, SwitchModeType, SwitchModeCarries DEF ReduceSwitchMode
  <2> QED BY <1>1, <2>1, TurnRemembers DEF ReduceSwitchMode
<1>2. CASE ReduceDesktopTakeback
  <2>1. Careful("evDesktopTakeback", reduceSwitchMode(st, "local", None))
    BY <1>2, HandledInput, SwitchModeType, SwitchModeCarries DEF ReduceDesktopTakeback, Modes
  <2> QED BY <1>2, <2>1, TurnRemembers DEF ReduceDesktopTakeback
<1>3. CASE ReduceRunnerReady
  <2>1. Careful("evRunnerReady", reduceRunnerReady(st, In))
    BY <1>3, HandledInput, InputFields, RunnerReadyType, RunnerReadyCarries DEF ReduceRunnerReady
  <2> QED BY <1>3, <2>1, TurnRemembers DEF ReduceRunnerReady
<1>4. CASE ReduceRunnerExited
  <2>1. Careful("evRunnerExited", reduceRunnerExited(st, In))
    BY <1>4, HandledInput, InputFields, RunnerExitedType, RunnerExitedCarries DEF ReduceRunnerExited
  <2> QED BY <1>4, <2>1, TurnRemembers DEF ReduceRunnerExited
<1>5. CASE ReduceShutdown
  <2>1. Careful("cmdShutdown", reduceShutdown(st))
    BY <1>5, HandledInput, ShutdownType, PlainCarries DEF ReduceShutdown
  <2> QED BY <1>5, <2>1, TurnRemembers DEF ReduceShutdown
<1>6. CASE ReduceInboundUserMessage
  <2>1. Careful("cmdInboundUserMessage", reduceInboundUserMessage(st, In.msg))
    BY <1>6, HandledInput, InputFields, InboundType, InboundCarries DEF ReduceInboundUserMessage
  <2> QED BY <1>6, <2>1, TurnRemembers DEF ReduceInboundUserMessage
<1>7. CASE ReduceRemoteSend
  <2>1. Careful("cmdRemoteSend", reduceRemoteSend(st, In.msg, In.reply))
    BY <1>7, HandledInput, InputFields, RemoteSendType, PlainCarries DEF ReduceRemoteSend
  <2> QED BY <1>7, <2>1, TurnRemembers DEF ReduceRemoteSend
<1>8. CASE ReduceAbortRemote
  <2>1. Careful("cmdAbortRemote", reduceAbortRemote(st, In.reply))
    BY <1>8, HandledInput, InputFields, AbortType, PlainCarries DEF ReduceAbortRemote
  <2> QED BY <1>8, <2>1, TurnRemembers DEF ReduceAbortRemote
<1>9. CASE ReduceEngineWorking
  <2>1. Careful("evEngineWorking", reduceEngineWorking(st, In))
    BY <1>9, HandledInput, WorkingReduced, PlainCarries DEF ReduceEngineWorking
  <2> QED BY <1>9, <2>1, TurnRemembers DEF ReduceEngineWorking
<1>10. CASE ReduceEngineSessionIdentified
  <2>1. Careful("evEngineSessionIdentified", reduceEngineSessionIdentified(st, In))
    BY <1>10, HandledInput, InputFields, IdentifiedType, IdentityCarries
       DEF ReduceEngineSessionIdentified
  <2> QED BY <1>10, <2>1, TurnRemembers DEF ReduceEngineSessionIdentified
<1>11. CASE ReduceSetAgentConfig
  <2>1. Careful("cmdSetAgentConfig", reduceSetAgentConfig(st, In))
    BY <1>11, HandledInput, InputFields, SetAgentConfigType, SetAgentConfigCarries
       DEF ReduceSetAgentConfig
  <2> QED BY <1>11, <2>1, TurnRemembers DEF ReduceSetAgentConfig
<1>12. CASE ReducePermissionAwait
  <2>1. Careful("cmdPermissionAwait", reducePermissionAwait(st, In))
    BY <1>12, HandledInput, InputFields, AwaitType, AwaitCarries DEF ReducePermissionAwait
  <2> QED BY <1>12, <2>1, TurnRemembers DEF ReducePermissionAwait
<1>13. CASE ReducePermissionDecision
  <2>1. Careful("cmdPermissionDecision", reducePermissionDecision(st, In))
    BY <1>13, HandledInput, InputFields, DecisionType, DecisionCarries DEF ReducePermissionDecision
  <2> QED BY <1>13, <2>1, TurnRemembers DEF ReducePermissionDecision
<1>14. CASE ReducePersistAgentStateImmediate
  <2>1. Careful("cmdPersistAgentStateImmediate", reducePersistAgentStateImmediate(st, In.doc))
    BY <1>14, HandledInput, InputFields, ImmediateType, PersistenceCarries
       DEF ReducePersistAgentStateImmediate
  <2> QED BY <1>14, <2>1, TurnRemembers DEF ReducePersistAgentStateImmediate
<1>15. CASE ReduceWaitForAgentStatePersist
  <2>1. Careful("cmdWaitForAgentStatePersist", reduceWaitForAgentStatePersist(st, In.reply))
    BY <1>15, HandledInput, InputFields, WaitType, PersistenceCarries
       DEF ReduceWaitForAgentStatePersist
  <2> QED BY <1>15, <2>1, TurnRemembers DEF ReduceWaitForAgentStatePersist
<1>16. CASE ReduceAgentStatePersisted
  <2>1. Careful("EvAgentStatePersisted", reduceAgentStatePersisted(st, In))
    BY <1>16, HandledInput, InputFields, PersistedType, PersistenceCarries
       DEF ReduceAgentStatePersisted
  <2> QED BY <1>16, <2>1, TurnRemembers DEF ReduceAgentStatePersisted
<1>17. CASE ReduceAgentStateVersionMismatch
  <2>1. Careful("EvAgentStateVersionMismatch", reduceAgentStateVersionMismatch(st, In))
    <3> DEFINE r == reduceAgentStateVersionMismatch(st, In)
    <3>1. /\ st \in State /\ In \in Input /\ In.type = "EvAgentStateVersionMismatch"
          /\ inbox # <<>> /\ In.version \in Nat
      BY <1>17, HandledInput, InputFields DEF ReduceAgentStateVersionMismatch, Handle
    <3>2. WellTyped(r)
      BY <3>1, MismatchType
    <3>3. /\ Carried(st, r)
          /\ st.PersistRetryRemaining # 0 => Launches(r.eff, r.st.AgentStateJSON)
      BY <3>1, MismatchCarries, Zenon
    <3> HIDE DEF r
    <3>4. Careful("EvAgentStateVersionMismatch", r)
      BY <3>1, <3>2, <3>3 DEF Dropped
    <3> QED BY <3>4 DEF r
  <2> QED BY <1>17, <2>1, TurnRemembers DEF ReduceAgentStateVersionMismatch
<1>18. CASE ReduceAgentStatePersistFailed
  <2>1. Careful("EvAgentStatePersistFailed", reduceAgentStatePersistFailed(st))
    <3> DEFINE r == reduceAgentStatePersistFailed(st)
    <3>1. st \in State
      BY <1>18, HandledInput DEF ReduceAgentStatePersistFailed
    <3>2. WellTyped(r)
      BY <3>1, FailedType
    <3>3. Carried(st, r) /\ (st.WSConnected => Launches(r.eff, r.st.AgentStateJSON))
      BY <3>1, FailedCarries, Zenon
    <3> HIDE DEF r
    <3>4. Careful("EvAgentStatePersistFailed", r)
      BY <3>2, <3>3 DEF Dropped
    <3> QED BY <3>4 DEF r
  <2> QED BY <1>18, <2>1, TurnRemembers DEF ReduceAgentStatePersistFailed
<1>19. CASE ReduceTimerFired
  <2>1. Careful("evTimerFired", reduceTimerFired(st))
    BY <1>19, HandledInput, TimerFiredType, TimerFiredCarries DEF ReduceTimerFired, Carried
  <2> QED BY <1>19, <2>1, TurnRemembers DEF ReduceTimerFired
<1>20. CASE ReduceWSConnected
  <2>1. Careful("evWSConnected", reduceWSConnected(st))
    BY <1>20, HandledInput, ConnectionTypes, IdentityCarries DEF ReduceWSConnected
  <2> QED BY <1>20, <2>1, TurnRemembers DEF ReduceWSConnected
<1>21. CASE ReduceWSDisconnected
  <2>1. Careful("evWSDisconnected", reduceWSDisconnected(st))
    BY <1>21, HandledInput, ConnectionTypes, IdentityCarries DEF ReduceWSDisconnected
  <2> QED BY <1>21, <2>1, TurnRemembers DEF ReduceWSDisconnected
<1> QED BY <1>1, <1>2, <1>3, <1>4, <1>5, <1>6, <1>7, <1>8, <1>9, <1>10, <1>11,
           <1>12, <1>13, <1>14, <1>15, <1>16, <1>17, <1>18, <1>19, <1>20, <1>21 DEF Reduce

\* A step beside the persistence keeps what is in the queue and in the mailbox.
LEMMA AsideCarries ==
  ASSUME ActorTypeOK, CarryInv, Aside
  PROVE  /\ CarryInv'
         /\ timer' = timer /\ fired' = fired
         /\ carried => carried'
         /\ mailed => mailed'
<1>1. UNCHANGED <<st, timer, fired>> /\ MailKept /\ OtherEffect
  BY DEF Aside
<1>2. mailed => mailed'
  BY <1>1, EventWaits DEF mailed
<1>3. CASE effects' = effects
  BY <1>1, <1>2, <1>3 DEF CarryInv, Covered, carried
<1>4. CASE /\ effects # <<>> /\ effects' = Tail(effects)
           /\ Head(effects).type \notin TimerTypes \cup {"PersistAgentState"}
  <2>1. Covered(effects', st'.AgentStateJSON)
    BY <1>1, <1>4, CoveredTail DEF ActorTypeOK, CarryInv
  <2>2. CarryInv'
    BY <2>1 DEF CarryInv, Covered
  <2>3. ASSUME NEW i \in DOMAIN effects, carries(effects[i], st.AgentStateJSON)
        PROVE  \E j \in DOMAIN effects' : carries(effects'[j], st'.AgentStateJSON)
    <3>1. i # 1
      BY <1>4, <2>3 DEF carries, TimerTypes, ActorTypeOK
    <3>2. i - 1 \in DOMAIN effects' /\ effects'[i - 1] = effects[i]
      BY <1>4, <3>1 DEF ActorTypeOK
    <3> QED BY <1>1, <2>3, <3>2
  <2>4. carried => carried'
    BY <2>3 DEF carried
  <2> QED BY <1>1, <1>2, <2>2, <2>4
<1> QED BY <1>3, <1>4, <1>1 DEF OtherEffect

LEMMA AsideRemembers ==
  ASSUME ActorTypeOK, CarryInv, Aside, updates' = updates
  PROVE  Remembered
<1>1. st' = st
  BY DEF Aside
<1>2. requested => requested'
  BY <1>1 DEF requested
<1>3. evident => evident'
  BY <1>2, AsideCarries DEF evident
<1> QED BY <1>3, AsideCarries, UnderwayIs DEF Remembered

----------------------------------------------------------------------------
(* The effects, the timer and the calls of the persistence.                *)

\* What a PersistAgentState effect was evidence of, the call is.
LEMMA EffectsRemember ==
  ASSUME ActorTypeOK, SyncTypeOK, CarryInv, StateUpdater,
         StartTimer \/ CancelTimer \/ PersistAgentState
  PROVE  Remembered
<1>1. /\ st' = st /\ inbox' = inbox /\ fired' = fired
      /\ effects # <<>> /\ effects' = Tail(effects)
  BY DEF StartTimer, CancelTimer, PersistAgentState, NextEffect, Executed
<1>2. /\ Covered(effects', st'.AgentStateJSON)
      /\ Head(effects).type = "CancelTimer" =>
           \E j \in DOMAIN effects' : carries(effects'[j], st'.AgentStateJSON)
  BY <1>1, CoveredTail DEF ActorTypeOK, CarryInv
<1>3. CarryInv'
  BY <1>2 DEF CarryInv, Covered
<1>4. mailed' = mailed
  BY <1>1 DEF mailed, someInput
<1>5. CASE StartTimer
  <2>1. timer'
    BY <1>5 DEF StartTimer
  <2> QED BY <1>3, <2>1, UnderwayIs DEF Remembered, evident
<1>6. CASE CancelTimer
  <2>1. Head(effects).type = "CancelTimer"
    BY <1>6 DEF CancelTimer, NextEffect, Effect1
  <2>2. carried'
    BY <1>2, <2>1 DEF carried
  <2> QED BY <1>3, <2>2, UnderwayIs DEF Remembered, evident
<1>7. CASE PersistAgentState
  <2> DEFINE x == Head(effects)
             u == [json |-> x.json, expected |-> x.expected,
                   phase |-> IF online THEN "sent" ELSE "refused", version |-> 0]
  <2>1. updates' = Append(updates, u) /\ timer' = timer /\ x.type = "PersistAgentState"
    BY <1>7 DEF PersistAgentState, NextEffect, Effect1
  <2>2. u.json = x.json /\ u.phase # "ok"
    OBVIOUS
  <2> HIDE DEF u
  <2>3. /\ \A k \in DOMAIN updates : k \in DOMAIN updates' /\ updates'[k] = updates[k]
        /\ Len(updates) + 1 \in DOMAIN updates' /\ updates'[Len(updates) + 1] = u
    BY <2>1 DEF SyncTypeOK
  <2>4. requested => requested'
    BY <1>1, <2>3 DEF requested
  <2>5. carries(x, st.AgentStateJSON) => requested'
    BY <1>1, <2>1, <2>2, <2>3 DEF requested, carries
  <2>6. carried => carried' \/ requested'
    <3>1. ASSUME NEW i \in DOMAIN effects, carries(effects[i], st.AgentStateJSON), ~requested'
          PROVE  \E j \in DOMAIN effects' : carries(effects'[j], st'.AgentStateJSON)
      <4>1. i # 1
        BY <1>1, <2>5, <3>1 DEF ActorTypeOK
      <4>2. i - 1 \in DOMAIN effects' /\ effects'[i - 1] = effects[i]
        BY <1>1, <4>1 DEF ActorTypeOK
      <4> QED BY <1>1, <3>1, <4>2
    <3> QED BY <3>1 DEF carried
  <2>7. evident => evident'
    BY <1>1, <1>4, <2>1, <2>4, <2>6 DEF evident
  <2> QED BY <1>3, <2>7, UnderwayIs DEF Remembered
<1> QED BY <1>5, <1>6, <1>7

\* The timer that expires has a callback, and the callback an event.
LEMMA TimerRemembers ==
  ASSUME ActorTypeOK, SyncTypeOK, CarryInv, TimerExpires \/ TimerCallback
  PROVE  Remembered
<1>1. st' = st /\ effects' = effects
  BY DEF TimerExpires, TimerCallback
<1>2. CarryInv'
  BY <1>1 DEF CarryInv, Covered
<1>3. CASE TimerExpires
  <2>1. fired' > 0
    BY <1>3 DEF TimerExpires, SyncTypeOK
  <2> QED BY <1>2, <2>1, UnderwayIs DEF Remembered, evident
<1>4. CASE TimerCallback
  <2>1. inbox' = Append(inbox, [type |-> "evTimerFired"])
    BY <1>4 DEF TimerCallback, Post
  <2>2. Len(inbox) + 1 \in DOMAIN inbox' /\ inbox'[Len(inbox) + 1] = [type |-> "evTimerFired"]
    BY <2>1 DEF ActorTypeOK
  <2>3. mailed'
    BY <2>2 DEF mailed, someInput
  <2> QED BY <1>2, <2>3, UnderwayIs DEF Remembered, evident
<1> QED BY <1>3, <1>4

\* The other calls stay where one is removed.
LEMMA RemoveAtOthers ==
  ASSUME NEW T, NEW s \in Seq(T), NEW i \in DOMAIN s, NEW k \in DOMAIN s, k # i
  PROVE  \E j \in DOMAIN RemoveAt(s, i) : RemoveAt(s, i)[j] = s[k]
<1> DEFINE a == SubSeq(s, 1, i - 1)
           b == SubSeq(s, i + 1, Len(s))
<1>1. /\ i \in 1..Len(s) /\ k \in 1..Len(s) /\ Len(s) \in Nat
      /\ a \in Seq(T) /\ b \in Seq(T)
  OBVIOUS
<1>2. /\ Len(a) = i - 1 /\ Len(b) = Len(s) - i
      /\ \A j \in 1..(i - 1) : a[j] = s[j]
      /\ \A j \in 1..(Len(s) - i) : b[j] = s[j + i]
  BY SMTT(40), <1>1
<1>3. RemoveAt(s, i) = a \o b
  BY DEF RemoveAt
<1> HIDE DEF a, b
<1>4. CASE k < i
  <2>1. k \in 1..Len(a) /\ k \in 1..Len(a \o b) /\ (a \o b)[k] = a[k]
    BY <1>1, <1>2, <1>4
  <2> QED BY <1>1, <1>2, <1>3, <1>4, <2>1
<1>5. CASE k > i
  <2>1. k - 1 \in 1..Len(a \o b) /\ (a \o b)[k - 1] = b[k - i]
    BY SMTT(40), <1>1, <1>2, <1>5
  <2>2. k - i \in 1..(Len(s) - i) /\ (k - i) + i = k
    BY <1>1, <1>5
  <2>3. b[k - i] = s[k]
    BY <1>2, <2>2
  <2>4. DOMAIN (a \o b) = 1..Len(a \o b)
    BY <1>1
  <2> QED BY <1>3, <2>1, <2>3, <2>4
<1> QED BY <1>1, <1>4, <1>5

\* What is posted waits in the mailbox.
LEMMA PostedWaits ==
  ASSUME ActorTypeOK, NEW in, Post(in),
         in.type \in {"evTimerFired", "EvAgentStatePersistFailed", "EvAgentStateVersionMismatch"}
  PROVE  mailed'
<1>1. Len(inbox) + 1 \in DOMAIN inbox' /\ inbox'[Len(inbox) + 1] = in
  BY DEF Post, ActorTypeOK
<1> QED BY <1>1 DEF mailed, someInput

\* A call is evidence until the server has what it carries, or its failure is in the
\* mailbox.
LEMMA CallsRemember ==
  ASSUME ActorTypeOK, SyncTypeOK, CarryInv, NEW i \in DOMAIN updates,
         UpdateArrives(i) \/ UpdateReturns(i) \/ UpdateTimesOut(i)
  PROVE  Remembered
<1>1. Aside
  BY SyncAside
<1>2. st' = st
  BY <1>1 DEF Aside
<1>3. (requested => requested' \/ mailed' \/ ~Dirty') => Remembered
  BY <1>1, AsideCarries, UnderwayIs DEF Remembered, evident
<1>4. updates[i] \in Update
  BY DEF SyncTypeOK
<1>5. CASE UpdateArrives(i)
  <2> DEFINE u == [updates[i] EXCEPT !.phase = IF accepted(updates[i]) THEN "ok" ELSE "mismatch",
                                     !.version = serverAfter(updates[i]).version]
  <2>1. updates' = [updates EXCEPT ![i] = u] /\ server' = serverAfter(updates[i])
    BY <1>5, Zenon DEF UpdateArrives
  <2>2. CASE accepted(updates[i]) /\ updates[i].json = st.AgentStateJSON
    <3>1. server' = [version |-> server.version + 1, json |-> updates[i].json]
      BY <2>1, <2>2 DEF serverAfter
    <3>2. server'.json.rev = st'.AgentStateJSON.rev
      BY <1>2, <2>2, <3>1
    <3> QED BY <1>3, <3>2 DEF Dirty
  <2>3. CASE ~(accepted(updates[i]) /\ updates[i].json = st.AgentStateJSON)
    <3>1. u.json = updates[i].json /\ (~accepted(updates[i]) => u.phase = "mismatch")
      BY <1>4 DEF Update
    <3> HIDE DEF u
    <3>2. ASSUME NEW k \in DOMAIN updates, updates[k].phase # "ok",
                 updates[k].json = st.AgentStateJSON
          PROVE  /\ k \in DOMAIN updates' /\ updates'[k].phase # "ok"
                 /\ updates'[k].json = st'.AgentStateJSON
      <4>1. CASE k = i
        BY <1>2, <2>1, <2>3, <3>1, <3>2, <4>1
      <4>2. CASE k # i
        BY <1>2, <2>1, <3>2, <4>2
      <4> QED BY <4>1, <4>2
    <3>3. requested => requested'
      BY <3>2 DEF requested
    <3> QED BY <1>3, <3>3
  <2> QED BY <2>2, <2>3
<1>6. CASE UpdateReturns(i)
  <2>1. updates' = RemoveAt(updates, i) /\ Post(answerOf(updates[i])) /\ updates[i].phase # "sent"
    BY <1>6 DEF UpdateReturns
  <2>2. CASE updates[i].phase = "ok"
    <3>1. ASSUME NEW k \in DOMAIN updates, updates[k].phase # "ok",
                 updates[k].json = st.AgentStateJSON
          PROVE  \E j \in DOMAIN updates' : /\ updates'[j].phase # "ok"
                                            /\ updates'[j].json = st'.AgentStateJSON
      <4>1. k # i
        BY <2>2, <3>1
      <4>2. PICK j \in DOMAIN RemoveAt(updates, i) : RemoveAt(updates, i)[j] = updates[k]
        BY <4>1, RemoveAtOthers DEF SyncTypeOK
      <4> QED BY <1>2, <2>1, <3>1, <4>2
    <3>2. requested => requested'
      BY <3>1 DEF requested
    <3> QED BY <1>3, <3>2
  <2>3. CASE updates[i].phase # "ok"
    <3>1. answerOf(updates[i]).type \in {"EvAgentStatePersistFailed", "EvAgentStateVersionMismatch"}
      BY <2>3 DEF answerOf
    <3>2. mailed'
      BY <2>1, <3>1, PostedWaits
    <3> QED BY <1>3, <3>2
  <2> QED BY <2>2, <2>3
<1>7. CASE UpdateTimesOut(i)
  <2>1. mailed'
    BY <1>7, PostedWaits DEF UpdateTimesOut
  <2> QED BY <1>3, <2>1
<1> QED BY <1>5, <1>6, <1>7

----------------------------------------------------------------------------
(* The theorem.                                                            *)

\* Nothing waits at the start.
LEMMA CarryInit == Init => CarryInv
BY DEF Init, ActorInit, CarryInv, Covered

\* Every step of the session.
LEMMA StepRemembers ==
  ASSUME IInv, CarryInv, StateUpdater, Next
  PROVE  Remembered
<1>1. ActorTypeOK /\ SyncTypeOK
  BY DEF IInv, TypeOK
<1>2. CASE Aside /\ updates' = updates
  BY <1>1, <1>2, AsideRemembers
<1>3. CASE LoopStep
  BY <1>1, <1>3, ReduceRemembers DEF LoopStep, syncVars
<1>4. CASE RuntimeStep \/ (EngineStimulus /\ engineOnly)
  <2>1. UNCHANGED syncVars
    BY <1>4 DEF RuntimeStep, engineOnly
  <2>2. Aside
    BY <1>4, <2>1, RuntimeAside DEF RuntimeStep
  <2> QED BY <1>2, <2>1, <2>2 DEF syncVars
<1>5. CASE SyncStep \/ SyncStimulus
  <2>1. CASE StartTimer \/ CancelTimer \/ PersistAgentState
    BY <1>1, <2>1, EffectsRemember
  <2>2. CASE TimerExpires \/ TimerCallback
    BY <1>1, <2>2, TimerRemembers
  <2>3. CASE \E i \in DOMAIN updates : UpdateArrives(i) \/ UpdateReturns(i) \/ UpdateTimesOut(i)
    BY <1>1, <2>3, CallsRemember
  <2>4. CASE Connect \/ Disconnect \/ \E o \in orphans : OrphanArrives(o)
    <3>1. Aside
      BY <2>4, SyncAside
    <3>2. updates' = updates
      BY <2>4 DEF Connect, Disconnect, OrphanArrives
    <3> QED BY <1>2, <3>1, <3>2
  <2> QED BY <1>5, <2>1, <2>2, <2>3, <2>4 DEF SyncStep, SyncStimulus
<1>6. CASE /\ \/ PermissionStep \/ PermissionStimulus
              \/ \E r \in Requests, v \in {"allow", "deny"} : \E known : PhoneDecides(r, v, known)
           /\ permissionOnly
  <2>1. UNCHANGED syncVars
    BY <1>6 DEF permissionOnly
  <2>2. Aside
    BY <1>6, <2>1, PermissionAside
  <2> QED BY <1>2, <2>1, <2>2 DEF syncVars
<1>7. CASE (ManagerStep \/ ManagerStimulus) /\ managerOnly
  <2>1. UNCHANGED syncVars
    BY <1>7 DEF managerOnly
  <2>2. Aside
    BY <1>7, <2>1, ManagerAside
  <2> QED BY <1>2, <2>1, <2>2 DEF syncVars
<1>8. CASE SendResumes /\ UNCHANGED <<engineVars, syncVars>>
  BY <1>2, <1>8 DEF SendResumes, actorVars, syncVars, Aside, OtherEffect, MailKept
<1>9. CASE \E a \in Awaits : (EngineAsks(a) \/ SendAsks(a)) /\ UNCHANGED <<engineVars, syncVars>>
  <2>1. \E a \in Awaits : \E k : AwaitPermission(a, k)
    BY <1>9 DEF EngineAsks, SendAsks
  <2>2. Aside
    BY <1>9, <2>1, PermissionAside
  <2> QED BY <1>2, <1>9, <2>2 DEF syncVars
<1> QED BY <1>3, <1>4, <1>5, <1>6, <1>7, <1>8, <1>9 DEF Next, Internal, Stimulus

\* A change of agentState is not forgotten on its way to the server: while a
\* timer, an effect, a call or an event in the mailbox stands for it, every
\* step leaves another one that does, until the server has it; only without a
\* connection, or when a mismatch comes back after the one retry, is it
\* dropped.  The runtime has been given an updater, which Start does for every
\* session before the actor loop runs.
THEOREM ChangeCarried ==
  ASSUME StateUpdater
  PROVE  Spec => NeverForgotten
<1>1. IInv /\ CarryInv /\ Next => CarryInv'
  BY StepRemembers DEF Remembered
<1>2. IInv /\ CarryInv /\ UNCHANGED vars => CarryInv'
  BY DEF vars, actorVars, CarryInv, Covered
<1>3. IInv /\ CarryInv /\ Next =>
        (Underway /\ Dirty' /\ ~Underway' =>
           \/ ~st.WSConnected
           \/ /\ inbox # <<>>
              /\ In.type = "EvAgentStateVersionMismatch"
              /\ st.PersistRetryRemaining = 0)
  BY StepRemembers DEF Remembered, Dropped
<1>4. IInv /\ [Next]_vars => IInv'
  BY NextType
<1> QED BY <1>1, <1>2, <1>3, <1>4, InitType, CarryInit, PTL DEF Spec, NeverForgotten
================================================================================
