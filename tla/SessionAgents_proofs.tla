-------------------------- MODULE SessionAgents_proofs --------------------------
(***************************************************************************)
(* What the session does with its agents, for all values of the constants:  *)
(* messages reach them in the order in which they came in, and the remote   *)
(* agent that runs works with the configuration of the session.  A turn of  *)
(* the loop is described once, by what it forwards and how it steers, and   *)
(* both invariants are shown of turns so described, of the steps of the     *)
(* engines, and of the other parts, which step aside.                       *)
(***************************************************************************)
EXTENDS SessionSystem_proofs

----------------------------------------------------------------------------
(* Handlers that neither steer an agent nor send it anything.              *)

RunTypes == {"StartRunner", "ApplyEngineConfig"}
Minor == {e \in Effect : e.type \notin RunTypes \cup Sends}

SameCourse(s, n) ==
  /\ n.FSM = s.FSM /\ n.RunnerGen = s.RunnerGen
  /\ n.AgentState.config = s.AgentState.config
  /\ n.PendingRemoteSends = s.PendingRemoteSends

Unmoved(s, r) == SameCourse(s, r.st) /\ r.eff \in Seq(Minor)

\* The effects that are none of an agent's business.
LEMMA MinorTypes ==
  /\ \A g \in Nat : /\ effStopLocalRunner(g) \in Minor
                    /\ effStopRemoteRunner(g) \in Minor
                    /\ effRemoteAbort(g) \in Minor
  /\ \A n \in State : persistEffect(n) \in Minor
  /\ effStartTimer \in Minor /\ effCancelTimer \in Minor
  /\ \A on \in BOOLEAN : effTakebackWatcher(on) \in Minor
  /\ \A c \in Calls, r \in Results : effCompleteReply(c, r) \in Minor
  /\ \A a \in Awaits, v \in Verdicts : effCompletePermissionDecision(a, v) \in Minor
  /\ \A a \in Awaits : effSignalAck(a) \in Minor
  /\ \A r \in Requests : effEmitPermissionRequest(r) \in Minor
<1>1. \A n \in State : persistEffect(n) \in Minor
  <2> TAKE n \in State
  <2>1. persistEffect(n) \in Effect
    BY PublishingType, Zenon
  <2> QED BY <2>1 DEF Minor, RunTypes, Sends, persistEffect, effPersistAgentState
<1> QED BY <1>1, EffectTypes DEF Minor, RunTypes, Sends, Quiet, effStopLocalRunner,
       effStopRemoteRunner, effRemoteAbort, effTakebackWatcher, effStartTimer, effCancelTimer,
       effCompleteReply, effEmitPermissionRequest, effCompletePermissionDecision, effSignalAck

\* Neither are replies.
LEMMA RepliesMinor ==
  /\ \A x \in Calls \cup {None}, k \in Results : replyTo(x, k) \in Seq(Minor)
  /\ \A ws \in Seq(Calls), k \in Results : completeWaiters(ws, k) \in Seq(Minor)
<1>1. ASSUME NEW x \in Calls \cup {None}, NEW k \in Results
      PROVE  replyTo(x, k) \in Seq(Minor)
  BY MinorTypes, SeqType DEF replyTo
<1>2. ASSUME NEW ws \in Seq(Calls), NEW k \in Results
      PROVE  completeWaiters(ws, k) \in Seq(Minor)
  <2>1. \A i \in 1..Len(ws) : effCompleteReply(ws[i], k) \in Minor
    BY MinorTypes
  <2> QED BY <2>1 DEF completeWaiters
<1> QED BY <1>1, <1>2

\* Ret pairs a state with its effects.
LEMMA RetUnmoved ==
  ASSUME NEW s, NEW n, SameCourse(s, n), NEW eff \in Seq(Minor)
  PROVE  Unmoved(s, Ret(n, eff))
BY Zenon DEF Unmoved, Ret

\* Publishing a document changes no course.
LEMMA RevisionCourse ==
  ASSUME NEW s, NEW n \in State, SameCourse(s, n), NEW doc \in AgentState
  PROVE  /\ setAgentStateJSON(n, doc) \in State /\ SameCourse(s, setAgentStateJSON(n, doc))
         /\ refreshAgentStateJSON(n) \in State /\ SameCourse(s, refreshAgentStateJSON(n))
<1>1. setAgentStateJSON(n, doc) \in State /\ refreshAgentStateJSON(n) \in State
  BY RevisionType, Zenon DEF Keeps
<1>2. \A json : SameCourse(n, [n EXCEPT !.AgentStateJSON = json])
  BY Zenon DEF State, SameCourse
<1> QED BY <1>1, <1>2, Zenon DEF SameCourse, setAgentStateJSON, refreshAgentStateJSON

\* Neither do the two ways to persist it.
LEMMA PersistCourse ==
  ASSUME NEW s, NEW n \in State, SameCourse(s, n)
  PROVE  /\ Unmoved(s, persistAgentStateImmediately(n))
         /\ Unmoved(s, schedulePersistDebounced(n))
<1> DEFINE now == [n EXCEPT !.PersistRetryRemaining = 1, !.PersistDebounceTimerArmed = FALSE,
                            !.PersistInFlight = TRUE]
           later == [n EXCEPT !.PersistRetryRemaining = 1, !.PersistDebounceTimerArmed = TRUE,
                              !.PersistInFlight = FALSE]
<1>1. SameCourse(n, now) /\ SameCourse(n, later)
  BY Zenon DEF State, SameCourse
<1> HIDE DEF now, later
<1>2. SameCourse(s, now) /\ SameCourse(s, later)
  BY <1>1, Zenon DEF SameCourse
<1>3. /\ <<effCancelTimer, persistEffect(n)>> \in Seq(Minor)
      /\ <<effCancelTimer, effStartTimer>> \in Seq(Minor)
  BY MinorTypes, SeqType, Zenon
<1> QED BY <1>2, <1>3, RetUnmoved, Zenon
        DEF persistAgentStateImmediately, schedulePersistDebounced, now, later

\* Nor do both together.
LEMMA PublishCourse ==
  ASSUME NEW s, NEW n \in State, SameCourse(s, n)
  PROVE  /\ Unmoved(s, persistAgentStateImmediately(refreshAgentStateJSON(n)))
         /\ Unmoved(s, schedulePersistDebounced(refreshAgentStateJSON(n)))
         /\ \A doc \in AgentState :
              Unmoved(s, persistAgentStateImmediately(setAgentStateJSON(n, doc)))
<1>1. n.AgentState \in AgentState
  BY StateFields
<1> QED BY <1>1, RevisionCourse, PersistCourse, Zenon

\* More effects of that kind make no difference.
LEMMA UnmovedWith ==
  ASSUME NEW s, NEW r, Unmoved(s, r), NEW p \in Seq(Minor), NEW q \in Seq(Minor)
  PROVE  /\ Unmoved(s, Ret(r.st, p \o r.eff))
         /\ Unmoved(s, Ret(r.st, r.eff \o q))
         /\ Unmoved(s, Ret(r.st, p \o r.eff \o q))
BY SeqType, RetUnmoved, Zenon DEF Unmoved

\* cmdAbortRemote and evEngineWorking.
LEMMA PlainUnmoved ==
  ASSUME NEW s \in State
  PROVE  /\ \A reply \in Calls \cup {None} : Unmoved(s, reduceAbortRemote(s, reply))
         /\ \A in : Unmoved(s, reduceEngineWorking(s, in))
<1>1. /\ s.RunnerGen \in Nat /\ <<>> \in Seq(Minor) /\ SameCourse(s, s)
      /\ "ok" \in Results /\ "err" \in Results
  BY StateFields DEF SameCourse, Results
<1>2. ASSUME NEW reply \in Calls \cup {None}
      PROVE  Unmoved(s, reduceAbortRemote(s, reply))
  <2>1. <<effRemoteAbort(s.RunnerGen)>> \o replyTo(reply, "ok") \in Seq(Minor)
    BY <1>1, RepliesMinor, MinorTypes, SeqType, Zenon
  <2>2. replyTo(reply, "err") \in Seq(Minor)
    BY <1>1, RepliesMinor, Zenon
  <2> QED BY <1>1, <2>1, <2>2, RetUnmoved, Zenon DEF reduceAbortRemote
<1>3. ASSUME NEW in
      PROVE  Unmoved(s, reduceEngineWorking(s, in))
  <2>1. SameCourse(s, [s EXCEPT !.Working = in.working])
    BY Zenon DEF State, SameCourse
  <2> QED BY <1>1, <2>1, RetUnmoved, Zenon DEF reduceEngineWorking
<1> QED BY <1>2, <1>3

\* evEngineSessionIdentified.
LEMMA IdentifiedUnmoved ==
  ASSUME NEW s \in State, NEW in, in.token \in Tokens
  PROVE  Unmoved(s, reduceEngineSessionIdentified(s, in))
<1> DEFINE n == [s EXCEPT !.ResumeToken = in.token, !.AgentState.resumeToken = in.token]
<1>1. in.token \in Tokens \cup {None}
  OBVIOUS
<1>2. [s.AgentState EXCEPT !.resumeToken = in.token] \in AgentState
      /\ [s.AgentState EXCEPT !.resumeToken = in.token].config = s.AgentState.config
  BY <1>1, StateFields, Zenon DEF AgentState
<1>3. n \in State /\ SameCourse(s, n)
  BY <1>1, <1>2, Zenon DEF State, SameCourse
<1> HIDE DEF n
<1>4. Unmoved(s, schedulePersistDebounced(refreshAgentStateJSON(n)))
  BY <1>3, PublishCourse, Zenon
<1>5. Unmoved(s, Ret(s, <<>>))
  BY SeqType, RetUnmoved, Zenon DEF SameCourse
<1> QED BY <1>4, <1>5, Zenon DEF reduceEngineSessionIdentified, n

\* The handlers of the persistence and of the connection.
LEMMA PersistenceUnmoved ==
  ASSUME NEW s \in State
  PROVE  /\ \A doc \in AgentState : Unmoved(s, reducePersistAgentStateImmediate(s, doc))
         /\ \A reply \in Calls : Unmoved(s, reduceWaitForAgentStatePersist(s, reply))
         /\ \A in : Unmoved(s, reduceAgentStatePersisted(s, in))
         /\ \A in : in.version \in Nat => Unmoved(s, reduceAgentStateVersionMismatch(s, in))
         /\ Unmoved(s, reduceAgentStatePersistFailed(s))
         /\ Unmoved(s, reduceTimerFired(s))
         /\ Unmoved(s, reduceWSConnected(s))
         /\ Unmoved(s, reduceWSDisconnected(s))
<1>1. /\ <<>> \in Seq(Minor) /\ SameCourse(s, s) /\ s.PersistWaiters \in Seq(Calls)
      /\ completeWaiters(s.PersistWaiters, "ok") \in Seq(Minor)
      /\ completeWaiters(s.PersistWaiters, "err") \in Seq(Minor)
  BY StateFields, RepliesMinor DEF SameCourse, Results
<1>2. \A doc \in AgentState : Unmoved(s, reducePersistAgentStateImmediate(s, doc))
  BY <1>1, PublishCourse, Zenon DEF reducePersistAgentStateImmediate
<1>3. ASSUME NEW reply \in Calls
      PROVE  Unmoved(s, reduceWaitForAgentStatePersist(s, reply))
  <2> DEFINE w == [s EXCEPT !.PersistWaiters = Append(@, reply)]
  <2>1. Append(s.PersistWaiters, reply) \in Seq(Calls)
    BY StateFields
  <2>2. w \in State /\ SameCourse(s, w)
    BY <2>1, Zenon DEF State, SameCourse
  <2> HIDE DEF w
  <2> QED BY <1>1, <2>2, RetUnmoved, PersistCourse, Zenon
          DEF reduceWaitForAgentStatePersist, w
<1>4. ASSUME NEW in
      PROVE  Unmoved(s, reduceAgentStatePersisted(s, in))
  <2> DEFINE n == [s EXCEPT !.AgentStateVersion = IF in.version > 0 THEN in.version ELSE @,
                            !.PersistRetryRemaining = 0, !.PersistInFlight = FALSE,
                            !.PersistWaiters = <<>>]
  <2>1. SameCourse(s, n)
    BY Zenon DEF State, SameCourse
  <2> HIDE DEF n
  <2> QED BY <1>1, <2>1, RetUnmoved, Zenon DEF reduceAgentStatePersisted, n
<1>5. ASSUME NEW in, in.version \in Nat
      PROVE  Unmoved(s, reduceAgentStateVersionMismatch(s, in))
  <2> DEFINE v == IF in.version > 0 THEN in.version ELSE s.AgentStateVersion
             n == [s EXCEPT !.AgentStateVersion = v]
             m == [n EXCEPT !.PersistRetryRemaining = @ - 1,
                            !.PersistDebounceTimerArmed = FALSE,
                            !.PersistInFlight = TRUE]
  <2>1. v \in Nat
    BY <1>5, StateFields
  <2> HIDE DEF v
  <2>2. n \in State /\ SameCourse(s, n)
    BY <2>1, Zenon DEF State, SameCourse
  <2> HIDE DEF n
  <2>3. SameCourse(s, m)
    BY <2>2, Zenon DEF State, SameCourse
  <2> HIDE DEF m
  <2>4. <<persistEffect(n)>> \in Seq(Minor)
    BY <2>2, MinorTypes, SeqType, Zenon
  <2>5. Unmoved(s, Ret(n, <<>>)) /\ Unmoved(s, Ret(m, <<persistEffect(n)>>))
    BY <1>1, <2>2, <2>3, <2>4, RetUnmoved, Zenon
  <2> QED BY <2>5, Zenon DEF reduceAgentStateVersionMismatch, v, n, m
<1>6. Unmoved(s, reduceAgentStatePersistFailed(s))
  <2> DEFINE n == [s EXCEPT !.PersistInFlight = FALSE, !.PersistWaiters = <<>>]
             p == schedulePersistDebounced(n)
             failed == completeWaiters(s.PersistWaiters, "err")
  <2>1. n \in State /\ SameCourse(s, n)
    <3>1. <<>> \in Seq(Calls)
      OBVIOUS
    <3> QED BY <3>1, Zenon DEF State, SameCourse
  <2> HIDE DEF n
  <2>2. Unmoved(s, p)
    BY <2>1, PersistCourse, Zenon
  <2> HIDE DEF p
  <2>3. Unmoved(s, Ret(n, failed)) /\ Unmoved(s, Ret(p.st, failed \o p.eff))
    BY <1>1, <2>1, <2>2, RetUnmoved, UnmovedWith, Zenon
  <2> QED BY <2>3, Zenon DEF reduceAgentStatePersistFailed, n, p
<1>7. Unmoved(s, reduceTimerFired(s))
  <2> DEFINE n == [s EXCEPT !.PersistDebounceTimerArmed = FALSE, !.PersistRetryRemaining = 1]
  <2>1. n \in State /\ SameCourse(s, n)
    <3>1. 1 \in 0..1
      OBVIOUS
    <3> QED BY <3>1, Zenon DEF State, SameCourse
  <2> HIDE DEF n
  <2>2. <<persistEffect(n)>> \in Seq(Minor)
    BY <2>1, MinorTypes, SeqType, Zenon
  <2> QED BY <2>1, <2>2, RetUnmoved, Zenon DEF reduceTimerFired, n
<1>8. Unmoved(s, reduceWSConnected(s)) /\ Unmoved(s, reduceWSDisconnected(s))
  <2> DEFINE on == [s EXCEPT !.WSConnected = TRUE]
             off == [s EXCEPT !.WSConnected = FALSE]
  <2>1. on \in State /\ SameCourse(s, on) /\ SameCourse(s, off)
    BY Zenon DEF State, SameCourse
  <2> HIDE DEF on, off
  <2> QED BY <1>1, <2>1, RetUnmoved, PersistCourse, Zenon
          DEF reduceWSConnected, reduceWSDisconnected, on, off
<1> QED BY <1>2, <1>3, <1>4, <1>5, <1>6, <1>7, <1>8

\* cmdPermissionDecision.
LEMMA DecisionUnmoved ==
  ASSUME NEW s \in State, NEW in, in.request \in Requests, in.verdict \in {"allow", "deny"}
  PROVE  Unmoved(s, reducePermissionDecision(s, in))
<1> DEFINE r == in.request
           old == s.AgentState.completedRequests
           kept == IF Cardinality({q \in Requests : old[q] # "none"}) > MaxCompleted
                   THEN [q \in Requests |-> "none"] ELSE old
           done == [kept EXCEPT ![r] = in.verdict]
           left == s.AgentState.requests \ {r}
           promises == [s.PendingPermissionPromises EXCEPT ![r] = None]
           n == [s EXCEPT !.AgentState.requests = @ \ {r},
                          !.AgentState.completedRequests = [kept EXCEPT ![r] = in.verdict],
                          !.PendingPermissionPromises = [@ EXCEPT ![r] = None]]
           p == schedulePersistDebounced(refreshAgentStateJSON(n))
<1>1. in.verdict \in Verdicts /\ "none" \in Verdicts
  BY DEF Verdicts
<1>2. kept \in [Requests -> Verdicts]
  <2>1. old \in [Requests -> Verdicts]
    BY StateFields, AgentStateFields
  <2> HIDE DEF old
  <2>2. [q \in Requests |-> "none"] \in [Requests -> Verdicts]
    BY <1>1
  <2> QED BY <2>1, <2>2, Zenon
<1> HIDE DEF kept
<1>3. done \in [Requests -> Verdicts]
  BY <1>1, <1>2
<1>4. left \in SUBSET Requests
  BY StateFields, AgentStateFields
<1>5. promises \in [Requests -> Awaits \cup {None}]
  BY StateFields
<1> HIDE DEF done, left, promises
<1>6. [s.AgentState EXCEPT !.requests = left, !.completedRequests = done] \in AgentState
      /\ [s.AgentState EXCEPT !.requests = left, !.completedRequests = done].config
           = s.AgentState.config
  BY <1>3, <1>4, StateFields, Zenon DEF AgentState
<1>7. n = [s EXCEPT !.AgentState = [s.AgentState EXCEPT !.requests = left,
                                                        !.completedRequests = done],
                    !.PendingPermissionPromises = promises]
  BY Zenon DEF done, left, promises, State
<1>8. n \in State /\ SameCourse(s, n)
  BY <1>5, <1>6, <1>7, Zenon DEF State, SameCourse
<1> HIDE DEF n
<1>9. Unmoved(s, p)
  BY <1>8, PublishCourse, Zenon
<1> HIDE DEF p
<1>10. Unmoved(s, Ret(s, <<>>)) /\ Unmoved(s, Ret(p.st, completePromise(s, r, in.verdict) \o p.eff))
  <2>1. completePromise(s, r, in.verdict) \in Seq(Minor)
    <3>1. s.PendingPermissionPromises[r] \in Awaits \cup {None}
      BY StateFields
    <3> QED BY <1>1, <3>1, MinorTypes, SeqType DEF completePromise
  <2> QED BY <1>9, <2>1, UnmovedWith, RetUnmoved, SeqType, Zenon DEF SameCourse
<1>11. \/ reducePermissionDecision(s, in) = Ret(s, <<>>)
       \/ reducePermissionDecision(s, in) = Ret(p.st, completePromise(s, r, in.verdict) \o p.eff)
  BY Zenon DEF reducePermissionDecision, kept, n, p
<1> QED BY <1>10, <1>11, Zenon

\* cmdPermissionAwait.
LEMMA AwaitUnmoved ==
  ASSUME NEW s \in State, NEW in, in.await \in Awaits
  PROVE  Unmoved(s, reducePermissionAwait(s, in))
<1> DEFINE a == in.await
           r == RequestOf[a]
           auto == autoVerdict(s)
           done == [s.AgentState.completedRequests EXCEPT ![r] = auto]
           asked == s.AgentState.requests \cup {r}
           promises == [s.PendingPermissionPromises EXCEPT ![r] = a]
           finished == [s EXCEPT !.AgentState.completedRequests = [@ EXCEPT ![r] = auto]]
           promised == [s EXCEPT !.PendingPermissionPromises = [@ EXCEPT ![r] = a]]
           entered == [promised EXCEPT !.AgentState.requests = @ \cup {r}]
           resolved == persistAgentStateImmediately(refreshAgentStateJSON(finished))
           registered == schedulePersistDebounced(refreshAgentStateJSON(entered))
           decide == <<effSignalAck(a), effCompletePermissionDecision(a, auto)>>
           announce == <<effEmitPermissionRequest(r)>>
           ack == <<effSignalAck(a)>>
<1>1. a \in Awaits /\ r \in Requests /\ auto \in Verdicts
  BY ConstantsOK, AutoVerdictType
<1> HIDE DEF a, r, auto
<1>2. announce \in Seq(Minor) /\ ack \in Seq(Minor) /\ decide \in Seq(Minor)
      /\ <<effEmitPermissionRequest(r), effSignalAck(a)>> \in Seq(Minor)
  BY <1>1, MinorTypes, SeqType, Zenon
<1> HIDE DEF decide, announce, ack
<1>4. done \in [Requests -> Verdicts] /\ asked \in SUBSET Requests
  BY <1>1, StateFields, AgentStateFields
<1>5. promises \in [Requests -> Awaits \cup {None}]
  BY <1>1, StateFields
<1>6. promised = [s EXCEPT !.PendingPermissionPromises = promises]
  BY Zenon
<1>7. finished = [s EXCEPT !.AgentState = [s.AgentState EXCEPT !.completedRequests = done]]
  BY Zenon
<1> HIDE DEF done, promises
<1>8. [s.AgentState EXCEPT !.completedRequests = done] \in AgentState
      /\ [s.AgentState EXCEPT !.completedRequests = done].config = s.AgentState.config
  BY <1>4, StateFields, Zenon DEF AgentState
<1>9. /\ promised \in State /\ promised.AgentState = s.AgentState
      /\ SameCourse(s, promised)
      /\ finished \in State /\ SameCourse(s, finished)
  BY <1>5, <1>6, <1>7, <1>8, Zenon DEF State, SameCourse
<1> HIDE DEF promised, finished
<1>10. entered = [promised EXCEPT !.AgentState = [s.AgentState EXCEPT !.requests = asked]]
  BY <1>9, Zenon
<1> HIDE DEF asked
<1>11. [s.AgentState EXCEPT !.requests = asked] \in AgentState
       /\ [s.AgentState EXCEPT !.requests = asked].config = s.AgentState.config
  BY <1>4, StateFields, Zenon DEF AgentState
<1>12. entered \in State /\ SameCourse(s, entered)
  BY <1>9, <1>10, <1>11, Zenon DEF State, SameCourse
<1> HIDE DEF entered
<1>13. Unmoved(s, resolved) /\ Unmoved(s, registered)
  BY <1>9, <1>12, PublishCourse, Zenon
<1> HIDE DEF resolved, registered
<1>14. /\ Unmoved(s, Ret(resolved.st, resolved.eff \o decide))
       /\ Unmoved(s, Ret(promised, <<effEmitPermissionRequest(r), effSignalAck(a)>>))
       /\ Unmoved(s, Ret(registered.st, announce \o registered.eff \o ack))
  <2>1. resolved.eff \o decide \in Seq(Minor)
    BY <1>2, <1>13, SeqType, Zenon DEF Unmoved
  <2> QED BY <1>2, <1>9, <1>13, <2>1, UnmovedWith, RetUnmoved, Zenon DEF Unmoved
<1>15. \/ reducePermissionAwait(s, in) = Ret(resolved.st, resolved.eff \o decide)
       \/ reducePermissionAwait(s, in)
            = Ret(promised, <<effEmitPermissionRequest(r), effSignalAck(a)>>)
       \/ reducePermissionAwait(s, in) = Ret(registered.st, announce \o registered.eff \o ack)
  <2>1. CASE auto # "none"
    BY <2>1, Zenon DEF reducePermissionAwait, a, r, auto, resolved, finished, decide
  <2>2. CASE auto = "none" /\ r \in s.AgentState.requests
    BY <2>2, Zenon DEF reducePermissionAwait, a, r, auto, promised
  <2>3. CASE auto = "none" /\ r \notin s.AgentState.requests
    BY <2>3, Zenon DEF reducePermissionAwait, a, r, auto, promised, registered, entered,
                       announce, ack
  <2> QED BY <2>1, <2>2, <2>3
<1> QED BY <1>14, <1>15, Zenon

----------------------------------------------------------------------------
(* What the others do.                                                     *)

NoSends == {e \in Effect : e.type \notin Sends}
NoRuns == {e \in Effect : e.type \notin RunTypes}
Sending == {e \in Effect : e.type \in Sends}

\* When the remote agent runs nothing is kept for it.
Flushed(s) == s.FSM = "RemoteRunning" => s.PendingRemoteSends = <<>>

msgsOf(q) == [i \in 1..Len(q) |-> q[i].msg]

\* What is sent and what is still kept is, in this order, what was kept, and
\* then perhaps the message in X that has come in.
forwarded(s, n, eff, X) ==
  \E a, b \in Seq(NoSends), q \in Seq(Sending) :
    /\ eff = a \o q \o b
    /\ msgsOf(q) \o n.PendingRemoteSends
         \in {s.PendingRemoteSends} \cup {Append(s.PendingRemoteSends, m) : m \in X}

Forwards(s, r, X) == Flushed(s) => Flushed(r.st) /\ forwarded(s, r.st, r.eff, X)

\* No agent is started and none is configured,
Drifts(s, r) ==
  /\ r.st.RunnerGen = s.RunnerGen
  /\ r.st.FSM = "RemoteRunning" =>
       s.FSM = "RemoteRunning" /\ r.st.AgentState.config = s.AgentState.config
  /\ r.eff \in Seq(NoRuns)

\* or one is started for the next generation,
Starts(n, eff) ==
  /\ n.FSM # "RemoteRunning"
  /\ \E a, b \in Seq(NoRuns), x \in Effect :
       x.type = "StartRunner" /\ x.gen = n.RunnerGen /\ eff = a \o <<x>> \o b

Restarts(s, r) == r.st.RunnerGen = s.RunnerGen + 1 /\ Starts(r.st, r.eff)

\* or the one that runs (or, if it is said so, is ready) gets the configuration.
Configures(s, r, ready) ==
  /\ r.st.RunnerGen = s.RunnerGen
  /\ s.FSM = "RemoteRunning" \/ ready
  /\ \E a, b \in Seq(NoRuns) :
       r.eff = a \o <<effApplyEngineConfig(r.st.RunnerGen, r.st.AgentState.config)>> \o b

Steers(s, r, ready) == Drifts(s, r) \/ Restarts(s, r) \/ Configures(s, r, ready)

\* Minor effects are among both.
LEMMA MinorAmong ==
  ASSUME NEW e \in Seq(Minor)
  PROVE  e \in Seq(NoSends) /\ e \in Seq(NoRuns)
<1>1. Minor \subseteq NoSends /\ Minor \subseteq NoRuns
  BY Zenon DEF Minor, NoSends, NoRuns
<1> QED BY <1>1, SeqMonotonic

\* A handler that sends nothing keeps what there was.
LEMMA NothingSent ==
  ASSUME NEW s, NEW n \in State, NEW e \in Seq(NoSends), NEW X,
         n.PendingRemoteSends
           \in {s.PendingRemoteSends} \cup {Append(s.PendingRemoteSends, m) : m \in X}
  PROVE  forwarded(s, n, e, X)
<1>1. /\ <<>> \in Seq(NoSends) /\ <<>> \in Seq(Sending)
      /\ e = <<>> \o <<>> \o e
  BY SeqType
<1>2. msgsOf(<<>>) \o n.PendingRemoteSends = n.PendingRemoteSends
  <2>1. msgsOf(<<>>) = <<>>
    BY DEF msgsOf
  <2> QED BY <2>1, StateFields
<1> QED BY <1>1, <1>2, Zenon DEF forwarded

\* What has been said of minor handlers.
LEMMA UnmovedGoesOn ==
  ASSUME NEW s \in State, NEW r, Unmoved(s, r), r.st \in State, NEW X, NEW ready
  PROVE  Forwards(s, r, X) /\ Steers(s, r, ready)
<1>1. r.eff \in Seq(NoSends) /\ r.eff \in Seq(NoRuns)
  BY MinorAmong, Zenon DEF Unmoved
<1>2. forwarded(s, r.st, r.eff, X)
  BY <1>1, NothingSent, Zenon DEF Unmoved, SameCourse
<1> QED BY <1>1, <1>2, Zenon
        DEF Unmoved, SameCourse, Forwards, Flushed, Steers, Drifts

\* The effects that restart a runner start one, of the generation of the state.
LEMMA RestartStarts ==
  ASSUME NEW n \in State, n.RunnerGen - 1 \in Nat, n.FSM # "RemoteRunning",
         NEW q \in Seq(Minor)
  PROVE  /\ Starts(n, restartEffects(n) \o q)
         /\ restartEffects(n) \o q \in Seq(NoSends)
<1> DEFINE stop == IF n.Mode = "remote" THEN effStopLocalRunner(n.RunnerGen - 1)
                                        ELSE effStopRemoteRunner(n.RunnerGen - 1)
           x == effStartRunner(n.Mode, n.RunnerGen, n.AgentState.config)
           a == <<stop, effTakebackWatcher(FALSE)>>
<1>1. n.RunnerGen \in Nat /\ n.Mode \in Modes /\ n.AgentState.config \in AgentConfig
  BY StateFields, AgentStateFields
<1>2. stop \in Minor /\ effTakebackWatcher(FALSE) \in Minor
  BY MinorTypes
<1>3. x \in Effect /\ x.type = "StartRunner" /\ x.gen = n.RunnerGen
  BY <1>1, EffectTypes DEF Quiet, effStartRunner
<1>4. restartEffects(n) = <<stop, effTakebackWatcher(FALSE), x>>
  BY Zenon DEF restartEffects
<1> HIDE DEF stop, x
<1>5. a \in Seq(Minor)
  BY <1>2, SeqType, Zenon
<1>6. restartEffects(n) = a \o <<x>>
  <2>1. ASSUME NEW c, NEW d, NEW e
        PROVE  <<c, d, e>> = <<c, d>> \o <<e>>
    OBVIOUS
  <2> QED BY <1>4, <2>1, Zenon
<1> HIDE DEF a
<1>7. restartEffects(n) \o q = a \o <<x>> \o q
  BY <1>6
<1>8. x \in NoSends
  BY <1>3 DEF NoSends, Sends
<1>9. a \in Seq(NoRuns) /\ a \in Seq(NoSends) /\ q \in Seq(NoRuns) /\ q \in Seq(NoSends)
  BY <1>5, MinorAmong
<1>10. a \o <<x>> \o q \in Seq(NoSends)
  BY <1>8, <1>9, SeqType, Zenon
<1> QED BY <1>3, <1>7, <1>9, <1>10, Zenon DEF Starts

\* A switch of modes: nothing to do, or a start; what is kept stays.
LEMMA SwitchModeCourse ==
  ASSUME NEW s \in State, NEW target \in Modes, NEW reply \in Calls \cup {None}
  PROVE  \/ reduceSwitchMode(s, target, reply) = Ret(s, replyTo(reply, "ok"))
            /\ s.FSM \in Running
         \/ \E n \in State, e \in Seq(NoSends) :
              /\ reduceSwitchMode(s, target, reply) = Ret(n, e)
              /\ n.PendingRemoteSends = s.PendingRemoteSends
              /\ n.RunnerGen = s.RunnerGen + 1
              /\ Starts(n, e)
<1> DEFINE n == switchedTo(s, target, reply)
           e == restartEffects(n) \o <<effCancelTimer, persistEffect(n)>>
<1>1. n \in State /\ n.RunnerGen = s.RunnerGen + 1
  BY SwitchedType
<1>2. n.PendingRemoteSends = s.PendingRemoteSends
  BY Zenon DEF switchedTo, refreshAgentStateJSON, setAgentStateJSON, State
<1>3. n.FSM = IF target = "remote" THEN "RemoteStarting" ELSE "LocalStarting"
  BY Zenon DEF switchedTo, refreshAgentStateJSON, setAgentStateJSON, State
<1> HIDE DEF n
<1>4. n.FSM # "RemoteRunning" /\ n.RunnerGen - 1 \in Nat
  BY <1>1, <1>3, StateFields
<1>5. <<effCancelTimer, persistEffect(n)>> \in Seq(Minor)
  BY <1>1, MinorTypes, SeqType, Zenon
<1>6. e \in Seq(NoSends) /\ Starts(n, e)
  BY <1>1, <1>4, <1>5, RestartStarts, Zenon
<1> HIDE DEF e
<1>7. \/ reduceSwitchMode(s, target, reply) = Ret(s, replyTo(reply, "ok"))
         /\ s.FSM \in Running
      \/ reduceSwitchMode(s, target, reply) = Ret(n, e)
  BY Zenon DEF reduceSwitchMode, n, e
<1> QED BY <1>1, <1>2, <1>6, <1>7, Zenon

\* A start forwards nothing.
LEMMA StartsCourse ==
  ASSUME NEW s, NEW n \in State, NEW e \in Seq(NoSends), NEW X, NEW ready,
         n.PendingRemoteSends
           \in {s.PendingRemoteSends} \cup {Append(s.PendingRemoteSends, m) : m \in X},
         n.RunnerGen = s.RunnerGen + 1, Starts(n, e)
  PROVE  Forwards(s, Ret(n, e), X) /\ Steers(s, Ret(n, e), ready)
<1>1. Ret(n, e).st = n /\ Ret(n, e).eff = e
  BY DEF Ret
<1>2. forwarded(s, n, e, X)
  BY NothingSent, Zenon
<1> QED BY <1>1, <1>2, Zenon DEF Forwards, Flushed, Starts, Steers, Restarts

\* cmdSwitchMode and the takeback.
LEMMA SwitchModeGoesOn ==
  ASSUME NEW s \in State, NEW target \in Modes, NEW reply \in Calls \cup {None}
  PROVE  /\ Forwards(s, reduceSwitchMode(s, target, reply), {})
         /\ Steers(s, reduceSwitchMode(s, target, reply), FALSE)
<1>1. /\ Forwards(s, Ret(s, replyTo(reply, "ok")), {})
      /\ Steers(s, Ret(s, replyTo(reply, "ok")), FALSE)
  <2>1. replyTo(reply, "ok") \in Seq(Minor)
    BY RepliesMinor DEF Results
  <2>2. Unmoved(s, Ret(s, replyTo(reply, "ok")))
    BY <2>1, RetUnmoved, Zenon DEF SameCourse
  <2>3. Ret(s, replyTo(reply, "ok")).st \in State
    BY DEF Ret
  <2> QED BY <2>2, <2>3, UnmovedGoesOn, Zenon
<1>2. ASSUME NEW n \in State, NEW e \in Seq(NoSends),
             n.PendingRemoteSends = s.PendingRemoteSends,
             n.RunnerGen = s.RunnerGen + 1, Starts(n, e)
      PROVE  Forwards(s, Ret(n, e), {}) /\ Steers(s, Ret(n, e), FALSE)
  <2>1. n.PendingRemoteSends
          \in {s.PendingRemoteSends} \cup {Append(s.PendingRemoteSends, m) : m \in {}}
    BY <1>2
  <2> QED BY <1>2, <2>1, StartsCourse, Zenon
<1> DEFINE r == reduceSwitchMode(s, target, reply)
<1>3. \/ r = Ret(s, replyTo(reply, "ok"))
      \/ \E n \in State, e \in Seq(NoSends) :
           /\ r = Ret(n, e)
           /\ n.PendingRemoteSends = s.PendingRemoteSends
           /\ n.RunnerGen = s.RunnerGen + 1
           /\ Starts(n, e)
  BY SwitchModeCourse
<1> HIDE DEF r
<1>4. Forwards(s, r, {}) /\ Steers(s, r, FALSE)
  BY <1>1, <1>2, <1>3, Zenon
<1> QED BY <1>4, Zenon DEF r

\* The messages that are kept, as they are sent.
LEMMA KeptSent ==
  ASSUME NEW s \in State
  PROVE  /\ remoteSends(s) \in Seq(Sending) /\ remoteSends(s) \in Seq(NoRuns)
         /\ msgsOf(remoteSends(s)) = s.PendingRemoteSends
         /\ localSendLines(s) \in Seq(Sending) /\ localSendLines(s) \in Seq(NoRuns)
         /\ msgsOf(localSendLines(s)) = s.PendingRemoteSends
<1> DEFINE ps == s.PendingRemoteSends
           n == Len(ps)
           Line == Sending \cap NoRuns
<1>1. ps \in Seq(Messages) /\ s.RunnerGen \in Nat
  BY StateFields
<1> HIDE DEF ps
<1>2. n \in Nat /\ \A i \in 1..n : ps[i] \in Messages
  BY <1>1
<1>3. \A i \in 1..n : /\ effRemoteSend(s.RunnerGen, ps[i]) \in Line
                      /\ effLocalSendLine(s.RunnerGen, ps[i]) \in Line
                      /\ effRemoteSend(s.RunnerGen, ps[i]).msg = ps[i]
                      /\ effLocalSendLine(s.RunnerGen, ps[i]).msg = ps[i]
  <2> SUFFICES ASSUME NEW i \in 1..n
               PROVE  /\ effRemoteSend(s.RunnerGen, ps[i]) \in Line
                      /\ effLocalSendLine(s.RunnerGen, ps[i]) \in Line
                      /\ effRemoteSend(s.RunnerGen, ps[i]).msg = ps[i]
                      /\ effLocalSendLine(s.RunnerGen, ps[i]).msg = ps[i]
    OBVIOUS
  <2>1. /\ effRemoteSend(s.RunnerGen, ps[i]) \in Effect
        /\ effLocalSendLine(s.RunnerGen, ps[i]) \in Effect
    BY <1>1, <1>2, EffectTypes, Zenon DEF Quiet
  <2> QED BY <2>1 DEF Sending, NoRuns, Sends, RunTypes, effRemoteSend, effLocalSendLine
<1>4. /\ remoteSends(s) = [i \in 1..n |-> effRemoteSend(s.RunnerGen, ps[i])]
      /\ localSendLines(s) = [i \in 1..n |-> effLocalSendLine(s.RunnerGen, ps[i])]
  BY DEF remoteSends, localSendLines, ps
<1>5. ASSUME NEW f, DOMAIN f = 1..n, \A i \in 1..n : f[i] \in Line /\ f[i].msg = ps[i],
             f = [i \in 1..n |-> f[i]]
      PROVE  f \in Seq(Sending) /\ f \in Seq(NoRuns) /\ msgsOf(f) = ps
  <2> HIDE DEF n
  <2>1. f \in Seq(Line) /\ Len(f) = n
    BY <1>2, <1>5
  <2>2. f \in Seq(Sending) /\ f \in Seq(NoRuns)
    BY <2>1, SeqMonotonic
  <2>3. msgsOf(f) = [i \in 1..n |-> ps[i]]
    BY <1>5, <2>1 DEF msgsOf
  <2>4. ps = [i \in 1..n |-> ps[i]]
    BY <1>1 DEF n
  <2> QED BY <2>2, <2>3, <2>4
<1> DEFINE f == [i \in 1..n |-> effRemoteSend(s.RunnerGen, ps[i])]
           g == [i \in 1..n |-> effLocalSendLine(s.RunnerGen, ps[i])]
<1>6. /\ DOMAIN f = 1..n /\ \A i \in 1..n : f[i] = effRemoteSend(s.RunnerGen, ps[i])
      /\ DOMAIN g = 1..n /\ \A i \in 1..n : g[i] = effLocalSendLine(s.RunnerGen, ps[i])
      /\ f = [i \in 1..n |-> f[i]] /\ g = [i \in 1..n |-> g[i]]
  OBVIOUS
<1> HIDE DEF f, g, n, Line
<1>7. f \in Seq(Sending) /\ f \in Seq(NoRuns) /\ msgsOf(f) = ps
  BY <1>3, <1>5, <1>6
<1>8. g \in Seq(Sending) /\ g \in Seq(NoRuns) /\ msgsOf(g) = ps
  BY <1>3, <1>5, <1>6
<1> QED BY <1>4, <1>7, <1>8, Zenon DEF f, g, ps

\* What is kept is sent, between other effects.
LEMMA AllSent ==
  ASSUME NEW s \in State, NEW n, n.PendingRemoteSends = <<>>, NEW q \in Seq(Sending),
         msgsOf(q) = s.PendingRemoteSends, NEW a \in Seq(NoSends), NEW b \in Seq(NoSends),
         NEW X
  PROVE  forwarded(s, n, a \o q \o b, X)
<1>1. msgsOf(q) \o n.PendingRemoteSends = s.PendingRemoteSends
  BY StateFields
<1> QED BY <1>1, Zenon DEF forwarded

\* evRunnerReady.
LEMMA RunnerReadyGoesOn ==
  ASSUME NEW s \in State, NEW in, in.mode \in Modes, in.gen \in Nat
  PROVE  /\ Forwards(s, reduceRunnerReady(s, in), {})
         /\ Steers(s, reduceRunnerReady(s, in), in.mode = "remote" /\ in.gen = s.RunnerGen)
<1> DEFINE handle == [gen |-> in.gen, running |-> TRUE]
           ready == in.mode = "remote" /\ in.gen = s.RunnerGen
           reply == replyTo(s.PendingSwitchReply, "ok")
           l == [s EXCEPT !.FSM = "LocalRunning", !.LocalRunner = handle,
                          !.PendingSwitchReply = None]
           r == [s EXCEPT !.FSM = "RemoteRunning", !.RemoteRunner = handle,
                          !.PendingSwitchReply = None, !.PendingRemoteSends = <<>>]
           apply == effApplyEngineConfig(s.RunnerGen, s.AgentState.config)
           w == effTakebackWatcher(TRUE)
<1>1. reply \in Seq(Minor)
  BY StateFields, RepliesMinor DEF Results
<1>2. l \in State /\ l.RunnerGen = s.RunnerGen /\ l.FSM = "LocalRunning"
      /\ l.PendingRemoteSends = s.PendingRemoteSends
  <2>1. "LocalRunning" \in FSMState /\ handle \in runnerHandle
    BY DEF FSMState, Running, runnerHandle
  <2> HIDE DEF handle
  <2> QED BY <2>1, Zenon DEF State
<1>3. /\ r.RunnerGen = s.RunnerGen /\ r.PendingRemoteSends = <<>>
      /\ r.AgentState.config = s.AgentState.config
  BY Zenon DEF State
<1>4. w \in Minor /\ w \in NoSends /\ w \in NoRuns /\ apply \in NoSends
  <2>1. w \in Minor
    BY MinorTypes
  <2>2. apply \in Effect /\ apply.type = "ApplyEngineConfig"
    BY StateFields, AgentStateFields, EffectTypes DEF Quiet, effApplyEngineConfig
  <2> HIDE DEF w, apply
  <2> QED BY <2>1, <2>2 DEF Minor, NoSends, NoRuns, Sends
<1>5. /\ remoteReadyEffects(s) = <<w, apply>> \o remoteSends(s)
      /\ reply \in Seq(NoSends) /\ reply \in Seq(NoRuns)
  BY <1>1, MinorAmong, Zenon DEF remoteReadyEffects
<1> DEFINE e == reply \o remoteReadyEffects(s)
<1> HIDE DEF handle, reply, w, apply, l, r
<1>6. /\ e = (reply \o <<w, apply>>) \o remoteSends(s) \o <<>>
      /\ e = (reply \o <<w>>) \o <<apply>> \o remoteSends(s)
  <2>1. remoteSends(s) \in Seq(Sending)
    BY KeptSent
  <2> DEFINE k == remoteSends(s)
             T == NoSends \cup NoRuns \cup Sending
  <2>2. k \in Seq(T) /\ reply \in Seq(T) /\ w \in T /\ apply \in T
    BY <1>4, <1>5, <2>1, SeqMonotonic
  <2> HIDE DEF T, k
  <2>3. /\ reply \o (<<w, apply>> \o k) = (reply \o <<w, apply>>) \o k \o <<>>
        /\ reply \o (<<w, apply>> \o k) = (reply \o <<w>>) \o <<apply>> \o k
    BY SMTT(40), <2>2
  <2> QED BY <1>5, <2>3, Zenon DEF k
<1> HIDE DEF e
<1>7. Forwards(s, Ret(r, e), {})
  <2>1. reply \o <<w, apply>> \in Seq(NoSends) /\ <<>> \in Seq(NoSends)
    BY <1>4, <1>5, SeqType, Zenon
  <2>2. forwarded(s, r, e, {})
    BY <1>3, <1>6, <2>1, KeptSent, AllSent, Zenon
  <2> QED BY <1>3, <2>2, Zenon DEF Forwards, Flushed, Ret
<1>8. ready => Configures(s, Ret(r, e), ready)
  <2>1. reply \o <<w>> \in Seq(NoRuns) /\ remoteSends(s) \in Seq(NoRuns)
    BY <1>4, <1>5, KeptSent, SeqType, Zenon
  <2>2. Ret(r, e).st = r /\ Ret(r, e).eff = e
    BY DEF Ret
  <2>3. apply = effApplyEngineConfig(r.RunnerGen, r.AgentState.config)
    BY <1>3 DEF apply
  <2> QED BY <1>3, <1>6, <2>1, <2>2, <2>3, Zenon DEF Configures
<1>9. Forwards(s, Ret(l, reply), {}) /\ Drifts(s, Ret(l, reply))
  <2>1. forwarded(s, l, reply, {})
    BY <1>2, <1>5, NothingSent, Zenon
  <2> QED BY <1>2, <1>5, <2>1, Zenon DEF Forwards, Flushed, Ret, Drifts
<1>10. Forwards(s, Ret(s, <<>>), {}) /\ Drifts(s, Ret(s, <<>>))
  <2>1. <<>> \in Seq(NoSends) /\ <<>> \in Seq(NoRuns)
    BY SeqType
  <2>2. forwarded(s, s, <<>>, {})
    BY <2>1, NothingSent, Zenon
  <2> QED BY <2>1, <2>2, Zenon DEF Forwards, Flushed, Ret, Drifts
<1> HIDE DEF ready
<1>11. \/ reduceRunnerReady(s, in) = Ret(s, <<>>)
       \/ reduceRunnerReady(s, in) = Ret(l, reply)
       \/ ready /\ reduceRunnerReady(s, in) = Ret(r, e)
  <2>1. CASE in.gen # s.RunnerGen
    BY <2>1, Zenon DEF reduceRunnerReady
  <2>2. CASE in.gen = s.RunnerGen /\ in.mode = "local"
    BY <2>2, Zenon DEF reduceRunnerReady, l, reply, handle
  <2>3. CASE in.gen = s.RunnerGen /\ in.mode = "remote"
    <3>1. in.mode # "local" /\ ready
      BY <2>3 DEF ready
    <3> QED BY <2>3, <3>1, Zenon DEF reduceRunnerReady, r, e, reply, handle
  <2> QED BY <2>1, <2>2, <2>3 DEF Modes
<1>12. Forwards(s, reduceRunnerReady(s, in), {}) /\ Steers(s, reduceRunnerReady(s, in), ready)
  BY <1>7, <1>8, <1>9, <1>10, <1>11, Zenon DEF Steers
<1> QED BY <1>12, Zenon DEF ready

\* Only the course of a state matters.
LEMMA FromCourse ==
  ASSUME NEW s, NEW n, SameCourse(s, n), NEW r, NEW X, NEW ready,
         Forwards(n, r, X), Steers(n, r, ready)
  PROVE  Forwards(s, r, X) /\ Steers(s, r, ready)
BY Zenon DEF SameCourse, Forwards, forwarded, Flushed, Steers, Drifts, Restarts, Configures

\* The exit of a runner that was being started.
LEMMA FailStartGoesOn ==
  ASSUME NEW s \in State, NEW err \in Results, s.FSM \in Starting, NEW X, NEW ready
  PROVE  Forwards(s, failStart(s, err), X) /\ Steers(s, failStart(s, err), ready)
<1> DEFINE reply == replyTo(s.PendingSwitchReply, err)
           failed == backToLocal(s)
           idle == [failed EXCEPT !.Working = FALSE]
           d == [failed EXCEPT !.PendingRemoteSends = <<>>, !.AgentState.controlledByUser = TRUE]
           p == schedulePersistDebounced(refreshAgentStateJSON(d))
           e == reply \o localSendLines(s) \o p.eff
<1>1. reply \in Seq(Minor)
  BY RepliesMinor, StateFields
<1>2. "LocalRunning" \in FSMState /\ "local" \in Modes /\ <<>> \in Seq(Messages)
  BY DEF FSMState, Running, Modes
<1>3. /\ failed \in State /\ failed.FSM = "LocalRunning" /\ failed.RunnerGen = s.RunnerGen
      /\ failed.PendingRemoteSends = s.PendingRemoteSends
  BY <1>2, Zenon DEF backToLocal, State
<1> HIDE DEF failed
<1>4. /\ idle \in State /\ idle.FSM = "LocalRunning" /\ idle.RunnerGen = s.RunnerGen
      /\ idle.PendingRemoteSends = s.PendingRemoteSends
  BY <1>3, Zenon DEF State
<1> HIDE DEF idle
<1>5. [failed.AgentState EXCEPT !.controlledByUser = TRUE] \in AgentState
  BY <1>3, StateFields, Zenon DEF AgentState
<1>6. /\ d \in State /\ d.FSM = "LocalRunning" /\ d.RunnerGen = s.RunnerGen
      /\ d.PendingRemoteSends = <<>>
  BY <1>2, <1>3, <1>5, Zenon DEF State
<1> HIDE DEF d
<1>7. Unmoved(d, p)
  BY <1>6, PublishCourse, Zenon DEF SameCourse
<1> HIDE DEF p, reply
<1>8. /\ p.st.FSM = "LocalRunning" /\ p.st.RunnerGen = s.RunnerGen
      /\ p.st.PendingRemoteSends = <<>> /\ p.eff \in Seq(Minor)
  BY <1>6, <1>7, Zenon DEF Unmoved, SameCourse
<1>9. /\ reply \in Seq(NoSends) /\ reply \in Seq(NoRuns)
      /\ p.eff \in Seq(NoSends) /\ p.eff \in Seq(NoRuns)
  BY <1>1, <1>8, MinorAmong, Zenon
<1>10. Forwards(s, Ret(p.st, e), X) /\ Drifts(s, Ret(p.st, e))
  <2>1. forwarded(s, p.st, e, X)
    BY <1>8, <1>9, KeptSent, AllSent, Zenon
  <2>2. e \in Seq(NoRuns)
    BY <1>9, KeptSent, SeqType, Zenon
  <2> HIDE DEF e
  <2>3. Ret(p.st, e).st = p.st /\ Ret(p.st, e).eff = e
    BY DEF Ret
  <2> QED BY <1>8, <2>1, <2>2, <2>3 DEF Forwards, Flushed, Drifts
<1> HIDE DEF e
<1>11. Forwards(s, Ret(idle, reply), X) /\ Drifts(s, Ret(idle, reply))
  <2>1. forwarded(s, idle, reply, X)
    BY <1>4, <1>9, NothingSent, Zenon
  <2>2. Ret(idle, reply).st = idle /\ Ret(idle, reply).eff = reply
    BY DEF Ret
  <2> QED BY <1>4, <1>9, <2>1, <2>2 DEF Forwards, Flushed, Drifts
<1>12. failStart(s, err) \in {Ret(p.st, e), Ret(idle, reply)}
  BY Zenon DEF failStart, failed, idle, d, p, e, reply
<1> QED BY <1>10, <1>11, <1>12, Zenon DEF Steers

\* The death of the remote agent.
LEMMA FallBackGoesOn ==
  ASSUME NEW s \in State, NEW X, NEW ready
  PROVE  Forwards(s, fallBackToLocal(s), X) /\ Steers(s, fallBackToLocal(s), ready)
<1> DEFINE gen == s.RunnerGen + 1
           handle == [gen |-> gen, running |-> FALSE]
           d == [s EXCEPT !.RunnerGen = gen, !.Mode = "local", !.FSM = "LocalStarting",
                          !.Working = FALSE, !.LocalRunner = handle,
                          !.AgentState.controlledByUser = TRUE]
           p == schedulePersistDebounced(refreshAgentStateJSON(d))
<1>1. gen \in Nat /\ gen - 1 \in Nat /\ handle \in runnerHandle /\ gen = s.RunnerGen + 1
  BY StateFields DEF runnerHandle
<1> HIDE DEF gen, handle
<1>2. "LocalStarting" \in FSMState /\ "local" \in Modes
  BY DEF FSMState, Starting, Modes
<1>3. [s.AgentState EXCEPT !.controlledByUser = TRUE] \in AgentState
  BY StateFields, Zenon DEF AgentState
<1>4. /\ d \in State /\ d.RunnerGen = gen /\ d.FSM = "LocalStarting"
      /\ d.PendingRemoteSends = s.PendingRemoteSends
  BY <1>1, <1>2, <1>3, Zenon DEF State
<1> HIDE DEF d
<1>5. Unmoved(d, p)
  BY <1>4, PublishCourse, Zenon DEF SameCourse
<1>6. p.st \in State
  BY <1>4, RevisionCourse, StateFields, DebounceType, Zenon
     DEF SameCourse, Keeps, Follows, Handled, WellTyped
<1> HIDE DEF p
<1>7. /\ p.st.RunnerGen = gen /\ p.st.FSM = "LocalStarting"
      /\ p.st.PendingRemoteSends = s.PendingRemoteSends /\ p.eff \in Seq(Minor)
  BY <1>4, <1>5, Zenon DEF Unmoved, SameCourse
<1>8. "LocalStarting" # "RemoteRunning"
  OBVIOUS
<1>9. /\ Starts(p.st, restartEffects(p.st) \o p.eff)
      /\ restartEffects(p.st) \o p.eff \in Seq(NoSends)
  BY <1>1, <1>6, <1>7, <1>8, RestartStarts, Zenon
<1> DEFINE e == restartEffects(p.st) \o p.eff
<1>10. fallBackToLocal(s) = Ret(p.st, e)
  BY Zenon DEF fallBackToLocal, p, d, gen, handle
<1> HIDE DEF e
<1>11. Starts(p.st, e) /\ e \in Seq(NoSends)
  BY <1>9, Zenon DEF e
<1>12. p.st.RunnerGen = s.RunnerGen + 1
  BY <1>1, <1>7
<1> QED BY <1>6, <1>7, <1>10, <1>11, <1>12, StartsCourse, Zenon

\* evRunnerExited and cmdShutdown.
LEMMA RunnerExitedGoesOn ==
  ASSUME NEW s \in State, NEW in, in.err \in Results, NEW X, NEW ready
  PROVE  Forwards(s, reduceRunnerExited(s, in), X) /\ Steers(s, reduceRunnerExited(s, in), ready)
<1> DEFINE n == recordExit(s, in)
           closed == [n EXCEPT !.FSM = "Closed"]
<1>1. n \in State /\ SameCourse(s, n)
  <2>1. n \in State
    BY RecordExitType, Zenon
  <2>2. SameCourse(s, n)
    BY Zenon DEF recordExit, State, SameCourse
  <2> QED BY <2>1, <2>2
<1> HIDE DEF n
<1> DEFINE Fine(r) == Forwards(s, r, X) /\ Steers(s, r, ready)
<1>2. n.FSM \in Starting => Fine(failStart(n, in.err))
  BY <1>1, FailStartGoesOn, FromCourse, Zenon
<1>3. Fine(fallBackToLocal(n))
  BY <1>1, FallBackGoesOn, FromCourse, Zenon
<1>4. Fine(Ret(closed, <<>>))
  <2>1. /\ closed \in State /\ closed.FSM = "Closed" /\ closed.RunnerGen = n.RunnerGen
        /\ closed.PendingRemoteSends = n.PendingRemoteSends
    <3>1. "Closed" \in FSMState
      BY DEF FSMState
    <3> QED BY <1>1, <3>1, Zenon DEF State
  <2> HIDE DEF closed
  <2>2. <<>> \in Seq(NoSends) /\ <<>> \in Seq(NoRuns) /\ "Closed" # "RemoteRunning"
    BY SeqType
  <2>3. forwarded(n, closed, <<>>, X)
    BY <2>1, <2>2, NothingSent, Zenon
  <2>4. Forwards(n, Ret(closed, <<>>), X) /\ Steers(n, Ret(closed, <<>>), ready)
    BY <2>1, <2>2, <2>3, Zenon DEF Forwards, Flushed, Steers, Drifts, Ret
  <2> QED BY <1>1, <2>4, FromCourse, Zenon
<1>5. Fine(Ret(s, <<>>))
  <2>1. Unmoved(s, Ret(s, <<>>)) /\ Ret(s, <<>>).st \in State
    BY SeqType, RetUnmoved, Zenon DEF SameCourse, Ret
  <2> QED BY <2>1, UnmovedGoesOn, Zenon
<1> HIDE DEF Fine
<1>6. \/ reduceRunnerExited(s, in) = Ret(s, <<>>)
      \/ n.FSM \in Starting /\ reduceRunnerExited(s, in) = failStart(n, in.err)
      \/ reduceRunnerExited(s, in) = fallBackToLocal(n)
      \/ reduceRunnerExited(s, in) = Ret(closed, <<>>)
  BY DEF reduceRunnerExited, n
<1>7. Fine(reduceRunnerExited(s, in))
  BY <1>2, <1>3, <1>4, <1>5, <1>6, Zenon
<1> QED BY <1>7, Zenon DEF Fine

\* Shutdown sends nothing and starts nothing.
LEMMA ShutdownGoesOn ==
  ASSUME NEW s \in State, NEW X, NEW ready
  PROVE  Forwards(s, reduceShutdown(s), X) /\ Steers(s, reduceShutdown(s), ready)
<1> DEFINE n == [s EXCEPT !.FSM = "Closing"]
           e == <<effStopLocalRunner(s.RunnerGen), effStopRemoteRunner(s.RunnerGen),
                  effTakebackWatcher(FALSE)>>
<1>1. /\ n \in State /\ n.FSM = "Closing" /\ n.RunnerGen = s.RunnerGen
      /\ n.PendingRemoteSends = s.PendingRemoteSends
  <2>1. "Closing" \in FSMState
    BY DEF FSMState
  <2> QED BY <2>1, Zenon DEF State
<1> HIDE DEF n
<1>2. e \in Seq(Minor)
  BY StateFields, MinorTypes, SeqType, Zenon
<1>3. reduceShutdown(s) = Ret(n, e)
  BY Zenon DEF reduceShutdown, n
<1> HIDE DEF e
<1>4. e \in Seq(NoSends) /\ e \in Seq(NoRuns) /\ "Closing" # "RemoteRunning"
  BY <1>2, MinorAmong
<1>5. forwarded(s, n, e, X)
  BY <1>1, <1>4, NothingSent, Zenon
<1>6. Ret(n, e).st = n /\ Ret(n, e).eff = e
  BY DEF Ret
<1> QED BY <1>1, <1>3, <1>4, <1>5, <1>6, Zenon DEF Forwards, Flushed, Steers, Drifts

\* A message goes out, or is kept, behind those that are kept.
LEMMA OneSent ==
  ASSUME NEW s \in State, NEW n \in State, s.PendingRemoteSends = <<>>,
         n.PendingRemoteSends = <<>>, NEW msg \in Messages, NEW q \in Seq(NoSends)
  PROVE  forwarded(s, n, <<effRemoteSend(s.RunnerGen, msg)>> \o q, {msg})
<1> DEFINE x == effRemoteSend(s.RunnerGen, msg)
<1>1. x \in Sending /\ x.msg = msg
  <2>1. x \in Effect
    BY StateFields, EffectTypes, Zenon DEF Quiet
  <2> QED BY <2>1 DEF Sending, Sends, effRemoteSend
<1> HIDE DEF x
<1>2. msgsOf(<<x>>) \o n.PendingRemoteSends = Append(s.PendingRemoteSends, msg)
  <2>1. msgsOf(<<x>>) = <<msg>>
    BY <1>1 DEF msgsOf
  <2>2. <<msg>> \o <<>> = Append(<<>>, msg)
    OBVIOUS
  <2> QED BY <2>1, <2>2
<1>3. /\ <<>> \in Seq(NoSends) /\ <<x>> \in Seq(Sending)
      /\ <<x>> \o q = <<>> \o <<x>> \o q
  <2>1. <<x>> \in Seq(Sending)
    BY <1>1
  <2> QED BY <2>1
<1>4. forwarded(s, n, <<x>> \o q, {msg})
  BY <1>2, <1>3, Zenon DEF forwarded
<1> QED BY <1>4, Zenon DEF x

\* A turn that starts.
LEMMA TurnCourse ==
  ASSUME NEW n \in State
  PROVE  maybeStartTurn(n) \in State /\ SameCourse(n, maybeStartTurn(n))
BY TurnType, Zenon DEF maybeStartTurn, State, SameCourse

\* Starting a turn, the state keeps its course.
LEMMA ToCourse ==
  ASSUME NEW s, NEW n, NEW m, SameCourse(n, m), NEW e, NEW X, NEW ready,
         Forwards(s, Ret(n, e), X), Steers(s, Ret(n, e), ready)
  PROVE  Forwards(s, Ret(m, e), X) /\ Steers(s, Ret(m, e), ready)
<1>1. /\ Ret(n, e).st = n /\ Ret(n, e).eff = e
      /\ Ret(m, e).st = m /\ Ret(m, e).eff = e
  BY DEF Ret
<1> QED BY <1>1, ZenonT(60)
        DEF SameCourse, Forwards, forwarded, Flushed, Steers, Drifts, Restarts, Starts, Configures

\* cmdRemoteSend.
LEMMA RemoteSendGoesOn ==
  ASSUME NEW s \in State, NEW msg \in Messages, NEW reply \in Calls \cup {None}
  PROVE  /\ Forwards(s, reduceRemoteSend(s, msg, reply), {msg})
         /\ Steers(s, reduceRemoteSend(s, msg, reply), FALSE)
<1> DEFINE t == maybeStartTurn(s)
           ok == replyTo(reply, "ok")
           e == <<effRemoteSend(s.RunnerGen, msg)>> \o ok
           no == Ret(s, replyTo(reply, "err"))
<1>1. ok \in Seq(Minor) /\ replyTo(reply, "err") \in Seq(Minor)
  BY RepliesMinor DEF Results
<1>2. t \in State /\ SameCourse(s, t)
  BY TurnCourse
<1> HIDE DEF t, ok
<1>3. ok \in Seq(NoSends) /\ ok \in Seq(NoRuns)
  BY <1>1, MinorAmong
<1>4. CASE s.FSM = "RemoteRunning"
  <2>1. reduceRemoteSend(s, msg, reply) = Ret(t, e)
    BY <1>4, Zenon DEF reduceRemoteSend, t, ok
  <2>2. effRemoteSend(s.RunnerGen, msg) \in NoRuns
    <3>1. effRemoteSend(s.RunnerGen, msg) \in Effect
      BY StateFields, EffectTypes, Zenon DEF Quiet
    <3> QED BY <3>1 DEF NoRuns, RunTypes, effRemoteSend
  <2>3. e \in Seq(NoRuns)
    BY <1>3, <2>2, SeqType, Zenon
  <2>4. Flushed(s) => forwarded(s, t, e, {msg})
    BY <1>2, <1>3, <1>4, OneSent, Zenon DEF Flushed, SameCourse
  <2> HIDE DEF e
  <2>5. Ret(t, e).st = t /\ Ret(t, e).eff = e
    BY DEF Ret
  <2> QED BY <1>2, <2>1, <2>3, <2>4, <2>5, Zenon
          DEF Forwards, Flushed, SameCourse, Steers, Drifts
<1>5. CASE s.FSM # "RemoteRunning"
  <2>1. reduceRemoteSend(s, msg, reply) = no
    BY <1>5, Zenon DEF reduceRemoteSend
  <2>2. Unmoved(s, no) /\ no.st \in State
    BY <1>1, RetUnmoved, Zenon DEF SameCourse, Ret
  <2> QED BY <2>1, <2>2, UnmovedGoesOn, Zenon
<1> QED BY <1>4, <1>5

\* cmdInboundUserMessage, with the switch it may cause.
LEMMA InboundGoesOn ==
  ASSUME NEW s \in State, NEW msg \in Messages
  PROVE  /\ Forwards(s, reduceInboundUserMessage(s, msg), {msg})
         /\ Steers(s, reduceInboundUserMessage(s, msg), FALSE)
<1> DEFINE b == [s EXCEPT !.PendingRemoteSends = Append(@, msg)]
           r == reduceSwitchMode(b, "remote", None)
           Fine(x) == Forwards(s, x, {msg}) /\ Steers(s, x, FALSE)
<1>1. /\ b \in State /\ b.FSM = s.FSM /\ b.RunnerGen = s.RunnerGen
      /\ b.AgentState.config = s.AgentState.config
      /\ b.PendingRemoteSends
           \in {s.PendingRemoteSends} \cup {Append(s.PendingRemoteSends, m) : m \in {msg}}
  <2>1. Append(s.PendingRemoteSends, msg) \in Seq(Messages)
    BY StateFields
  <2>2. b.PendingRemoteSends = Append(s.PendingRemoteSends, msg)
    BY Zenon DEF State
  <2> QED BY <2>1, <2>2, Zenon DEF State
<1>2. r = Ret(b, replyTo(None, "ok")) \/ \E n \in State, e \in Seq(NoSends) :
        /\ r = Ret(n, e)
        /\ n.PendingRemoteSends = b.PendingRemoteSends
        /\ n.RunnerGen = b.RunnerGen + 1
        /\ Starts(n, e)
  BY <1>1, SwitchModeCourse DEF Modes
<1>3. <<>> \in Seq(NoSends) /\ <<>> \in Seq(NoRuns) /\ replyTo(None, "ok") = <<>>
  BY SeqType, Zenon DEF replyTo
<1>4. /\ reduceInboundUserMessage(s, msg)
           = IF s.FSM = "RemoteRunning"
             THEN Ret(maybeStartTurn(s), <<effRemoteSend(s.RunnerGen, msg)>>)
             ELSE IF s.FSM = "RemoteStarting" THEN Ret(maybeStartTurn(b), <<>>)
                                              ELSE Ret(maybeStartTurn(r.st), r.eff)
  BY Zenon DEF reduceInboundUserMessage
<1> HIDE DEF b, r, Fine
<1>5. s.FSM = "RemoteRunning" =>
        Fine(Ret(maybeStartTurn(s), <<effRemoteSend(s.RunnerGen, msg)>>))
  <2> DEFINE t == maybeStartTurn(s)
             x == effRemoteSend(s.RunnerGen, msg)
  <2>1. t \in State /\ SameCourse(s, t)
    BY TurnCourse
  <2>2. x \in NoRuns
    <3>1. x \in Effect
      BY StateFields, EffectTypes, Zenon DEF Quiet
    <3> QED BY <3>1 DEF NoRuns, RunTypes, effRemoteSend
  <2> HIDE DEF t
  <2>3. s.FSM = "RemoteRunning" /\ Flushed(s) => forwarded(s, t, <<x>> \o <<>>, {msg})
    BY <1>3, <2>1, OneSent, Zenon DEF Flushed, SameCourse
  <2> HIDE DEF x
  <2>4. <<x>> \in Seq(NoRuns) /\ <<x>> \o <<>> = <<x>>
    BY <2>2
  <2>5. Ret(t, <<x>>).st = t /\ Ret(t, <<x>>).eff = <<x>>
    BY DEF Ret
  <2>6. s.FSM = "RemoteRunning" => Fine(Ret(t, <<x>>))
    BY <2>1, <2>3, <2>4, <2>5, Zenon DEF Fine, Forwards, Flushed, SameCourse, Steers, Drifts
  <2> QED BY <2>6, Zenon DEF t, x
<1>6. s.FSM # "RemoteRunning" => Fine(Ret(b, <<>>))
  <2>1. forwarded(s, b, <<>>, {msg})
    BY <1>1, <1>3, NothingSent, Zenon
  <2>2. Ret(b, <<>>).st = b /\ Ret(b, <<>>).eff = <<>>
    BY DEF Ret
  <2> QED BY <1>1, <1>3, <2>1, <2>2, Zenon DEF Fine, Forwards, Flushed, Steers, Drifts
<1>7. ASSUME NEW n \in State, NEW e \in Seq(NoSends),
             n.PendingRemoteSends = b.PendingRemoteSends,
             n.RunnerGen = b.RunnerGen + 1, Starts(n, e)
      PROVE  Fine(Ret(n, e))
  BY <1>1, <1>7, StartsCourse, Zenon DEF Fine
<1>8. ASSUME NEW n \in State, NEW e, Fine(Ret(n, e))
      PROVE  Fine(Ret(maybeStartTurn(n), e))
  BY <1>8, TurnCourse, ToCourse, Zenon DEF Fine
<1>9. s.FSM # "RemoteRunning" => Fine(Ret(maybeStartTurn(r.st), r.eff))
  <2>1. CASE r = Ret(b, replyTo(None, "ok"))
    <3>1. r.st = b /\ r.eff = <<>>
      BY <1>3, <2>1 DEF Ret
    <3> QED BY <1>1, <1>6, <1>8, <3>1, Zenon
  <2>2. ASSUME NEW n \in State, NEW e \in Seq(NoSends), r = Ret(n, e),
               n.PendingRemoteSends = b.PendingRemoteSends,
               n.RunnerGen = b.RunnerGen + 1, Starts(n, e)
        PROVE  Fine(Ret(maybeStartTurn(r.st), r.eff))
    <3>1. r.st = n /\ r.eff = e
      BY <2>2 DEF Ret
    <3> QED BY <1>7, <1>8, <2>2, <3>1, Zenon
  <2> QED BY <1>2, <2>1, <2>2, Zenon
<1>10. Fine(reduceInboundUserMessage(s, msg))
  BY <1>1, <1>4, <1>5, <1>6, <1>8, <1>9, Zenon
<1> QED BY <1>10, Zenon DEF Fine

\* cmdSetAgentConfig.
LEMMA SetAgentConfigGoesOn ==
  ASSUME NEW s \in State, NEW in, in.model \in Models \cup {None},
         in.permissionMode \in PermissionModes \cup {None}, in.reply \in Calls \cup {None}
  PROVE  /\ Forwards(s, reduceSetAgentConfig(s, in), {})
         /\ Steers(s, reduceSetAgentConfig(s, in), FALSE)
<1> DEFINE keep(new, old) == IF new = None THEN old ELSE new
           cfg == [model |-> keep(in.model, s.AgentState.config.model),
                   permissionMode |-> keep(in.permissionMode,
                                           s.AgentState.config.permissionMode)]
           n == [s EXCEPT !.AgentState.config = cfg]
           p == persistAgentStateImmediately(refreshAgentStateJSON(n))
           x == effApplyEngineConfig(s.RunnerGen, cfg)
           apply == IF s.FSM = "RemoteRunning" THEN <<x>> ELSE <<>>
           ok == replyTo(in.reply, "ok")
           e == p.eff \o apply \o ok
           Fine(r) == Forwards(s, r, {}) /\ Steers(s, r, FALSE)
<1>1. cfg \in AgentConfig
  <2>1. s.AgentState.config.model \in Models
        /\ s.AgentState.config.permissionMode \in PermissionModes
    BY StateFields, AgentStateFields
  <2>2. keep(in.model, s.AgentState.config.model) \in Models
        /\ keep(in.permissionMode, s.AgentState.config.permissionMode) \in PermissionModes
    BY <2>1
  <2> QED BY <2>2, Zenon DEF AgentConfig
<1> HIDE DEF cfg
<1>2. /\ n \in State /\ n.FSM = s.FSM /\ n.RunnerGen = s.RunnerGen
      /\ n.PendingRemoteSends = s.PendingRemoteSends /\ n.AgentState.config = cfg
  <2>1. [s.AgentState EXCEPT !.config = cfg] \in AgentState
        /\ [s.AgentState EXCEPT !.config = cfg].config = cfg
    BY <1>1, StateFields, Zenon DEF AgentState
  <2> QED BY <2>1, Zenon DEF State
<1> HIDE DEF n
<1>3. Unmoved(n, p)
  BY <1>2, PublishCourse, Zenon DEF SameCourse
<1>4. p.st \in State
  BY <1>2, RevisionCourse, StateFields, PersistNowType, Zenon
     DEF SameCourse, Keeps, Follows, Handled, WellTyped
<1> HIDE DEF p
<1>5. /\ p.st.FSM = s.FSM /\ p.st.RunnerGen = s.RunnerGen
      /\ p.st.PendingRemoteSends = s.PendingRemoteSends /\ p.st.AgentState.config = cfg
      /\ p.eff \in Seq(Minor)
  BY <1>2, <1>3, Zenon DEF Unmoved, SameCourse
<1>6. ok \in Seq(Minor) /\ replyTo(in.reply, "err") \in Seq(Minor)
  BY RepliesMinor DEF Results
<1>7. x \in NoSends /\ x = effApplyEngineConfig(p.st.RunnerGen, p.st.AgentState.config)
  <2>1. x \in Effect /\ x.type = "ApplyEngineConfig"
    BY <1>1, StateFields, EffectTypes DEF Quiet, effApplyEngineConfig
  <2>2. x = effApplyEngineConfig(p.st.RunnerGen, p.st.AgentState.config)
    BY <1>5
  <2> HIDE DEF x
  <2> QED BY <2>1, <2>2 DEF NoSends, Sends
<1> HIDE DEF x, ok
<1>8. /\ ok \in Seq(NoSends) /\ ok \in Seq(NoRuns)
      /\ p.eff \in Seq(NoSends) /\ p.eff \in Seq(NoRuns)
      /\ <<>> \in Seq(NoSends) /\ <<>> \in Seq(NoRuns) /\ <<x>> \in Seq(NoSends)
  BY <1>5, <1>6, <1>7, MinorAmong, SeqType, Zenon
<1>9. Forwards(s, Ret(p.st, e), {})
  <2>1. e \in Seq(NoSends)
    BY <1>8, SeqType, Zenon
  <2> HIDE DEF e
  <2>2. forwarded(s, p.st, e, {})
    BY <1>4, <1>5, <2>1, NothingSent, Zenon
  <2>3. Ret(p.st, e).st = p.st /\ Ret(p.st, e).eff = e
    BY DEF Ret
  <2> QED BY <1>5, <2>2, <2>3, Zenon DEF Forwards, Flushed
<1>10. Steers(s, Ret(p.st, e), FALSE)
  <2>1. CASE s.FSM = "RemoteRunning"
    <3>1. e = p.eff \o <<x>> \o ok
      BY <2>1
    <3> HIDE DEF e
    <3>2. Ret(p.st, e).st = p.st /\ Ret(p.st, e).eff = e
      BY DEF Ret
    <3> QED BY <1>5, <1>7, <1>8, <2>1, <3>1, <3>2, Zenon DEF Steers, Configures
  <2>2. CASE s.FSM # "RemoteRunning"
    <3>1. apply \in Seq(NoRuns)
      BY <1>8, <2>2, Zenon
    <3> HIDE DEF apply
    <3>2. e \in Seq(NoRuns)
      BY <1>8, <3>1, SeqType, Zenon
    <3> HIDE DEF e
    <3>3. Ret(p.st, e).st = p.st /\ Ret(p.st, e).eff = e
      BY DEF Ret
    <3> QED BY <1>5, <2>2, <3>2, <3>3, Zenon DEF Steers, Drifts
  <2> QED BY <2>1, <2>2
<1>11. Fine(Ret(s, replyTo(in.reply, "err"))) /\ Fine(Ret(s, ok))
  <2>1. ASSUME NEW q \in Seq(Minor)
        PROVE  Fine(Ret(s, q))
    <3>1. Unmoved(s, Ret(s, q)) /\ Ret(s, q).st \in State
      BY RetUnmoved, Zenon DEF SameCourse, Ret
    <3> QED BY <3>1, UnmovedGoesOn, Zenon
  <2> QED BY <1>6, <2>1, Zenon
<1> HIDE DEF e
<1>12. Fine(Ret(p.st, e))
  BY <1>9, <1>10, Zenon
<1>13. \/ reduceSetAgentConfig(s, in) = Ret(s, replyTo(in.reply, "err"))
       \/ reduceSetAgentConfig(s, in) = Ret(s, ok)
       \/ reduceSetAgentConfig(s, in) = Ret(p.st, e)
  <2>1. CASE s.Mode # "remote" \/ s.AgentState.controlledByUser
    BY <2>1, Zenon DEF reduceSetAgentConfig
  <2>2. CASE /\ ~(s.Mode # "remote" \/ s.AgentState.controlledByUser)
             /\ cfg = s.AgentState.config
    BY <2>2, Zenon DEF reduceSetAgentConfig, cfg, ok
  <2>3. CASE /\ ~(s.Mode # "remote" \/ s.AgentState.controlledByUser)
             /\ cfg # s.AgentState.config
    BY <2>3, Zenon DEF reduceSetAgentConfig, cfg, n, p, x, ok, e
  <2> QED BY <2>1, <2>2, <2>3
<1> HIDE DEF Fine
<1>14. Fine(reduceSetAgentConfig(s, in))
  BY <1>11, <1>12, <1>13, Zenon
<1> QED BY <1>14, Zenon DEF Fine

----------------------------------------------------------------------------
(* One turn of the loop.                                                   *)

messagesIn(in) == IF in.type \in MessageInputs THEN {in.msg} ELSE {}
readyFor(s, in) == in.type = "evRunnerReady" /\ in.mode = "remote" /\ in.gen = s.RunnerGen

Gone(e) ==
  /\ inbox # <<>>
  /\ inbox' = Tail(inbox)
  /\ effects' = effects \o e
  /\ Forwards(st, Ret(st', e), messagesIn(In))
  /\ Steers(st, Ret(st', e), readyFor(st, In))

GoesOn == \E e \in Seq(Effect) : Gone(e)

\* What steers returns effects.
LEMMA SteersType ==
  ASSUME NEW s, NEW r, r.st.RunnerGen \in Nat, r.st.AgentState.config \in AgentConfig,
         NEW ready, Steers(s, r, ready)
  PROVE  r.eff \in Seq(Effect)
<1>1. \A a \in Seq(NoRuns) : a \in Seq(Effect)
  <2>1. NoRuns \subseteq Effect
    BY DEF NoRuns
  <2> QED BY <2>1, SeqMonotonic
<1>2. ASSUME NEW a \in Seq(NoRuns), NEW b \in Seq(NoRuns), NEW x \in Effect
      PROVE  a \o <<x>> \o b \in Seq(Effect)
  BY <1>1, SeqType, Zenon
<1>3. effApplyEngineConfig(r.st.RunnerGen, r.st.AgentState.config) \in Effect
  BY EffectTypes, Zenon DEF Quiet
<1> QED BY <1>1, <1>2, <1>3, Zenon DEF Steers, Drifts, Restarts, Starts, Configures

\* A handler that forwards and steers makes a turn of that kind.
LEMMA HandleGoesOn ==
  ASSUME st' \in State, NEW t, NEW r, Handle(t, r), NEW X, X \subseteq messagesIn(In),
         NEW b \in BOOLEAN, b => readyFor(st, In), Forwards(st, r, X), Steers(st, r, b)
  PROVE  GoesOn
<1>1. r.st = st' /\ Ret(st', r.eff).st = st' /\ Ret(st', r.eff).eff = r.eff
  BY DEF Handle, Ret
<1>2. Forwards(st, Ret(st', r.eff), messagesIn(In))
  BY <1>1, Zenon DEF Forwards, forwarded
<1>3. Steers(st, Ret(st', r.eff), readyFor(st, In))
  BY <1>1, Zenon DEF Steers, Drifts, Restarts, Configures
<1>4. r.eff \in Seq(Effect)
  <2>1. r.st.RunnerGen \in Nat /\ r.st.AgentState.config \in AgentConfig
    BY <1>1, StateFields, AgentStateFields
  <2> QED BY <2>1, SteersType, Zenon
<1>5. Gone(r.eff)
  BY <1>2, <1>3, Zenon DEF Gone, Handle
<1> QED BY <1>4, <1>5, Zenon DEF GoesOn

\* A handler that has nothing to do with the agents makes one, too.
LEMMA HandleUnmoved ==
  ASSUME st \in State, st' \in State, NEW t, NEW r, Handle(t, r), Unmoved(st, r)
  PROVE  GoesOn
<1>1. r.st \in State
  BY DEF Handle
<1>2. Forwards(st, r, {}) /\ Steers(st, r, FALSE)
  BY <1>1, UnmovedGoesOn, Zenon
<1> QED BY <1>2, HandleGoesOn, Zenon

\* Every turn of the loop.
LEMMA ReduceGoesOn ==
  ASSUME ActorTypeOK, Reduce
  PROVE  GoesOn
<1>1. st' \in State /\ st \in State
  BY ReduceType DEF ActorTypeOK
<1>2. {} \subseteq messagesIn(In)
  OBVIOUS
<1>3. CASE ReduceSwitchMode
  <2>1. Forwards(st, reduceSwitchMode(st, In.target, In.reply), {})
        /\ Steers(st, reduceSwitchMode(st, In.target, In.reply), FALSE)
    BY <1>3, HandledInput, InputFields, SwitchModeGoesOn DEF ReduceSwitchMode
  <2> QED BY <1>1, <1>2, <1>3, <2>1, HandleGoesOn, Zenon DEF ReduceSwitchMode
<1>4. CASE ReduceDesktopTakeback
  <2>1. Forwards(st, reduceSwitchMode(st, "local", None), {})
        /\ Steers(st, reduceSwitchMode(st, "local", None), FALSE)
    BY <1>1, SwitchModeGoesOn DEF Modes
  <2> QED BY <1>1, <1>2, <1>4, <2>1, HandleGoesOn, Zenon DEF ReduceDesktopTakeback
<1>5. CASE ReduceRunnerReady
  <2> DEFINE b == In.mode = "remote" /\ In.gen = st.RunnerGen
  <2>1. Forwards(st, reduceRunnerReady(st, In), {}) /\ Steers(st, reduceRunnerReady(st, In), b)
    BY <1>5, HandledInput, InputFields, RunnerReadyGoesOn DEF ReduceRunnerReady
  <2>2. b \in BOOLEAN /\ (b => readyFor(st, In))
    BY <1>5, HandledInput DEF ReduceRunnerReady, readyFor
  <2> HIDE DEF b
  <2> QED BY <1>1, <1>2, <1>5, <2>1, <2>2, HandleGoesOn, Zenon DEF ReduceRunnerReady
<1>6. CASE ReduceRunnerExited
  <2>1. Forwards(st, reduceRunnerExited(st, In), {})
        /\ Steers(st, reduceRunnerExited(st, In), FALSE)
    BY <1>6, HandledInput, InputFields, RunnerExitedGoesOn DEF ReduceRunnerExited
  <2> QED BY <1>1, <1>2, <1>6, <2>1, HandleGoesOn, Zenon DEF ReduceRunnerExited
<1>7. CASE ReduceShutdown
  <2>1. Forwards(st, reduceShutdown(st), {}) /\ Steers(st, reduceShutdown(st), FALSE)
    BY <1>1, ShutdownGoesOn
  <2> QED BY <1>1, <1>2, <1>7, <2>1, HandleGoesOn, Zenon DEF ReduceShutdown
<1>8. CASE ReduceInboundUserMessage
  <2>1. Forwards(st, reduceInboundUserMessage(st, In.msg), {In.msg})
        /\ Steers(st, reduceInboundUserMessage(st, In.msg), FALSE)
    BY <1>8, HandledInput, InputFields, InboundGoesOn DEF ReduceInboundUserMessage
  <2>2. {In.msg} \subseteq messagesIn(In)
    BY <1>8, HandledInput DEF ReduceInboundUserMessage, messagesIn, MessageInputs
  <2> QED BY <1>1, <1>8, <2>1, <2>2, HandleGoesOn, Zenon DEF ReduceInboundUserMessage
<1>9. CASE ReduceRemoteSend
  <2>1. Forwards(st, reduceRemoteSend(st, In.msg, In.reply), {In.msg})
        /\ Steers(st, reduceRemoteSend(st, In.msg, In.reply), FALSE)
    BY <1>9, HandledInput, InputFields, RemoteSendGoesOn DEF ReduceRemoteSend
  <2>2. {In.msg} \subseteq messagesIn(In)
    BY <1>9, HandledInput DEF ReduceRemoteSend, messagesIn, MessageInputs
  <2> QED BY <1>1, <1>9, <2>1, <2>2, HandleGoesOn, Zenon DEF ReduceRemoteSend
<1>10. CASE ReduceSetAgentConfig
  <2>1. Forwards(st, reduceSetAgentConfig(st, In), {})
        /\ Steers(st, reduceSetAgentConfig(st, In), FALSE)
    BY <1>10, HandledInput, InputFields, SetAgentConfigGoesOn DEF ReduceSetAgentConfig
  <2> QED BY <1>1, <1>2, <1>10, <2>1, HandleGoesOn, Zenon DEF ReduceSetAgentConfig
<1>11. CASE ReduceAbortRemote
  <2>1. Unmoved(st, reduceAbortRemote(st, In.reply))
    BY <1>11, HandledInput, InputFields, PlainUnmoved DEF ReduceAbortRemote
  <2> QED BY <1>1, <1>11, <2>1, HandleUnmoved, Zenon DEF ReduceAbortRemote
<1>12. CASE ReduceEngineWorking
  <2>1. Unmoved(st, reduceEngineWorking(st, In))
    BY <1>1, PlainUnmoved
  <2> QED BY <1>1, <1>12, <2>1, HandleUnmoved, Zenon DEF ReduceEngineWorking
<1>13. CASE ReduceEngineSessionIdentified
  <2>1. Unmoved(st, reduceEngineSessionIdentified(st, In))
    BY <1>13, HandledInput, InputFields, IdentifiedUnmoved DEF ReduceEngineSessionIdentified
  <2> QED BY <1>1, <1>13, <2>1, HandleUnmoved, Zenon DEF ReduceEngineSessionIdentified
<1>14. CASE ReducePermissionAwait
  <2>1. Unmoved(st, reducePermissionAwait(st, In))
    BY <1>14, HandledInput, InputFields, AwaitUnmoved DEF ReducePermissionAwait
  <2> QED BY <1>1, <1>14, <2>1, HandleUnmoved, Zenon DEF ReducePermissionAwait
<1>15. CASE ReducePermissionDecision
  <2>1. Unmoved(st, reducePermissionDecision(st, In))
    BY <1>15, HandledInput, InputFields, DecisionUnmoved DEF ReducePermissionDecision
  <2> QED BY <1>1, <1>15, <2>1, HandleUnmoved, Zenon DEF ReducePermissionDecision
<1>16. CASE ReducePersistAgentStateImmediate
  <2>1. Unmoved(st, reducePersistAgentStateImmediate(st, In.doc))
    BY <1>16, HandledInput, InputFields, PersistenceUnmoved DEF ReducePersistAgentStateImmediate
  <2> QED BY <1>1, <1>16, <2>1, HandleUnmoved, Zenon DEF ReducePersistAgentStateImmediate
<1>17. CASE ReduceWaitForAgentStatePersist
  <2>1. Unmoved(st, reduceWaitForAgentStatePersist(st, In.reply))
    BY <1>17, HandledInput, InputFields, PersistenceUnmoved DEF ReduceWaitForAgentStatePersist
  <2> QED BY <1>1, <1>17, <2>1, HandleUnmoved, Zenon DEF ReduceWaitForAgentStatePersist
<1>18. CASE ReduceAgentStatePersisted
  <2>1. Unmoved(st, reduceAgentStatePersisted(st, In))
    BY <1>1, PersistenceUnmoved
  <2> QED BY <1>1, <1>18, <2>1, HandleUnmoved, Zenon DEF ReduceAgentStatePersisted
<1>19. CASE ReduceAgentStateVersionMismatch
  <2>1. Unmoved(st, reduceAgentStateVersionMismatch(st, In))
    BY <1>19, HandledInput, InputFields, PersistenceUnmoved DEF ReduceAgentStateVersionMismatch
  <2> QED BY <1>1, <1>19, <2>1, HandleUnmoved, Zenon DEF ReduceAgentStateVersionMismatch
<1>20. CASE \/ ReduceAgentStatePersistFailed \/ ReduceTimerFired
            \/ ReduceWSConnected \/ ReduceWSDisconnected
  <2>1. /\ Unmoved(st, reduceAgentStatePersistFailed(st)) /\ Unmoved(st, reduceTimerFired(st))
        /\ Unmoved(st, reduceWSConnected(st)) /\ Unmoved(st, reduceWSDisconnected(st))
    BY <1>1, PersistenceUnmoved
  <2> QED BY <1>1, <1>20, <2>1, HandleUnmoved, Zenon
          DEF ReduceAgentStatePersistFailed, ReduceTimerFired, ReduceWSConnected,
              ReduceWSDisconnected
<1> QED BY <1>3, <1>4, <1>5, <1>6, <1>7, <1>8, <1>9, <1>10, <1>11, <1>12, <1>13, <1>14, <1>15,
           <1>16, <1>17, <1>18, <1>19, <1>20 DEF Reduce

----------------------------------------------------------------------------
(* Messages keep their order.                                              *)

\* The message at the i-th place of a stage.
At(k, i, m) ==
  \/ k = 1 /\ i \in DOMAIN dispatched /\ m = dispatched[i]
  \/ k = 2 /\ i \in DOMAIN effects /\ effects[i].type \in Sends /\ m = effects[i].msg
  \/ k = 3 /\ i \in DOMAIN st.PendingRemoteSends /\ m = st.PendingRemoteSends[i]
  \/ k = 4 /\ i \in DOMAIN inbox /\ inbox[i].type \in MessageInputs /\ m = inbox[i].msg

before(k, i, l, j) == k < l \/ (k = l /\ i < j)

Ordered ==
  \A k, i, m, l, j, n :
    At(k, i, m) /\ At(l, j, n) /\ before(k, i, l, j) => m # n /\ arrivedBefore(m, n)

\* Every message on its way has arrived.
Arrived == \A k, i, m : At(k, i, m) => m \in ToSet(arrivals)

MessagesInv == Ordered /\ Arrived /\ Flushed(st)

\* The places in terms of which order is stated.
LEMMA PlacesAt ==
  \A p \in onTheWay : At(p.stage, p.at, p.msg)
<1> SUFFICES ASSUME NEW p \in onTheWay PROVE At(p.stage, p.at, p.msg)
  OBVIOUS
<1>1. ASSUME NEW k, NEW i, NEW m, p = place(k, i, m), At(k, i, m)
      PROVE  At(p.stage, p.at, p.msg)
  <2>1. p.stage = k /\ p.at = i /\ p.msg = m
    BY <1>1 DEF place
  <2> QED BY <1>1, <2>1
<1>2. CASE \E i \in DOMAIN dispatched : p = place(1, i, dispatched[i])
  <2>1. PICK i \in DOMAIN dispatched : p = place(1, i, dispatched[i])
    BY <1>2
  <2>2. At(1, i, dispatched[i])
    BY DEF At
  <2> QED BY <1>1, <2>1, <2>2
<1>3. CASE \E i \in {j \in DOMAIN effects : effects[j].type \in Sends} :
             p = place(2, i, effects[i].msg)
  <2>1. PICK i \in {j \in DOMAIN effects : effects[j].type \in Sends} :
               p = place(2, i, effects[i].msg)
    BY <1>3
  <2>2. At(2, i, effects[i].msg)
    BY <2>1 DEF At
  <2> QED BY <1>1, <2>1, <2>2
<1>4. CASE \E i \in DOMAIN st.PendingRemoteSends : p = place(3, i, st.PendingRemoteSends[i])
  <2>1. PICK i \in DOMAIN st.PendingRemoteSends : p = place(3, i, st.PendingRemoteSends[i])
    BY <1>4
  <2>2. At(3, i, st.PendingRemoteSends[i])
    BY DEF At
  <2> QED BY <1>1, <2>1, <2>2
<1>5. CASE \E i \in {j \in DOMAIN inbox : inbox[j].type \in MessageInputs} :
             p = place(4, i, inbox[i].msg)
  <2>1. PICK i \in {j \in DOMAIN inbox : inbox[j].type \in MessageInputs} :
               p = place(4, i, inbox[i].msg)
    BY <1>5
  <2>2. At(4, i, inbox[i].msg)
    BY <2>1 DEF At
  <2> QED BY <1>1, <2>1, <2>2
<1> QED BY <1>2, <1>3, <1>4, <1>5, Zenon DEF onTheWay

\* Ordered places are what the session promises of its messages.
LEMMA OrderedInOrder == Ordered => InOrderOnce
<1> SUFFICES ASSUME Ordered, NEW p \in onTheWay, NEW q \in onTheWay, ahead(p, q)
             PROVE  p.msg # q.msg /\ arrivedBefore(p.msg, q.msg)
  BY Zenon DEF InOrderOnce
<1>1. At(p.stage, p.at, p.msg) /\ At(q.stage, q.at, q.msg)
  BY PlacesAt
<1>2. before(p.stage, p.at, q.stage, q.at)
  BY Zenon DEF ahead, before
<1> QED BY <1>1, <1>2, Zenon DEF Ordered

\* The messages a turn sends and keeps, by number: those that were kept, and
\* then perhaps the one that has come in.
LEMMA ForwardedMessages ==
  ASSUME NEW s \in State, NEW n \in State, NEW X, NEW q \in Seq(Sending),
         msgsOf(q) \o n.PendingRemoteSends
           \in {s.PendingRemoteSends} \cup {Append(s.PendingRemoteSends, m) : m \in X},
         NEW LQ, LQ = Len(q), NEW LB, LB = Len(s.PendingRemoteSends)
  PROVE  /\ LQ \in Nat /\ LB \in Nat
         /\ \A t \in 1..LQ : /\ t <= LB => q[t].msg = s.PendingRemoteSends[t]
                             /\ t > LB => t = LB + 1 /\ q[t].msg \in X
         /\ \A i \in DOMAIN n.PendingRemoteSends :
              /\ i \in Nat \ {0}
              /\ LQ + i <= LB =>
                   n.PendingRemoteSends[i] = s.PendingRemoteSends[LQ + i]
              /\ LQ + i > LB => LQ + i = LB + 1 /\ n.PendingRemoteSends[i] \in X
<1> DEFINE ps == s.PendingRemoteSends
           ns == n.PendingRemoteSends
           mq == msgsOf(q)
           all == mq \o ns
<1>1. ps \in Seq(Messages) /\ ns \in Seq(Messages)
  BY StateFields
<1>2. LQ \in Nat /\ mq = [i \in 1..LQ |-> q[i].msg]
  BY DEF msgsOf
<1> HIDE DEF ps, ns, mq
<1>3. mq \in Seq({q[i].msg : i \in 1..LQ}) /\ Len(mq) = LQ /\ \A t \in 1..LQ : mq[t] = q[t].msg
  <2> HIDE DEF msgsOf
  <2> QED BY SMTT(40), <1>2
<1>4. \E x : all = ps \/ (x \in X /\ all = Append(ps, x))
  BY Zenon DEF ps, ns, mq
<1>5. PICK x : all = ps \/ (x \in X /\ all = Append(ps, x))
  BY <1>4
<1>6. /\ \A t \in 1..LQ : all[t] = q[t].msg
      /\ \A i \in DOMAIN ns : all[LQ + i] = ns[i]
      /\ Len(all) = LQ + Len(ns) /\ DOMAIN ns = 1..Len(ns) /\ Len(ns) \in Nat
  <2> DEFINE T == {q[i].msg : i \in 1..LQ} \cup Messages
  <2>1. mq \in Seq(T) /\ ns \in Seq(T)
    BY <1>1, <1>3, SeqMonotonic
  <2> HIDE DEF T
  <2> QED BY <1>2, <1>3, <2>1
<1>7. LB \in Nat /\ LB = Len(ps)
  BY <1>1 DEF ps
<1> HIDE DEF all
<1>8. /\ Len(all) <= LB + 1
      /\ \A t \in 1..Len(all) : /\ t <= LB => all[t] = ps[t]
                                /\ t > LB => t = LB + 1 /\ all[t] \in X
  BY <1>1, <1>5, <1>7
<1>9. \A t \in 1..LQ : t \in 1..Len(all)
  BY <1>2, <1>6
<1>10. \A i \in DOMAIN ns : LQ + i \in 1..Len(all) /\ i \in Nat \ {0}
  BY <1>2, <1>6
<1>11. \A t \in 1..LQ : /\ t <= LB => q[t].msg = ps[t]
                        /\ t > LB => t = LB + 1 /\ q[t].msg \in X
  BY <1>6, <1>8, <1>9, Zenon
<1>12. \A i \in DOMAIN ns : /\ LQ + i <= LB => ns[i] = ps[LQ + i]
                            /\ LQ + i > LB => LQ + i = LB + 1 /\ ns[i] \in X
  BY <1>6, <1>8, <1>10, Zenon
<1> QED BY <1>2, <1>7, <1>10, <1>11, <1>12, Zenon DEF ps, ns

\* What a concatenation holds.
Joins(w, p, q) ==
  /\ Len(w) = Len(p) + Len(q) /\ Len(p) \in Nat /\ Len(q) \in Nat
  /\ \A i \in DOMAIN w :
       /\ i \in Nat \ {0}
       /\ i <= Len(p) => i \in DOMAIN p /\ w[i] = p[i]
       /\ i > Len(p) => i - Len(p) \in DOMAIN q /\ w[i] = q[i - Len(p)]

\* The places of a joined sequence are those of its parts.
LEMMA Joined ==
  ASSUME NEW S, NEW p \in Seq(S), NEW q \in Seq(S)
  PROVE  p \o q \in Seq(S) /\ Joins(p \o q, p, q)
BY DEF Joins

\* The effects of a turn that send: those that were queued, and the new ones.
SentAt(f, a, q, g, i) ==
  /\ i \in Nat \ {0}
  /\ i <= Len(f) => i \in DOMAIN f /\ g[i] = f[i]
  /\ i > Len(f) => /\ i - Len(f) - Len(a) \in 1..Len(q)
                   /\ g[i] = q[i - Len(f) - Len(a)]

\* Where the sending effects of a turn come to stand in the queue.
LEMMA SendingEffects ==
  ASSUME NEW f \in Seq(Effect), NEW a \in Seq(NoSends), NEW b \in Seq(NoSends),
         NEW q \in Seq(Sending), NEW g, g = f \o (a \o q \o b),
         NEW i \in DOMAIN g, g[i].type \in Sends
  PROVE  SentAt(f, a, q, g, i)
<1> DEFINE c == a \o q
           d == c \o b
<1>1. NoSends \subseteq Effect /\ Sending \subseteq Effect
  BY DEF NoSends, Sending
<1>2. a \in Seq(Effect) /\ b \in Seq(Effect) /\ q \in Seq(Effect)
  BY <1>1, SeqMonotonic
<1>3. /\ \A j \in DOMAIN a : a[j].type \notin Sends
      /\ \A j \in DOMAIN b : b[j].type \notin Sends
      /\ DOMAIN q = 1..Len(q)
  BY DEF NoSends
<1>4. c \in Seq(Effect) /\ Joins(c, a, q)
  BY <1>2, Joined, Zenon
<1> HIDE DEF c
<1>5. d \in Seq(Effect) /\ Joins(d, c, b)
  BY <1>2, <1>4, Joined, Zenon
<1>6. g = f \o d
  BY DEF c
<1> HIDE DEF d
<1>7. Joins(g, f, d)
  BY <1>5, <1>6, Joined, Zenon
<1>8. ASSUME i > Len(f)
      PROVE  i - Len(f) - Len(a) \in 1..Len(q) /\ g[i] = q[i - Len(f) - Len(a)]
  <2> DEFINE j == i - Len(f)
  <2>1. j \in DOMAIN d /\ g[i] = d[j]
    BY <1>7, <1>8 DEF Joins
  <2> HIDE DEF j
  <2>2. j \in DOMAIN c /\ d[j] = c[j]
    <3>1. j > Len(c) => j - Len(c) \in DOMAIN b /\ d[j] = b[j - Len(c)]
      BY <1>5, <2>1 DEF Joins
    <3>2. ~(j > Len(c))
      BY <1>3, <2>1, <3>1
    <3> QED BY <1>5, <2>1, <3>2 DEF Joins
  <2>3. j - Len(a) \in DOMAIN q /\ c[j] = q[j - Len(a)]
    <3>1. j <= Len(a) => j \in DOMAIN a /\ c[j] = a[j]
      BY <1>4, <2>2 DEF Joins
    <3>2. ~(j <= Len(a))
      BY <1>3, <2>1, <2>2, <3>1
    <3> QED BY <1>4, <2>2, <3>2 DEF Joins
  <2> QED BY <1>3, <2>1, <2>2, <2>3 DEF j
<1> QED BY <1>4, <1>7, <1>8 DEF Joins, SentAt

\* A turn of the loop keeps the messages in order.
LEMMA TurnKeepsMessages ==
  ASSUME ActorTypeOK, ActorTypeOK', MessagesInv, GoesOn, UNCHANGED <<dispatched, arrivals>>,
         dispatched \in Seq(Messages)
  PROVE  MessagesInv'
<1>1. PICK e \in Seq(Effect) : Gone(e)
  BY Zenon DEF GoesOn
<1>2. /\ inbox # <<>> /\ inbox' = Tail(inbox) /\ effects' = effects \o e
      /\ Flushed(st)' /\ forwarded(st, st', e, messagesIn(In))
  <2>1. Ret(st', e).st = st' /\ Ret(st', e).eff = e
    BY DEF Ret
  <2> QED BY <1>1, <2>1, Zenon DEF Gone, Forwards, MessagesInv, Flushed
<1>3. PICK a \in Seq(NoSends), b \in Seq(NoSends), q \in Seq(Sending) :
        /\ e = a \o q \o b
        /\ msgsOf(q) \o st'.PendingRemoteSends
             \in {st.PendingRemoteSends}
                 \cup {Append(st.PendingRemoteSends, m) : m \in messagesIn(In)}
  BY <1>2, Zenon DEF forwarded
<1> DEFINE X == messagesIn(In)
           LE == Len(effects)
           LA == Len(a)
           LQ == Len(q)
           LB == Len(st.PendingRemoteSends)
           from(k, i) == IF k = 3 THEN LQ + i ELSE i - LE - LA
           kept(k, i) == k = 3 \/ (k = 2 /\ i > LE)
           stage(k, i) == IF kept(k, i) THEN (IF from(k, i) <= LB THEN 3 ELSE 4) ELSE k
           index(k, i) == IF kept(k, i) THEN (IF from(k, i) <= LB THEN from(k, i) ELSE 1)
                          ELSE IF k = 4 THEN i + 1 ELSE i
           Fits(k, i) == /\ k \in 1..4 /\ i \in Nat \ {0}
                         /\ k = 2 /\ i > LE => i - LE - LA \in 1..LQ /\ i - LE - LA <= LB + 1
                         /\ k = 3 => LQ + i <= LB + 1
<1>4. st \in State /\ st' \in State /\ effects \in Seq(Effect) /\ inbox \in Seq(Input)
  BY DEF ActorTypeOK
<1>5. LE \in Nat /\ LA \in Nat
  BY <1>4
<1>6. /\ LQ \in Nat /\ LB \in Nat
      /\ \A t \in 1..LQ : /\ t <= LB => q[t].msg = st.PendingRemoteSends[t]
                          /\ t > LB => t = LB + 1 /\ q[t].msg \in X
      /\ \A i \in DOMAIN st'.PendingRemoteSends :
           /\ i \in Nat \ {0}
           /\ LQ + i <= LB =>
                st'.PendingRemoteSends[i] = st.PendingRemoteSends[LQ + i]
           /\ LQ + i > LB => LQ + i = LB + 1 /\ st'.PendingRemoteSends[i] \in X
  BY <1>3, <1>4, ForwardedMessages, Zenon
<1>7. ASSUME NEW m \in X
      PROVE  At(4, 1, m)
  BY <1>2, <1>4, <1>7 DEF messagesIn, In, At
<1>8. ASSUME NEW t \in 1..LB
      PROVE  At(3, t, st.PendingRemoteSends[t])
  BY <1>4, StateFields DEF At
<1>9. ASSUME NEW k, NEW i, NEW m, At(k, i, m)'
      PROVE  At(stage(k, i), index(k, i), m) /\ Fits(k, i)
  <2>1. CASE k = 1 /\ i \in DOMAIN dispatched' /\ m = dispatched'[i]
    BY <2>1 DEF At
  <2>2. CASE k = 2 /\ i \in DOMAIN effects' /\ effects'[i].type \in Sends
             /\ m = effects'[i].msg
    <3>1. /\ i \in Nat \ {0}
          /\ i <= LE => i \in DOMAIN effects /\ effects'[i] = effects[i]
          /\ i > LE => i - LE - LA \in 1..LQ /\ effects'[i] = q[i - LE - LA]
      <4>1. effects' = effects \o (a \o q \o b)
        BY <1>2, <1>3
      <4>2. SentAt(effects, a, q, effects', i)
        BY <1>4, <2>2, <4>1, SendingEffects, Zenon
      <4> QED BY <4>2, Zenon DEF SentAt
    <3>2. CASE i <= LE
      BY <1>5, <2>2, <3>1, <3>2 DEF At
    <3>3. CASE i > LE
      <4> DEFINE t == i - LE - LA
      <4>1. t \in 1..LQ /\ m = q[t].msg
        BY <2>2, <3>1, <3>3
      <4>2. from(k, i) = t /\ kept(k, i)
        BY <2>2, <3>3
      <4> HIDE DEF t, from, kept, X
      <4>3. CASE t <= LB
        <5>1. t \in 1..LB /\ m = st.PendingRemoteSends[t] /\ stage(k, i) = 3 /\ index(k, i) = t
          BY SMTT(40), <1>6, <4>1, <4>2, <4>3
        <5>2. At(3, t, m)
          BY <1>8, <5>1
        <5>3. t <= LB + 1
          BY <1>6, <4>1, <4>3
        <5> QED BY <2>2, <3>1, <4>1, <5>1, <5>2, <5>3 DEF t
      <4>4. CASE ~(t <= LB)
        <5>1. t = LB + 1 /\ m \in X /\ stage(k, i) = 4 /\ index(k, i) = 1
          BY <1>6, <4>1, <4>2, <4>4
        <5>2. At(4, 1, m)
          BY <1>7, <5>1
        <5>3. t <= LB + 1
          BY <1>6, <5>1
        <5> QED BY <2>2, <3>1, <4>1, <5>1, <5>2, <5>3 DEF t
      <4> QED BY <4>3, <4>4
    <3> QED BY <1>5, <3>1, <3>2, <3>3
  <2>3. CASE k = 3 /\ i \in DOMAIN st'.PendingRemoteSends /\ m = st'.PendingRemoteSends[i]
    <3> DEFINE t == LQ + i
    <3>1. from(k, i) = t /\ kept(k, i) /\ i \in Nat \ {0} /\ t \in Nat \ {0}
      BY <1>6, <2>3
    <3>2. /\ t <= LB => m = st.PendingRemoteSends[t]
          /\ t > LB => t = LB + 1 /\ m \in X
      BY <1>6, <2>3, Zenon
    <3> HIDE DEF from, kept, X, t
    <3>3. CASE t <= LB
      <4>1. t \in 1..LB /\ m = st.PendingRemoteSends[t] /\ stage(k, i) = 3 /\ index(k, i) = t
        BY <1>6, <3>1, <3>2, <3>3
      <4>2. At(3, t, m)
        BY <1>8, <4>1
      <4>3. t <= LB + 1
        BY <1>6, <3>1, <3>3
      <4> QED BY <2>3, <3>1, <4>1, <4>2, <4>3 DEF t
    <3>4. CASE ~(t <= LB)
      <4>1. t = LB + 1 /\ m \in X /\ stage(k, i) = 4 /\ index(k, i) = 1
        BY <1>6, <3>1, <3>2, <3>4
      <4>2. At(4, 1, m)
        BY <1>7, <4>1
      <4>3. t <= LB + 1
        BY <1>6, <4>1
      <4> QED BY <2>3, <3>1, <4>1, <4>2, <4>3 DEF t
    <3> QED BY <3>3, <3>4
  <2>4. CASE k = 4 /\ i \in DOMAIN inbox' /\ inbox'[i].type \in MessageInputs
             /\ m = inbox'[i].msg
    <3>1. i \in Nat \ {0} /\ i + 1 \in DOMAIN inbox /\ inbox'[i] = inbox[i + 1]
      BY <1>2, <1>4, <2>4
    <3> QED BY <2>4, <3>1 DEF At
  <2> QED BY <1>9, <2>1, <2>2, <2>3, <2>4 DEF At
<1>10. ASSUME NEW k, NEW i, NEW l, NEW j, Fits(k, i), Fits(l, j), before(k, i, l, j)
       PROVE  before(stage(k, i), index(k, i), stage(l, j), index(l, j))
  <2> HIDE DEF LE, LA, LQ, LB
  <2>1. LQ \in Nat /\ LB \in Nat
    BY <1>6
  <2> QED BY <1>5, <1>10, <2>1 DEF before
<1> HIDE DEF stage, index, Fits
<1>11. Ordered'
  <2> SUFFICES ASSUME NEW k, NEW i, NEW m, NEW l, NEW j, NEW n,
                      At(k, i, m)', At(l, j, n)', before(k, i, l, j)
               PROVE  m # n /\ arrivedBefore(m, n)'
    BY DEF Ordered, before
  <2>1. /\ At(stage(k, i), index(k, i), m) /\ Fits(k, i)
        /\ At(stage(l, j), index(l, j), n) /\ Fits(l, j)
    BY <1>9
  <2>2. before(stage(k, i), index(k, i), stage(l, j), index(l, j))
    BY <1>10, <2>1
  <2>3. m # n /\ arrivedBefore(m, n)
    BY <2>1, <2>2, Zenon DEF MessagesInv, Ordered
  <2> QED BY <2>3 DEF arrivedBefore
<1>12. Arrived'
  <2> SUFFICES ASSUME NEW k, NEW i, NEW m, At(k, i, m)'
               PROVE  m \in ToSet(arrivals)'
    BY DEF Arrived
  <2>1. m \in ToSet(arrivals)
    BY <1>9, Zenon DEF MessagesInv, Arrived
  <2> QED BY <2>1
<1> QED BY <1>2, <1>11, <1>12 DEF MessagesInv

\* What the others do to the mailbox: nothing, a post, or a post of a message
\* that has just arrived.
Posts ==
  \/ UNCHANGED <<inbox, arrivals>>
  \/ /\ UNCHANGED arrivals
     /\ \E in \in Input : in.type \notin MessageInputs /\ inbox' = Append(inbox, in)
  \/ \E in \in Input :
       /\ in.type \in MessageInputs /\ in.msg \notin ToSet(arrivals)
       /\ inbox' = Append(inbox, in) /\ arrivals' = Append(arrivals, in.msg)

\* And to the effects: nothing, or the first one is executed.
Executes ==
  \/ UNCHANGED <<effects, dispatched>>
  \/ /\ effects # <<>> /\ Executed
     /\ \/ UNCHANGED dispatched
        \/ Effect1.type = "RemoteSend" /\ dispatched' = Append(dispatched, Effect1.msg)

Elsewhere == UNCHANGED st /\ Posts /\ Executes

\* The last place of the mailbox, when it holds what has just arrived.
JustArrived(i) ==
  /\ \A j \in DOMAIN inbox' : j <= i
  /\ i \notin DOMAIN inbox
  /\ inbox'[i].msg \notin ToSet(arrivals) /\ inbox'[i].msg \in ToSet(arrivals')
  /\ \A m \in ToSet(arrivals) : \A n : n = inbox'[i].msg => arrivedBefore(m, n)'

\* New places in the mailbox hold what has just arrived.
LEMMA PostedPlaces ==
  ASSUME inbox \in Seq(Input), arrivals \in Seq(Messages), Posts
  PROVE  /\ \A m \in ToSet(arrivals) : m \in ToSet(arrivals')
         /\ \A m, n : arrivedBefore(m, n) => arrivedBefore(m, n)'
         /\ \A i \in DOMAIN inbox' : inbox'[i].type \in MessageInputs =>
              (i \in DOMAIN inbox /\ inbox'[i] = inbox[i]) \/ JustArrived(i)
<1>1. CASE UNCHANGED <<inbox, arrivals>>
  BY <1>1 DEF arrivedBefore
<1>2. CASE UNCHANGED arrivals /\
           \E in \in Input : in.type \notin MessageInputs /\ inbox' = Append(inbox, in)
  BY <1>2 DEF arrivedBefore
<1>3. ASSUME NEW in \in Input, in.type \in MessageInputs, in.msg \notin ToSet(arrivals),
             inbox' = Append(inbox, in), arrivals' = Append(arrivals, in.msg)
      PROVE  /\ \A m \in ToSet(arrivals) : m \in ToSet(arrivals')
             /\ \A m, n : arrivedBefore(m, n) => arrivedBefore(m, n)'
             /\ \A i \in DOMAIN inbox' : inbox'[i].type \in MessageInputs =>
                  (i \in DOMAIN inbox /\ inbox'[i] = inbox[i]) \/ JustArrived(i)
  <2>1. in.msg \in Messages
    BY <1>3, InputFields DEF MessageInputs
  <2> DEFINE n == Len(arrivals) + 1
  <2>2. /\ \A i \in DOMAIN arrivals :
             /\ i \in DOMAIN arrivals' /\ arrivals'[i] = arrivals[i]
             /\ i < n
        /\ n \in DOMAIN arrivals' /\ arrivals'[n] = in.msg
    BY <1>3, <2>1
  <2>3. \A m \in ToSet(arrivals) : m \in ToSet(arrivals')
    BY <2>2, Zenon DEF ToSet
  <2>4. in.msg \in ToSet(arrivals')
    BY <2>2, Zenon DEF ToSet
  <2>5. \A m \in ToSet(arrivals) : \A k : k = in.msg => arrivedBefore(m, k)'
    BY <2>2, Zenon DEF ToSet, arrivedBefore
  <2>6. \A m, k : arrivedBefore(m, k) => arrivedBefore(m, k)'
    <3> SUFFICES ASSUME NEW m, NEW k, arrivedBefore(m, k) PROVE arrivedBefore(m, k)'
      OBVIOUS
    <3>1. PICK i \in DOMAIN arrivals, j \in DOMAIN arrivals :
            i < j /\ arrivals[i] = m /\ arrivals[j] = k
      BY Zenon DEF arrivedBefore
    <3>2. /\ i \in DOMAIN arrivals' /\ j \in DOMAIN arrivals'
          /\ arrivals'[i] = m /\ arrivals'[j] = k
      BY <2>2, <3>1
    <3> QED BY <3>1, <3>2, Zenon DEF arrivedBefore
  <2> HIDE DEF n
  <2>7. ASSUME NEW i \in DOMAIN inbox'
        PROVE  \/ i \in DOMAIN inbox /\ inbox'[i] = inbox[i]
               \/ /\ \A j \in DOMAIN inbox' : j <= i
                  /\ i \notin DOMAIN inbox
                  /\ inbox'[i] = in
    BY <1>3
  <2>8. ASSUME NEW i \in DOMAIN inbox', \A j \in DOMAIN inbox' : j <= i, i \notin DOMAIN inbox,
               inbox'[i] = in
        PROVE  JustArrived(i)
    BY <1>3, <2>4, <2>5, <2>8 DEF JustArrived
  <2> QED BY <2>3, <2>6, <2>7, <2>8, Zenon
<1> QED BY <1>1, <1>2, <1>3, Zenon DEF Posts

\* Where the messages of the effects were before one was executed.
LEMMA ExecutedPlaces ==
  ASSUME effects \in Seq(Effect), dispatched \in Seq(Messages), Executes
  PROVE  \E b \in {0, 1} :
           /\ \A i \in DOMAIN dispatched' :
                /\ i \in Nat \ {0}
                /\ i <= Len(dispatched) => i \in DOMAIN dispatched /\ dispatched'[i] = dispatched[i]
                /\ i > Len(dispatched) =>
                     /\ b = 1 /\ i = Len(dispatched) + 1 /\ 1 \in DOMAIN effects
                     /\ effects[1].type \in Sends /\ dispatched'[i] = effects[1].msg
           /\ \A i \in DOMAIN effects' :
                i \in Nat \ {0} /\ i + b \in DOMAIN effects /\ effects'[i] = effects[i + b]
<1>1. CASE UNCHANGED <<effects, dispatched>>
  <2>1. \A i \in DOMAIN dispatched' :
          /\ i \in Nat \ {0} /\ i <= Len(dispatched)
          /\ i \in DOMAIN dispatched /\ dispatched'[i] = dispatched[i]
    BY <1>1
  <2>2. \A i \in DOMAIN effects' :
          i \in Nat \ {0} /\ i + 0 \in DOMAIN effects /\ effects'[i] = effects[i + 0]
    BY <1>1
  <2>3. Len(dispatched) \in Nat
    OBVIOUS
  <2> WITNESS 0 \in {0, 1}
  <2> QED BY <2>1, <2>2, <2>3
<1>2. CASE /\ effects # <<>> /\ Executed
           /\ \/ UNCHANGED dispatched
              \/ Effect1.type = "RemoteSend" /\ dispatched' = Append(dispatched, Effect1.msg)
  <2>1. 1 \in DOMAIN effects /\ Effect1 = effects[1] /\ Effect1 \in Effect
    BY <1>2 DEF Effect1
  <2>2. Effect1.type = "RemoteSend" => Effect1.msg \in Messages
    BY <2>1, EffectFields
  <2>3. \A i \in DOMAIN effects' :
          i \in Nat \ {0} /\ i + 1 \in DOMAIN effects /\ effects'[i] = effects[i + 1]
    BY <1>2 DEF Executed
  <2>4. \A i \in DOMAIN dispatched' :
          /\ i \in Nat \ {0}
          /\ i <= Len(dispatched) => i \in DOMAIN dispatched /\ dispatched'[i] = dispatched[i]
          /\ i > Len(dispatched) =>
               /\ i = Len(dispatched) + 1
               /\ effects[1].type = "RemoteSend" /\ dispatched'[i] = effects[1].msg
    <3>1. CASE UNCHANGED dispatched
      BY <3>1
    <3>2. CASE Effect1.type = "RemoteSend" /\ dispatched' = Append(dispatched, Effect1.msg)
      BY <2>1, <2>2, <3>2
    <3> QED BY <1>2, <3>1, <3>2
  <2> WITNESS 1 \in {0, 1}
  <2> QED BY <2>1, <2>3, <2>4, Zenon DEF Sends
<1> QED BY <1>1, <1>2 DEF Executes

\* Whatever happens elsewhere keeps the messages in order.
LEMMA ElsewhereKeepsMessages ==
  ASSUME ActorTypeOK, ActorTypeOK', dispatched \in Seq(Messages), arrivals \in Seq(Messages),
         MessagesInv, Elsewhere
  PROVE  MessagesInv'
<1> DEFINE Moved(b) ==
             /\ \A i \in DOMAIN dispatched' :
                  /\ i \in Nat \ {0}
                  /\ i <= Len(dispatched) =>
                       i \in DOMAIN dispatched /\ dispatched'[i] = dispatched[i]
                  /\ i > Len(dispatched) =>
                       /\ b = 1 /\ i = Len(dispatched) + 1 /\ 1 \in DOMAIN effects
                       /\ effects[1].type \in Sends /\ dispatched'[i] = effects[1].msg
             /\ \A i \in DOMAIN effects' :
                  i \in Nat \ {0} /\ i + b \in DOMAIN effects /\ effects'[i] = effects[i + b]
<1>1. /\ inbox \in Seq(Input) /\ effects \in Seq(Effect) /\ st \in State
      /\ Posts /\ Executes /\ UNCHANGED st
  BY DEF ActorTypeOK, Elsewhere
<1>2. \E b \in {0, 1} : Moved(b)
  BY <1>1, ExecutedPlaces, Zenon
<1>3. PICK b \in {0, 1} : Moved(b)
  BY <1>2
<1>4. /\ \A m \in ToSet(arrivals) : m \in ToSet(arrivals')
      /\ \A m, n : arrivedBefore(m, n) => arrivedBefore(m, n)'
      /\ \A i \in DOMAIN inbox' : inbox'[i].type \in MessageInputs =>
           (i \in DOMAIN inbox /\ inbox'[i] = inbox[i]) \/ JustArrived(i)
  BY <1>1, PostedPlaces, Zenon
<1> DEFINE LD == Len(dispatched)
           ex(k, i) == k = 1 /\ i > LD
           stage(k, i) == IF ex(k, i) THEN 2 ELSE k
           index(k, i) == IF ex(k, i) THEN 1 ELSE IF k = 2 THEN i + b ELSE i
           Fits(k, i) == /\ k \in 1..4 /\ i \in Nat \ {0}
                         /\ k = 1 => i <= LD \/ (b = 1 /\ i = LD + 1)
           Old(k, i, m) == At(stage(k, i), index(k, i), m) /\ Fits(k, i)
           Fresh(k, i, m) == k = 4 /\ JustArrived(i) /\ m = inbox'[i].msg
<1>5. LD \in Nat
  OBVIOUS
<1>6. ASSUME NEW k, NEW i, NEW m, At(k, i, m)'
      PROVE  Old(k, i, m) \/ Fresh(k, i, m)
  <2>1. CASE k = 1 /\ i \in DOMAIN dispatched' /\ m = dispatched'[i]
    <3>1. /\ i \in Nat \ {0}
          /\ i <= LD => i \in DOMAIN dispatched /\ dispatched'[i] = dispatched[i]
          /\ i > LD => /\ b = 1 /\ i = LD + 1 /\ 1 \in DOMAIN effects
                       /\ effects[1].type \in Sends /\ dispatched'[i] = effects[1].msg
      BY <1>3, <2>1, Zenon
    <3> HIDE DEF LD
    <3> QED BY <1>5, <2>1, <3>1 DEF At
  <2>2. CASE k = 2 /\ i \in DOMAIN effects' /\ effects'[i].type \in Sends
             /\ m = effects'[i].msg
    <3>1. i \in Nat \ {0} /\ i + b \in DOMAIN effects /\ effects'[i] = effects[i + b]
      BY <1>3, <2>2, Zenon
    <3> QED BY <2>2, <3>1 DEF At
  <2>3. CASE k = 3 /\ i \in DOMAIN st'.PendingRemoteSends /\ m = st'.PendingRemoteSends[i]
    <3>1. i \in Nat \ {0}
      BY <1>1, <2>3, StateFields
    <3> QED BY <1>1, <2>3, <3>1 DEF At
  <2>4. CASE k = 4 /\ i \in DOMAIN inbox' /\ inbox'[i].type \in MessageInputs
             /\ m = inbox'[i].msg
    <3>1. (i \in DOMAIN inbox /\ inbox'[i] = inbox[i]) \/ JustArrived(i)
      BY <1>4, <2>4, Zenon
    <3>2. CASE i \in DOMAIN inbox /\ inbox'[i] = inbox[i]
      <4>1. i \in Nat \ {0}
        BY <1>1, <3>2
      <4> QED BY <2>4, <3>2, <4>1 DEF At
    <3> QED BY <2>4, <3>1, <3>2
  <2> QED BY <1>6, <2>1, <2>2, <2>3, <2>4 DEF At
<1>7. ASSUME NEW k, NEW i, NEW l, NEW j, Fits(k, i), Fits(l, j), before(k, i, l, j)
      PROVE  before(stage(k, i), index(k, i), stage(l, j), index(l, j))
  <2> HIDE DEF LD
  <2> QED BY <1>5, <1>7 DEF before
<1>8. ASSUME NEW k, NEW i, NEW m, Old(k, i, m)
      PROVE  m \in ToSet(arrivals)
  BY <1>8, Zenon DEF MessagesInv, Arrived
<1>9. Ordered'
  <2> SUFFICES ASSUME NEW k, NEW i, NEW m, NEW l, NEW j, NEW n,
                      At(k, i, m)', At(l, j, n)', before(k, i, l, j)
               PROVE  m # n /\ arrivedBefore(m, n)'
    BY DEF Ordered, before
  <2>1. Old(k, i, m) \/ Fresh(k, i, m)
    BY <1>6
  <2>2. Old(l, j, n) \/ Fresh(l, j, n)
    BY <1>6
  <2>3. CASE Old(k, i, m) /\ Old(l, j, n)
    <3>1. before(stage(k, i), index(k, i), stage(l, j), index(l, j))
      BY <1>7, <2>3
    <3> HIDE DEF stage, index, Fits
    <3>2. m # n /\ arrivedBefore(m, n)
      BY <2>3, <3>1, Zenon DEF MessagesInv, Ordered
    <3> QED BY <1>4, <3>2, Zenon
  <2>4. CASE Old(k, i, m) /\ Fresh(l, j, n)
    BY <1>8, <2>4, Zenon DEF JustArrived
  <2>5. CASE Fresh(k, i, m)
    <3>1. k = 4 /\ \A t \in DOMAIN inbox' : t <= i
      BY <2>5, Zenon DEF JustArrived
    <3>2. l = 4 /\ j \in DOMAIN inbox' /\ j > i
      <4>1. l \in 1..4 /\ (l = 4 => j \in DOMAIN inbox')
        BY DEF At
      <4> QED BY <3>1, <4>1 DEF before
    <3>3. i \in DOMAIN inbox'
      BY <3>1 DEF At
    <3>4. inbox' \in Seq(Input)
      BY DEF ActorTypeOK
    <3>5. i \in Nat /\ j \in Nat
      BY <3>2, <3>3, <3>4
    <3> QED BY <3>1, <3>2, <3>5
  <2> QED BY <2>1, <2>2, <2>3, <2>4, <2>5
<1>10. Arrived'
  <2> SUFFICES ASSUME NEW k, NEW i, NEW m, At(k, i, m)'
               PROVE  m \in ToSet(arrivals')
    BY DEF Arrived
  <2>1. Old(k, i, m) \/ Fresh(k, i, m)
    BY <1>6
  <2> QED BY <1>4, <1>8, <2>1, Zenon DEF JustArrived
<1>11. Flushed(st)'
  BY <1>1, Zenon DEF MessagesInv, Flushed
<1> QED BY <1>9, <1>10, <1>11 DEF MessagesInv

\* A post of anything but a message, and a post of a message.
LEMMA PostKinds ==
  ASSUME NEW in \in Input, Post(in)
  PROVE  /\ in.type \notin MessageInputs /\ UNCHANGED arrivals => Posts
         /\ in.type \in MessageInputs /\ in.msg \notin ToSet(arrivals)
            /\ arrivals' = Append(arrivals, in.msg) => Posts
BY Zenon DEF Post, Posts

\* An effect of any other kind is executed.
LEMMA ExecuteKinds ==
  ASSUME NEW t, NextEffect(t), Executed, UNCHANGED dispatched
  PROVE  Executes
BY Zenon DEF NextEffect, Executes

\* The steps outside the loop.
LEMMA RuntimeElsewhere ==
  ASSUME TypeOK, StartHeld, engineOnly,
         EngineStep \/ SendSucceeds \/ (\E x \in sending : SendFails(x)) \/ EngineStimulus
  PROVE  Elsewhere
<1>1. UNCHANGED arrivals /\ ActorTypeOK /\ EngineTypeOK
  BY DEF engineOnly, managerVars, TypeOK
<1>2. CASE StopEngineLocal \/ StopEngineRemote
  BY <1>1, <1>2 DEF StopEngineLocal, StopEngineRemote, stopEngine, sendVars, NextEffect, Elsewhere,
                    Posts, Executes
<1>3. CASE StartEngine
  BY <1>1, <1>3 DEF StartEngine, sendVars, actorVars, Elsewhere, Posts, Executes
<1>4. CASE EngineStarted
  <2>1. effects # <<>>
    BY <1>4 DEF StartHeld, EngineStarted, NextEffect
  <2> QED BY <1>1, <1>4, <2>1 DEF EngineStarted, sendVars, Elsewhere, Posts, Executes
<1>5. CASE EngineStartFails
  <2>1. NextEffect("StartRunner") /\ Executed /\ UNCHANGED <<st, dispatched>>
    BY <1>5 DEF StartHeld, EngineStartFails, sendVars
  <2>2. Effect1 \in Effect
    BY <1>1, <2>1, HeadOfEffects DEF NextEffect
  <2>3. Effect1.mode \in Modes /\ Effect1.gen \in Nat
    BY <2>1, <2>2, EffectFields DEF NextEffect
  <2> DEFINE in == [type |-> "evRunnerExited", mode |-> Effect1.mode, gen |-> Effect1.gen,
                    err |-> "err", run |-> Effect1.gen]
  <2>4. in \in Input /\ in.type \notin MessageInputs
    BY <2>3, InputTypes DEF Results, MessageInputs
  <2>5. Post(in)
    BY <1>5 DEF EngineStartFails
  <2> HIDE DEF in
  <2> QED BY <1>1, <2>1, <2>4, <2>5, PostKinds, ExecuteKinds DEF Elsewhere
<1>6. CASE HandleEngineEvent
  <2> DEFINE ev == Head(engineEvents)
  <2>1. ev \in EngineEvent
    BY <1>1, <1>6 DEF HandleEngineEvent, EngineTypeOK
  <2>2. inputOf(ev) \in Input
    BY <1>1, <2>1, InputOfType DEF EngineTypeOK
  <2>3. inputOf(ev).type \notin MessageInputs
    <3>1. ev.type \in {"Ready", "Exited", "Identified", "Working"}
      BY <2>1, EngineEventFields
    <3> HIDE DEF ev
    <3> QED BY <3>1 DEF inputOf, MessageInputs
  <2>4. Post(inputOf(ev)) /\ UNCHANGED <<st, effects, dispatched>>
    BY <1>6 DEF HandleEngineEvent, sendVars
  <2> QED BY <1>1, <2>2, <2>3, <2>4, PostKinds DEF Elsewhere, Executes
<1>7. CASE EngineRemoteSend
  BY <1>1, <1>7 DEF EngineRemoteSend, NextEffect, Elsewhere, Posts, Executes
<1>8. CASE EngineRemoteAbort \/ EngineLocalSendLine \/ ApplyEngineConfig \/ SetTakebackWatcher
  BY <1>1, <1>8 DEF EngineRemoteAbort, EngineLocalSendLine, ApplyEngineConfig, SetTakebackWatcher,
                    NextEffect, sendVars, Elsewhere, Posts, Executes
<1>9. CASE \/ \E x \in exiting : ReportExit(x)
           \/ \E x \in sends : SendBegins(x)
           \/ SendSucceeds
  BY <1>1, <1>9 DEF ReportExit, SendBegins, SendSucceeds, sendVars, actorVars, Elsewhere, Posts,
                    Executes
<1>10. CASE EmitKey
  <2> DEFINE in == [type |-> IF pressed = "takeback" THEN "evDesktopTakeback" ELSE "cmdShutdown"]
  <2>1. in \in Input /\ in.type \notin MessageInputs
    BY InputTypes DEF MessageInputs
  <2>2. Post(in) /\ UNCHANGED <<st, effects, dispatched>>
    BY <1>10 DEF EmitKey, sendVars
  <2> HIDE DEF in
  <2> QED BY <1>1, <2>1, <2>2, PostKinds DEF Elsewhere, Executes
<1>11. ASSUME NEW x \in sending, SendFails(x)
       PROVE  Elsewhere
  <2> DEFINE in == [type |-> "evRunnerExited", mode |-> "remote", gen |-> x.gen,
                    err |-> "err", run |-> x.gen]
  <2>1. in \in Input /\ in.type \notin MessageInputs
    BY <1>1, InputTypes DEF EngineTypeOK, Send, Modes, Results, MessageInputs
  <2>2. (Post(in) \/ UNCHANGED inbox) /\ UNCHANGED <<st, effects, dispatched>>
    BY <1>11 DEF SendFails
  <2> HIDE DEF in
  <2> QED BY <1>1, <2>1, <2>2, PostKinds DEF Elsewhere, Executes, Posts
<1>12. CASE \/ \E m \in Modes, err \in Results : RunExits(m, err)
            \/ \E m \in Modes, token \in Tokens : Identify(m, token)
            \/ \E m \in Modes, w \in BOOLEAN : ReportWorking(m, w)
            \/ \E k \in {"takeback", "shutdown"} : PressKey(k)
  BY <1>1, <1>12 DEF RunExits, Identify, ReportWorking, ReportFromRun, PressKey, sendVars,
                     Elsewhere, Posts, Executes
<1> QED BY <1>2, <1>3, <1>4, <1>5, <1>6, <1>7, <1>8, <1>9, <1>10, <1>11, <1>12
        DEF EngineStep, EngineStimulus

----------------------------------------------------------------------------
(* All the steps of the session.                                           *)

\* What the parts other than the loop and the engines do: they report nothing
\* of runs, and execute none of the effects that start or configure one.
Aside ==
  /\ UNCHANGED <<st, engineVars>>
  /\ Posts
  /\ UNCHANGED inbox \/ \E in \in Input : in.type # "evRunnerReady" /\ Post(in)
  /\ \/ UNCHANGED effects
     \/ Executed /\ \E t : t \notin {"StartRunner", "ApplyEngineConfig"} /\ NextEffect(t)

\* To step aside is to act elsewhere.
LEMMA AsideElsewhere == Aside => Elsewhere
BY Zenon DEF Aside, Elsewhere, Executes, NextEffect, engineVars

\* Three ways to step aside: post an input of its own,
LEMMA PostAside ==
  ASSUME NEW in \in Input, Post(in), in.type \notin MessageInputs, in.type # "evRunnerReady",
         UNCHANGED <<st, effects, engineVars, arrivals>>
  PROVE  Aside
BY Zenon DEF Aside, Posts, Post

\* Execute an effect of its own,
LEMMA ExecuteAside ==
  ASSUME NEW t, t \notin {"StartRunner", "ApplyEngineConfig"}, NextEffect(t), Executed,
         UNCHANGED <<st, inbox, engineVars, arrivals>>
  PROVE  Aside
BY Zenon DEF Aside, Posts

\* or neither.
LEMMA StillAside ==
  ASSUME UNCHANGED <<st, inbox, effects, engineVars, arrivals>>
  PROVE  Aside
BY Zenon DEF Aside, Posts

\* The inputs of the persistence and of permissions.
LEMMA AsideInputs ==
  /\ \A t \in {"evWSConnected", "evWSDisconnected", "evTimerFired", "EvAgentStatePersistFailed"} :
       [type |-> t].type = t
  /\ \A u : answerOf(u).type \in {"EvAgentStatePersisted", "EvAgentStateVersionMismatch",
                                  "EvAgentStatePersistFailed"}
BY DEF answerOf

\* The persistence steps aside,
LEMMA SyncAside ==
  ASSUME TypeOK, syncOnly, SyncStep \/ SyncStimulus
  PROVE  Aside
<1>1. UNCHANGED <<engineVars, arrivals>> /\ SyncTypeOK
  BY DEF syncOnly, managerVars, TypeOK
<1>2. CASE StartTimer \/ CancelTimer \/ PersistAgentState
  BY <1>1, <1>2, ExecuteAside DEF StartTimer, CancelTimer, PersistAgentState
<1>3. CASE TimerCallback \/ Connect \/ Disconnect
  <2>1. \E t \in {"evTimerFired", "evWSConnected", "evWSDisconnected"} :
          Post([type |-> t]) /\ UNCHANGED <<st, effects>>
    BY <1>3, Zenon DEF TimerCallback, Connect, Disconnect
  <2>2. PICK t \in {"evTimerFired", "evWSConnected", "evWSDisconnected"} :
          Post([type |-> t]) /\ UNCHANGED <<st, effects>>
    BY <2>1
  <2>3. [type |-> t] \in Input /\ [type |-> t].type = t
    BY InputTypes
  <2> QED BY <1>1, <2>2, <2>3, PostAside DEF MessageInputs
<1>4. ASSUME NEW i \in DOMAIN updates, UpdateReturns(i)
      PROVE  Aside
  <2>1. answerOf(updates[i]) \in Input
    BY <1>1, RemoveUpdateType, AnswerType
  <2>2. answerOf(updates[i]).type \notin MessageInputs
        /\ answerOf(updates[i]).type # "evRunnerReady"
    BY AsideInputs DEF MessageInputs
  <2> QED BY <1>1, <1>4, <2>1, <2>2, PostAside DEF UpdateReturns
<1>5. ASSUME NEW i \in DOMAIN updates, UpdateTimesOut(i)
      PROVE  Aside
  <2>1. [type |-> "EvAgentStatePersistFailed"] \in Input
    BY InputTypes
  <2> QED BY <1>1, <1>5, <2>1, PostAside DEF UpdateTimesOut, MessageInputs
<1>6. CASE \/ TimerExpires
           \/ \E i \in DOMAIN updates : UpdateArrives(i)
           \/ \E o \in orphans : OrphanArrives(o)
  BY <1>1, <1>6, StillAside DEF TimerExpires, UpdateArrives, OrphanArrives, actorVars
<1> QED BY <1>2, <1>3, <1>4, <1>5, <1>6 DEF SyncStep, SyncStimulus

\* permissions do,
LEMMA PermissionAside ==
  ASSUME TypeOK, UNCHANGED <<engineVars, arrivals>>,
         \/ PermissionStep \/ PermissionStimulus
         \/ \E r \in Requests, v \in {"allow", "deny"} : \E known : PhoneDecides(r, v, known)
         \/ \E a \in Awaits : \E k : AwaitPermission(a, k)
  PROVE  Aside
<1>1. CASE SignalAck \/ CompletePermissionDecision \/ EmitPermissionRequest
  BY <1>1, ExecuteAside DEF SignalAck, CompletePermissionDecision, EmitPermissionRequest
<1>2. CASE \E a \in Awaits : AwaitAcknowledged(a) \/ AwaitDecided(a) \/ AwaitCancelled(a)
  BY <1>2, StillAside DEF AwaitAcknowledged, AwaitDecided, AwaitCancelled, actorVars
<1>3. ASSUME NEW a \in Awaits, AwaitRetries(a) \/ \E k : AwaitPermission(a, k)
      PROVE  Aside
  <2>1. [type |-> "cmdPermissionAwait", await |-> a] \in Input
    BY InputTypes
  <2> QED BY <1>3, <2>1, PostAside DEF AwaitRetries, AwaitPermission, MessageInputs
<1>4. ASSUME NEW r \in Requests, NEW v \in {"allow", "deny"}, NEW known, PhoneDecides(r, v, known)
      PROVE  Aside
  <2>1. [type |-> "cmdPermissionDecision", request |-> r, verdict |-> v] \in Input
    BY InputTypes
  <2> QED BY <1>4, <2>1, PostAside DEF PhoneDecides, MessageInputs
<1> QED BY <1>1, <1>2, <1>3, <1>4, Zenon DEF PermissionStep, PermissionStimulus

\* A message that arrives is a new one.
LEMMA ArrivalAside ==
  ASSUME NEW in \in Input, Post(in), in.type \in {"cmdRemoteSend", "cmdInboundUserMessage"},
         in.msg = newMessage, newMessages # {}, arrivals' = Append(arrivals, newMessage),
         UNCHANGED <<st, effects, engineVars>>
  PROVE  Aside
<1>1. newMessage \notin ToSet(arrivals)
  BY DEF newMessages, newMessage
<1> QED BY <1>1, Zenon DEF Aside, Posts, Post, MessageInputs

\* and so do the Manager's calls.
LEMMA ManagerAside ==
  ASSUME TypeOK, managerOnly, ManagerStep \/ ManagerStimulus
  PROVE  Aside
<1>1. UNCHANGED engineVars /\ ManagerTypeOK
  BY DEF managerOnly, TypeOK
<1>2. CASE CompleteReply
  BY <1>1, <1>2, ExecuteAside DEF CompleteReply
<1>3. ASSUME NEW c \in Calls, AwaitConfigPersisted(c)
      PROVE  Aside
  <2>1. [type |-> "cmdWaitForAgentStatePersist", reply |-> c] \in Input
    BY InputTypes
  <2> QED BY <1>1, <1>3, <2>1, PostAside DEF AwaitConfigPersisted, MessageInputs
<1>4. ASSUME NEW doc \in snapshot, StartPersistsState(doc)
      PROVE  Aside
  <2>1. [type |-> "cmdPersistAgentStateImmediate", doc |-> doc] \in Input
    BY <1>1, InputTypes DEF ManagerTypeOK
  <2> QED BY <1>1, <1>4, <2>1, PostAside DEF StartPersistsState, MessageInputs
<1>5. CASE StartReadsState \/ \E c \in Calls : ConfigTimesOut(c)
  BY <1>1, <1>5, StillAside DEF StartReadsState, ConfigTimesOut
<1>6. ASSUME NEW target \in Modes, SwitchMode(target)
      PROVE  Aside
  <2>1. [type |-> "cmdSwitchMode", target |-> target, reply |-> newCall] \in Input
    BY <1>6, NewCallType, InputTypes DEF SwitchMode, begin
  <2> QED BY <1>1, <1>6, <2>1, PostAside DEF SwitchMode, begin, MessageInputs
<1>7. CASE AbortRemote
  <2>1. [type |-> "cmdAbortRemote", reply |-> newCall] \in Input
    BY <1>7, NewCallType, InputTypes DEF AbortRemote, begin
  <2> QED BY <1>1, <1>7, <2>1, PostAside DEF AbortRemote, begin, MessageInputs
<1>8. ASSUME NEW req \in ConfigRequests, SetAgentConfig(req)
      PROVE  Aside
  <2>1. req.model \in Models \cup {None} /\ req.permissionMode \in PermissionModes \cup {None}
    BY InitialOK
  <2>2. [type |-> "cmdSetAgentConfig", model |-> req.model,
         permissionMode |-> req.permissionMode, reply |-> newCall] \in Input
    BY <1>8, <2>1, NewCallType, InputTypes DEF SetAgentConfig, begin
  <2> QED BY <1>1, <1>8, <2>2, PostAside DEF SetAgentConfig, begin, MessageInputs
<1>9. CASE SendUserMessage
  <2>1. [type |-> "cmdRemoteSend", msg |-> newMessage, reply |-> newCall] \in Input
    BY <1>9, NewMessageType, NewCallType, InputTypes DEF SendUserMessage, begin
  <2> QED BY <1>1, <1>9, <2>1, ArrivalAside DEF SendUserMessage, begin
<1>10. CASE InboundUserMessage
  <2>1. [type |-> "cmdInboundUserMessage", msg |-> newMessage] \in Input
    BY <1>10, NewMessageType, InputTypes DEF InboundUserMessage
  <2> QED BY <1>1, <1>10, <2>1, ArrivalAside DEF InboundUserMessage
<1> QED BY <1>2, <1>3, <1>4, <1>5, <1>6, <1>7, <1>8, <1>9, <1>10 DEF ManagerStep, ManagerStimulus

\* A step is a turn of the loop, a step of the engines, or one of the others.
LoopTurns == LoopStep /\ GoesOn
EnginesAct ==
  /\ EngineStep \/ SendSucceeds \/ (\E x \in sending : SendFails(x)) \/ EngineStimulus
  /\ engineOnly

\* There are no other steps.
LEMMA StepKinds ==
  ASSUME IInv, [Next]_vars
  PROVE  LoopTurns \/ EnginesAct \/ Aside
<1>1. TypeOK /\ ActorTypeOK
  BY DEF IInv, TypeOK
<1>2. CASE LoopStep
  BY <1>1, <1>2, ReduceGoesOn DEF LoopStep, LoopTurns
<1>3. CASE RuntimeStep \/ (EngineStimulus /\ engineOnly)
  BY <1>3 DEF RuntimeStep, EnginesAct
<1>4. CASE (SyncStep \/ SyncStimulus) /\ syncOnly
  BY <1>1, <1>4, SyncAside
<1>5. CASE /\ \/ PermissionStep \/ PermissionStimulus
              \/ \E r \in Requests, v \in {"allow", "deny"} :
                   PhoneDecides(r, v, server.json.doc.requests)
           /\ permissionOnly
  BY <1>1, <1>5, PermissionAside DEF permissionOnly, managerVars
<1>6. CASE (ManagerStep \/ ManagerStimulus) /\ managerOnly
  BY <1>1, <1>6, ManagerAside
<1>7. CASE SendResumes /\ UNCHANGED <<engineVars, syncVars>>
  BY <1>7, StillAside DEF SendResumes, actorVars
<1>8. ASSUME NEW a \in Awaits, EngineAsks(a) \/ SendAsks(a), UNCHANGED <<engineVars, syncVars>>
      PROVE  Aside
  BY <1>1, <1>8, PermissionAside DEF EngineAsks, SendAsks, managerVars
<1>9. CASE UNCHANGED vars
  BY <1>9, StillAside DEF vars, actorVars, managerVars
<1> QED BY <1>2, <1>3, <1>4, <1>5, <1>6, <1>7, <1>8, <1>9 DEF Next, Internal, Stimulus

----------------------------------------------------------------------------
(* The invariant of the messages.                                          *)

\* No message is on its way at the start.
LEMMA MessagesInit == Init => MessagesInv
<1> SUFFICES ASSUME Init PROVE MessagesInv
  OBVIOUS
<1>1. /\ st.PendingRemoteSends = <<>> /\ inbox = <<>> /\ effects = <<>> /\ dispatched = <<>>
  BY DEF Init, ActorInit, InitialState, EngineInit
<1>2. \A k, i, m : ~At(k, i, m)
  BY <1>1 DEF At
<1> QED BY <1>1, <1>2, Zenon DEF MessagesInv, Ordered, Arrived, Flushed

\* Every step keeps the messages in order.
LEMMA MessagesNext == IInv /\ MessagesInv /\ [Next]_vars => MessagesInv'
<1> SUFFICES ASSUME IInv, MessagesInv, [Next]_vars PROVE MessagesInv'
  OBVIOUS
<1>1. /\ TypeOK /\ StartHeld /\ ActorTypeOK /\ ActorTypeOK'
      /\ dispatched \in Seq(Messages) /\ arrivals \in Seq(Messages)
  BY NextType DEF IInv, TypeOK, EngineTypeOK, ManagerTypeOK
<1>2. CASE LoopTurns
  BY <1>1, <1>2, TurnKeepsMessages DEF LoopTurns, LoopStep, engineVars, managerVars
<1>3. CASE EnginesAct
  BY <1>1, <1>3, RuntimeElsewhere, ElsewhereKeepsMessages DEF EnginesAct
<1>4. CASE Aside
  BY <1>1, <1>4, AsideElsewhere, ElsewhereKeepsMessages
<1> QED BY <1>2, <1>3, <1>4, StepKinds

\* Whatever the modes, restarts and failures in between: no message is ever
\* sent to an agent twice, and none is handed over before one that came in
\* earlier, from its arrival to the send.
THEOREM MessagesOrdered == Spec => []InOrderOnce
<1>1. IInv /\ MessagesInv /\ [Next]_vars => (IInv /\ MessagesInv)'
  BY NextType, MessagesNext
<1>2. IInv /\ MessagesInv => InOrderOnce
  BY OrderedInOrder DEF MessagesInv
<1> QED BY <1>1, <1>2, InitType, MessagesInit, PTL DEF Spec

----------------------------------------------------------------------------
(* The runs of the agents.  A generation is started at most once, in the    *)
(* order of the generations, and the remote agent that runs works with the  *)
(* configuration of the session or is about to get it.                      *)

starts(i) == i \in DOMAIN effects /\ effects[i].type = "StartRunner"

\* The mode started last has the higher generation.
Generations ==
  /\ \A m \in Modes : engineGen[m] <= st.RunnerGen
  /\ engineGen["local"] = engineGen["remote"] => engineGen["local"] = 0
  /\ st.FSM = "RemoteRunning" => st.RunnerGen > 0 /\ engineGen["remote"] = st.RunnerGen

\* Starts that wait in the queue are for ever newer generations.  The first one
\* may be under way.
Queue ==
  /\ \A i : starts(i) =>
       /\ effects[i].gen <= st.RunnerGen
       /\ (starting /\ i = 1) \/ \A m \in Modes : engineGen[m] < effects[i].gen
  /\ \A i, j : starts(i) /\ starts(j) /\ i < j => effects[i].gen < effects[j].gen

UnderWay ==
  starting =>
    /\ engineActive[Effect1.mode]
    /\ engineGen[Effect1.mode] = Effect1.gen
    /\ engineGen[otherMode(Effect1.mode)] < Effect1.gen

\* Only the mode started last has a live run, and the runtime knows of it.
Live ==
  \A m \in Modes :
    /\ engineGen[m] > engineGen[otherMode(m)] => live[otherMode(m)] = 0
    /\ live[m] # 0 => engineActive[m]

\* The last effect that concerns a run configures it,
configuredLast(i) ==
  /\ i \in DOMAIN effects
  /\ effects[i] = effApplyEngineConfig(st.RunnerGen, st.AgentState.config)
  /\ \A j \in DOMAIN effects : j > i => effects[j].type \notin RunTypes

\* or there is none and the run, if any, has the configuration.
Configured ==
  /\ \A j \in DOMAIN effects : effects[j].type \notin RunTypes
  /\ live["remote"] # 0 => engineConfig = st.AgentState.config

Config == st.FSM = "RemoteRunning" => Configured \/ \E i : configuredLast(i)

Runs == Generations /\ Queue /\ UnderWay /\ Live /\ Config

\* A report that a runner is ready carries a generation that has been started.
tagged(in) == in.type = "evRunnerReady" => 0 < in.gen /\ in.gen <= engineGen[in.mode]
started(ev) == ev.type = "Ready" => engineGen[ev.mode] > 0

Tags ==
  /\ \A i \in DOMAIN inbox : tagged(inbox[i])
  /\ \A i \in DOMAIN engineEvents : started(engineEvents[i])

\* The first b effects have been executed.
Moves(b) ==
  /\ \A i \in DOMAIN effects' :
       i \in Nat \ {0} /\ i + b \in DOMAIN effects /\ effects'[i] = effects[i + b]
  /\ \A i \in DOMAIN effects : i \in Nat \ {0} /\ (i > b => i - b \in DOMAIN effects')

\* An executed effect was the first one.
LEMMA MovesOne ==
  ASSUME ActorTypeOK, effects # <<>>, Executed
  PROVE  Moves(1) /\ 1 \in DOMAIN effects /\ Effect1 = effects[1]
BY DEF ActorTypeOK, Executed, Moves, Effect1

\* A queue that is left alone has not moved.
LEMMA MovesNone ==
  ASSUME ActorTypeOK, UNCHANGED effects
  PROVE  Moves(0)
BY DEF ActorTypeOK, Moves

\* The runs are as the invariant has them, whatever is going on.
LEMMA StartFields ==
  ASSUME ActorTypeOK, NEW i, starts(i)
  PROVE  /\ i \in Nat \ {0} /\ effects[i] \in Effect
         /\ effects[i].mode \in Modes /\ effects[i].gen \in Nat
<1>1. i \in Nat \ {0} /\ effects[i] \in Effect
  BY DEF ActorTypeOK, starts
<1> QED BY <1>1, EffectFields, Zenon DEF starts

\* What waits in the queue does not change when others are executed.
LEMMA QueueMoves ==
  ASSUME ActorTypeOK, Queue, NEW b \in {0, 1}, Moves(b), UNCHANGED <<st, engineGen>>,
         b = 0 => UNCHANGED starting
  PROVE  Queue'
<1>1. ASSUME NEW i, starts(i)'
      PROVE  i \in Nat \ {0} /\ starts(i + b) /\ effects'[i] = effects[i + b]
  BY <1>1, Zenon DEF Moves, starts
<1>2. ASSUME NEW i, starts(i)'
      PROVE  /\ effects'[i].gen <= st'.RunnerGen
             /\ (starting' /\ i = 1) \/ \A m \in Modes : engineGen'[m] < effects'[i].gen
  <2>1. i \in Nat \ {0} /\ starts(i + b) /\ effects'[i] = effects[i + b]
    BY <1>1, <1>2
  <2>2. /\ effects[i + b].gen <= st.RunnerGen
        /\ (starting /\ i + b = 1) \/ \A m \in Modes : engineGen[m] < effects[i + b].gen
    BY <2>1, Zenon DEF Queue
  <2>3. CASE starting /\ i + b = 1
    <3>1. i = 1 /\ b = 0
      BY <2>1, <2>3
    <3> QED BY <2>1, <2>2, <2>3, <3>1, Zenon
  <2>4. CASE \A m \in Modes : engineGen[m] < effects[i + b].gen
    BY <2>1, <2>2, <2>4
  <2> QED BY <2>2, <2>3, <2>4
<1>3. ASSUME NEW i, NEW j, starts(i)', starts(j)', i < j
      PROVE  effects'[i].gen < effects'[j].gen
  <2>1. /\ i \in Nat \ {0} /\ starts(i + b) /\ effects'[i] = effects[i + b]
        /\ j \in Nat \ {0} /\ starts(j + b) /\ effects'[j] = effects[j + b]
    BY <1>1, <1>3
  <2>2. i + b < j + b
    BY <1>3, <2>1
  <2> QED BY <2>1, <2>2, Zenon DEF Queue
<1> QED BY <1>2, <1>3, Zenon DEF Queue

\* What configures a run last goes on doing so until it is executed.
LEMMA LastMoves ==
  ASSUME ActorTypeOK, NEW b \in {0, 1}, Moves(b), UNCHANGED st,
         NEW i, configuredLast(i), i > b
  PROVE  configuredLast(i - b)'
<1> DEFINE x == effApplyEngineConfig(st.RunnerGen, st.AgentState.config)
<1>1. i \in DOMAIN effects /\ effects[i] = x /\ i \in Nat \ {0}
  BY Zenon DEF configuredLast, Moves
<1> HIDE DEF x
<1>2. i - b \in DOMAIN effects' /\ (i - b) + b = i
  <2>1. i - b \in DOMAIN effects'
    BY <1>1, Zenon DEF Moves
  <2> QED BY <1>1, <2>1
<1>3. effects'[i - b] = effects[(i - b) + b]
  BY <1>2, Zenon DEF Moves
<1>4. effects'[i - b] = x
  BY <1>1, <1>2, <1>3, Zenon
<1>5. ASSUME NEW j \in DOMAIN effects', j > i - b
      PROVE  effects'[j].type \notin RunTypes
  <2>1. j \in Nat /\ j + b \in DOMAIN effects /\ effects'[j] = effects[j + b]
    BY Zenon DEF Moves
  <2>2. j + b > i
    BY <1>1, <1>5, <2>1
  <2> QED BY <2>1, <2>2, Zenon DEF configuredLast
<1> QED BY <1>2, <1>4, <1>5, Zenon DEF configuredLast, x

\* The configuration of the run does not suffer from what is executed, if that
\* neither configures it nor touches a run that is configured.
LEMMA ConfigMoves ==
  ASSUME ActorTypeOK, Config, NEW b \in {0, 1}, Moves(b), UNCHANGED st,
         b = 1 => effects[1].type # "ApplyEngineConfig",
         Configured => UNCHANGED engineConfig /\ live'["remote"] \in {live["remote"], 0}
  PROVE  Config'
<1> SUFFICES ASSUME st.FSM = "RemoteRunning"
             PROVE  Configured' \/ \E i : configuredLast(i)'
  BY Zenon DEF Config
<1>1. CASE Configured
  <2>1. \A j \in DOMAIN effects' : effects'[j].type \notin RunTypes
    BY <1>1, Zenon DEF Configured, Moves
  <2>2. live'["remote"] # 0 => engineConfig' = st'.AgentState.config
    BY <1>1, Zenon DEF Configured
  <2> QED BY <2>1, <2>2, Zenon DEF Configured
<1>2. ASSUME NEW i, configuredLast(i)
      PROVE  configuredLast(i - b)'
  <2>1. i \in DOMAIN effects /\ i \in Nat \ {0} /\ effects[i].type = "ApplyEngineConfig"
    BY <1>2 DEF configuredLast, Moves, effApplyEngineConfig
  <2>2. i > b
    BY <2>1
  <2> QED BY <1>2, <2>2, LastMoves
<1> QED BY <1>1, <1>2, Zenon DEF Config

\* A step that starts and configures no run may end or detach some.
RunsRest ==
  /\ UNCHANGED <<st, engineGen, starting, engineConfig>>
  /\ \A m \in Modes :
       /\ live'[m] \in {live[m], 0}
       /\ engineActive'[m] = engineActive[m] \/ (~starting /\ live'[m] = 0)
  /\ \/ UNCHANGED effects
     \/ Executed /\ \E t : t \notin RunTypes /\ NextEffect(t)

\* The head of the queue, moved or not.
LEMMA HeadRest ==
  ASSUME ActorTypeOK, StartHeld, RunsRest
  PROVE  \E b \in {0, 1} :
           /\ Moves(b) /\ (b = 1 => effects[1].type \notin RunTypes)
           /\ starting => UNCHANGED effects
<1>1. CASE UNCHANGED effects
  BY <1>1, MovesNone
<1>2. CASE Executed /\ \E t : t \notin RunTypes /\ NextEffect(t)
  <2>1. effects # <<>> /\ Effect1.type \notin RunTypes
    BY <1>2, Zenon DEF NextEffect
  <2>2. ~starting
    BY <2>1 DEF StartHeld, NextEffect, RunTypes
  <2>3. Moves(1) /\ Effect1 = effects[1]
    BY <1>2, <2>1, MovesOne
  <2> QED BY <2>1, <2>2, <2>3
<1> QED BY <1>1, <1>2, Zenon DEF RunsRest

\* Such a step keeps the invariant of the runs.
LEMMA RestKeepsRuns ==
  ASSUME ActorTypeOK, EngineTypeOK, EngineTypeOK', StartHeld, Runs, RunsRest
  PROVE  Runs'
<1>1. PICK b \in {0, 1} : /\ Moves(b) /\ (b = 1 => effects[1].type \notin RunTypes)
                          /\ starting => UNCHANGED effects
  BY HeadRest
<1>2. UNCHANGED <<st, engineGen, starting, engineConfig>> /\ "remote" \in Modes
  BY DEF RunsRest, Modes
<1>3. Generations'
  BY <1>2, Zenon DEF Runs, Generations
<1>4. Queue'
  BY <1>1, <1>2, QueueMoves, Zenon DEF Runs
<1>5. Config'
  <2>1. b = 1 => effects[1].type # "ApplyEngineConfig"
    BY <1>1 DEF RunTypes
  <2>2. live'["remote"] \in {live["remote"], 0}
    BY <1>2, Zenon DEF RunsRest
  <2> QED BY <1>1, <1>2, <2>1, <2>2, ConfigMoves, Zenon DEF Runs
<1>6. UnderWay'
  <2> SUFFICES ASSUME starting
               PROVE  /\ engineActive'[Effect1'.mode]
                      /\ engineGen'[Effect1'.mode] = Effect1'.gen
                      /\ engineGen'[otherMode(Effect1'.mode)] < Effect1'.gen
    BY <1>2, Zenon DEF UnderWay, otherMode
  <2>1. Effect1' = Effect1
    BY <1>1 DEF Effect1
  <2>2. Effect1.mode \in Modes
    BY HeadOfEffects, EffectFields DEF StartHeld, NextEffect
  <2>3. engineActive'[Effect1.mode] = engineActive[Effect1.mode]
    BY <2>2, Zenon DEF RunsRest
  <2> QED BY <1>2, <2>1, <2>3, Zenon DEF Runs, UnderWay
<1>7. Live'
  <2> SUFFICES ASSUME NEW m \in Modes
               PROVE  /\ engineGen'[m] > engineGen'[otherMode(m)] => live'[otherMode(m)] = 0
                      /\ live'[m] # 0 => engineActive'[m]
    BY Zenon DEF Live, otherMode
  <2>1. otherMode(m) \in Modes
    BY DEF otherMode, Modes
  <2>2. live'[otherMode(m)] \in {live[otherMode(m)], 0} /\ live'[m] \in {live[m], 0}
        /\ (engineActive'[m] = engineActive[m] \/ live'[m] = 0)
    BY <2>1, Zenon DEF RunsRest
  <2> QED BY <1>2, <2>2, Zenon DEF Runs, Live
<1> QED BY <1>3, <1>4, <1>5, <1>6, <1>7 DEF Runs

\* What happens aside is such a step,
LEMMA AsideRest == Aside => RunsRest
<1> SUFFICES ASSUME Aside PROVE RunsRest
  OBVIOUS
<1>1. UNCHANGED <<st, engineGen, starting, engineConfig, live, engineActive>>
  BY Zenon DEF Aside, engineVars
<1>2. \/ UNCHANGED effects
      \/ Executed /\ \E t : t \notin RunTypes /\ NextEffect(t)
  BY Zenon DEF Aside, RunTypes
<1> QED BY <1>1, <1>2, Zenon DEF RunsRest

\* and so is a stop,
LEMMA StopRest ==
  ASSUME EngineTypeOK, StartHeld, NEW m \in Modes,
         NEW t \in {"StopLocalRunner", "StopRemoteRunner"}, stopEngine(m, t)
  PROVE  RunsRest
<1>1. ~starting
  BY DEF stopEngine, StartHeld, NextEffect
<1>2. Executed /\ NextEffect(t) /\ t \notin RunTypes
  BY DEF stopEngine, RunTypes
<1>3. \A n \in Modes : /\ live'[n] \in {live[n], 0}
                       /\ engineActive'[n] = engineActive[n] \/ live'[n] = 0
  BY DEF stopEngine, EngineTypeOK
<1> QED BY <1>1, <1>2, <1>3 DEF RunsRest, stopEngine

\* What the engines do, but for the starts and the configuration of runs.
LEMMA EnginesRest ==
  ASSUME EngineTypeOK, StartHeld, EnginesAct
  PROVE  StartEngine \/ EngineStarted \/ EngineStartFails \/ ApplyEngineConfig \/ RunsRest
<1>1. CASE StopEngineLocal \/ StopEngineRemote
  BY <1>1, StopRest DEF StopEngineLocal, StopEngineRemote, Modes
<1>2. CASE EngineRemoteSend \/ EngineRemoteAbort \/ EngineLocalSendLine \/ SetTakebackWatcher
  <2>1. Executed /\ \E t : t \notin RunTypes /\ NextEffect(t)
    <3>1. \A t \in {"RemoteSend", "RemoteAbort", "LocalSendLine", "TakebackWatcher"} :
            t \notin RunTypes
      BY DEF RunTypes
    <3> QED BY <1>2, <3>1, Zenon DEF EngineRemoteSend, EngineRemoteAbort, EngineLocalSendLine,
                                     SetTakebackWatcher
  <2>2. UNCHANGED <<st, engineGen, starting, engineConfig, live, engineActive>>
    BY <1>2, Zenon DEF EngineRemoteSend, EngineRemoteAbort, EngineLocalSendLine,
                       SetTakebackWatcher, runVars
  <2> QED BY <2>1, <2>2, Zenon DEF RunsRest
<1>3. CASE \/ HandleEngineEvent \/ EmitKey \/ SendSucceeds
           \/ \E x \in exiting : ReportExit(x)
           \/ \E x \in sends : SendBegins(x)
           \/ \E x \in sending : SendFails(x)
           \/ \E m \in Modes, token \in Tokens : Identify(m, token)
           \/ \E m \in Modes, w \in BOOLEAN : ReportWorking(m, w)
           \/ \E k \in {"takeback", "shutdown"} : PressKey(k)
  <2>1. UNCHANGED <<st, effects, engineGen, starting, engineConfig, live, engineActive>>
    BY <1>3, Zenon DEF HandleEngineEvent, EmitKey, SendSucceeds, ReportExit, SendBegins, SendFails,
                       Identify, ReportWorking, ReportFromRun, PressKey, runVars, actorVars
  <2> QED BY <2>1, Zenon DEF RunsRest
<1>4. ASSUME NEW m \in Modes, NEW err \in Results, RunExits(m, err)
      PROVE  RunsRest
  <2>1. \A n \in Modes : live'[n] \in {live[n], 0}
    BY <1>4 DEF RunExits, EngineTypeOK
  <2> QED BY <1>4, <2>1, Zenon DEF RunExits, RunsRest
<1> QED BY <1>1, <1>2, <1>3, <1>4 DEF EnginesAct, EngineStep, EngineStimulus

\* A start gets under way.
LEMMA StartKeepsRuns ==
  ASSUME ActorTypeOK, EngineTypeOK, EngineTypeOK', Runs, StartEngine
  PROVE  Runs'
<1> DEFINE m == effects[1].mode
           g == effects[1].gen
<1>1. /\ effects # <<>> /\ ~starting /\ starting' /\ UNCHANGED <<st, effects, engineConfig>>
      /\ Effect1.type = "StartRunner"
  BY DEF StartEngine, NextEffect, actorVars
<1>2. starts(1) /\ Effect1 = effects[1]
  BY <1>1 DEF ActorTypeOK, starts, Effect1
<1>3. m \in Modes /\ g \in Nat /\ otherMode(m) \in Modes /\ otherMode(m) # m
      /\ Modes = {m, otherMode(m)} /\ otherMode(otherMode(m)) = m
  BY <1>2, StartFields DEF Modes, otherMode
<1>4. /\ g <= st.RunnerGen
      /\ \A n \in Modes : engineGen[n] < g
  BY <1>1, <1>2, Zenon DEF Runs, Queue
<1>5. /\ engineGen' = [engineGen EXCEPT ![m] = g]
      /\ engineActive' = [engineActive EXCEPT ![m] = TRUE]
      /\ live' = [live EXCEPT ![otherMode(m)] = 0]
  BY <1>2, Zenon DEF StartEngine
<1>6. st.RunnerGen \in Nat
  BY StateFields DEF ActorTypeOK
<1> HIDE DEF m, g
<1>7. /\ engineGen'[m] = g /\ engineGen'[otherMode(m)] = engineGen[otherMode(m)]
      /\ engineActive'[m] /\ engineActive'[otherMode(m)] = engineActive[otherMode(m)]
      /\ live'[otherMode(m)] = 0 /\ live'[m] = live[m]
      /\ engineGen[m] \in Nat /\ engineGen[otherMode(m)] \in Nat
  BY <1>3, <1>5 DEF EngineTypeOK
<1>8. st.FSM # "RemoteRunning"
  <2>1. engineGen["remote"] < g /\ engineGen["remote"] \in Nat
    BY <1>4 DEF Modes, EngineTypeOK
  <2>2. st.FSM = "RemoteRunning" => engineGen["remote"] = st.RunnerGen
    BY DEF Runs, Generations
  <2> QED BY <1>3, <1>4, <1>6, <2>1, <2>2
<1>9. Generations'
  <2>1. \A n \in Modes : engineGen'[n] <= st'.RunnerGen
    BY <1>1, <1>3, <1>4, <1>6, <1>7
  <2>2. engineGen'["local"] # engineGen'["remote"]
    <3>1. engineGen'[m] # engineGen'[otherMode(m)]
      BY <1>3, <1>4, <1>7
    <3> QED BY <1>3, <3>1 DEF Modes
  <2> QED BY <1>1, <1>8, <2>1, <2>2 DEF Generations
<1>10. Queue'
  <2>1. \A i : starts(i)' <=> starts(i)
    BY <1>1, Zenon DEF starts
  <2>2. ASSUME NEW i, starts(i)
        PROVE  /\ effects[i].gen <= st.RunnerGen
               /\ i = 1 \/ \A n \in Modes : engineGen'[n] < effects[i].gen
    <3>1. effects[i].gen <= st.RunnerGen /\ effects[i].gen \in Nat /\ i \in Nat \ {0}
      BY <2>2, StartFields, Zenon DEF Runs, Queue
    <3>2. CASE i # 1
      <4>1. 1 < i
        BY <3>1, <3>2
      <4>2. g < effects[i].gen
        BY <1>2, <2>2, <4>1, Zenon DEF Runs, Queue, g
      <4> QED BY <1>3, <1>4, <1>7, <3>1, <4>2
    <3> QED BY <3>1, <3>2
  <2> QED BY <1>1, <2>1, <2>2, Zenon DEF Runs, Queue
<1>11. UnderWay'
  <2>1. Effect1' = effects[1]
    BY <1>1, <1>2 DEF Effect1
  <2>2. /\ engineActive'[m] /\ engineGen'[m] = g /\ engineGen'[otherMode(m)] < g
    BY <1>3, <1>4, <1>7
  <2> QED BY <2>1, <2>2, Zenon DEF UnderWay, m, g, otherMode
<1>12. Live'
  <2> SUFFICES ASSUME NEW n \in Modes
               PROVE  /\ engineGen'[n] > engineGen'[otherMode(n)] => live'[otherMode(n)] = 0
                      /\ live'[n] # 0 => engineActive'[n]
    BY Zenon DEF Live, otherMode
  <2>1. CASE n = m
    BY <1>7, <2>1
  <2>2. CASE n = otherMode(m)
    BY <1>3, <1>4, <1>7, <2>2
  <2> QED BY <1>3, <2>1, <2>2
<1>13. Config'
  BY <1>1, <1>8, Zenon DEF Config
<1> QED BY <1>9, <1>10, <1>11, <1>12, <1>13 DEF Runs

\* When the remote agent runs, the start under way is its own.
LEMMA StartWhileRunning ==
  ASSUME ActorTypeOK, EngineTypeOK, StartHeld, Runs, starting
  PROVE  /\ starts(1) /\ Effect1 = effects[1] /\ effects # <<>>
         /\ Effect1.mode \in Modes /\ Effect1.gen \in Nat \ {0}
         /\ engineGen[Effect1.mode] = Effect1.gen /\ engineActive[Effect1.mode]
         /\ engineGen[otherMode(Effect1.mode)] < Effect1.gen
         /\ ~Configured
<1>1. effects # <<>> /\ Effect1.type = "StartRunner"
  BY DEF StartHeld, NextEffect
<1>2. starts(1) /\ Effect1 = effects[1]
  BY <1>1 DEF ActorTypeOK, starts, Effect1
<1>3. Effect1.mode \in Modes /\ Effect1.gen \in Nat
  BY <1>2, StartFields
<1>4. /\ engineGen[Effect1.mode] = Effect1.gen /\ engineActive[Effect1.mode]
      /\ engineGen[otherMode(Effect1.mode)] < Effect1.gen
  BY Zenon DEF Runs, UnderWay
<1>5. engineGen[otherMode(Effect1.mode)] \in Nat
  BY <1>3 DEF EngineTypeOK, otherMode, Modes
<1>6. ~Configured
  BY <1>2 DEF Configured, starts, RunTypes
<1> QED BY <1>1, <1>2, <1>3, <1>4, <1>5, <1>6

\* A start ends: the new run is the live one of its mode, or there is none.
LEMMA StartedKeepsRuns ==
  ASSUME ActorTypeOK, EngineTypeOK, EngineTypeOK', StartHeld, Runs,
         EngineStarted \/ EngineStartFails
  PROVE  Runs'
<1> DEFINE m == Effect1.mode
<1>1. /\ starting /\ ~starting' /\ Executed
      /\ UNCHANGED <<st, engineGen, engineActive>>
  BY DEF EngineStarted, EngineStartFails
<1>2. /\ starts(1) /\ Effect1 = effects[1] /\ effects # <<>>
      /\ m \in Modes /\ engineActive[m]
      /\ engineGen[otherMode(m)] < engineGen[m]
      /\ ~Configured
  BY <1>1, StartWhileRunning
<1>3. Moves(1) /\ effects[1].type # "ApplyEngineConfig"
  BY <1>1, <1>2, MovesOne DEF starts
<1>4. Generations' /\ UnderWay'
  BY <1>1, Zenon DEF Runs, Generations, UnderWay
<1>5. Queue'
  BY <1>1, <1>3, QueueMoves DEF Runs
<1>6. Config'
  BY <1>1, <1>2, <1>3, ConfigMoves DEF Runs
<1>7. Live'
  <2>1. CASE EngineStarted
    <3>1. live' = [live EXCEPT ![m] = Effect1.gen]
      BY <2>1 DEF EngineStarted
    <3>2. \A n \in Modes : n = m \/ live'[n] = live[n]
      BY <3>1 DEF EngineTypeOK
    <3> HIDE DEF m
    <3>3. \A n \in Modes : otherMode(n) \in Modes /\ (otherMode(n) = m => n = otherMode(m))
      BY <1>2 DEF otherMode, Modes
    <3>4. engineGen[m] \in Nat /\ engineGen[otherMode(m)] \in Nat
      BY <1>2, <3>3 DEF EngineTypeOK
    <3>5. ASSUME NEW n \in Modes
          PROVE  /\ engineGen'[n] > engineGen'[otherMode(n)] => live'[otherMode(n)] = 0
                 /\ live'[n] # 0 => engineActive'[n]
      <4>1. CASE otherMode(n) = m
        <5>1. n = otherMode(m)
          BY <3>3, <4>1
        <5>2. ~(engineGen[n] > engineGen[otherMode(n)])
          BY <1>2, <3>4, <4>1, <5>1
        <5>3. live'[n] # 0 => engineActive[n]
          BY <1>2, <3>2, Zenon DEF Runs, Live
        <5> QED BY <1>1, <5>2, <5>3
      <4>2. CASE otherMode(n) # m
        <5>1. live'[otherMode(n)] = live[otherMode(n)]
          BY <3>2, <3>3, <4>2
        <5>2. live'[n] # 0 => engineActive[n]
          BY <1>2, <3>2, Zenon DEF Runs, Live
        <5>3. engineGen[n] > engineGen[otherMode(n)] => live[otherMode(n)] = 0
          BY Zenon DEF Runs, Live
        <5> QED BY <1>1, <5>1, <5>2, <5>3
      <4> QED BY <4>1, <4>2
    <3> QED BY <3>5, Zenon DEF Live, otherMode
  <2>2. CASE EngineStartFails
    <3>1. UNCHANGED <<live, engineActive, engineGen>>
      BY <2>2 DEF EngineStartFails
    <3> QED BY <3>1, Zenon DEF Runs, Live, otherMode
  <2> QED BY <2>1, <2>2
<1> QED BY <1>4, <1>5, <1>6, <1>7 DEF Runs

\* The configuration reaches the run.
LEMMA ApplyKeepsRuns ==
  ASSUME ActorTypeOK, EngineTypeOK, EngineTypeOK', StartHeld, Runs, ApplyEngineConfig
  PROVE  Runs'
<1>1. /\ effects # <<>> /\ Effect1.type = "ApplyEngineConfig" /\ Executed
      /\ UNCHANGED <<st, engineGen, starting, live, engineActive>>
  BY DEF ApplyEngineConfig, NextEffect
<1>2. ~starting
  BY <1>1 DEF StartHeld, NextEffect
<1>3. Moves(1) /\ 1 \in DOMAIN effects /\ Effect1 = effects[1]
  BY <1>1, MovesOne
<1>4. Generations' /\ UnderWay' /\ Live'
  BY <1>1, <1>2, Zenon DEF Runs, Generations, UnderWay, Live, otherMode
<1>5. Queue'
  BY <1>1, <1>2, <1>3, QueueMoves DEF Runs
<1>6. Config'
  <2>1. CASE \A j \in DOMAIN effects : j > 1 => effects[j].type \notin RunTypes
    <3> SUFFICES ASSUME st.FSM = "RemoteRunning" PROVE Configured'
      BY <1>1, Zenon DEF Config
    <3>1. ~Configured
      BY <1>1, <1>3 DEF Configured, RunTypes
    <3>2. PICK i : configuredLast(i)
      BY <3>1, Zenon DEF Runs, Config
    <3>3. i = 1
      <4>1. i \in Nat \ {0} /\ i \in DOMAIN effects
            /\ effects[i].type = "ApplyEngineConfig"
        BY <1>3, <3>2 DEF configuredLast, Moves, effApplyEngineConfig
      <4>2. effects[i].type \in RunTypes
        BY <4>1 DEF RunTypes
      <4> QED BY <2>1, <4>1, <4>2
    <3>4. Effect1.config = st.AgentState.config
      BY <1>3, <3>2, <3>3 DEF configuredLast, effApplyEngineConfig
    <3>5. Effect1.gen = st.RunnerGen
      BY <1>3, <3>2, <3>3 DEF configuredLast, effApplyEngineConfig
    <3>6. live["remote"] # 0 => engineConfig' = Effect1.config
      <4>1. live["remote"] # 0 => engineActive["remote"]
        BY Zenon DEF Runs, Live, Modes
      <4>2. engineGen["remote"] = Effect1.gen
        BY <3>5, Zenon DEF Runs, Generations
      <4> QED BY <4>1, <4>2, Zenon DEF ApplyEngineConfig, sameGeneration
    <3>7. \A j \in DOMAIN effects' : effects'[j].type \notin RunTypes
      <4> SUFFICES ASSUME NEW j \in DOMAIN effects' PROVE effects'[j].type \notin RunTypes
        OBVIOUS
      <4>1. j \in Nat \ {0} /\ j + 1 \in DOMAIN effects /\ effects'[j] = effects[j + 1]
        BY <1>3, Zenon DEF Moves
      <4> QED BY <2>1, <4>1
    <3> QED BY <1>1, <3>4, <3>6, <3>7, Zenon DEF Configured
  <2>2. CASE ~\A j \in DOMAIN effects : j > 1 => effects[j].type \notin RunTypes
    <3> SUFFICES ASSUME st.FSM = "RemoteRunning" PROVE \E i : configuredLast(i)'
      BY <1>1, Zenon DEF Config
    <3>1. PICK k \in DOMAIN effects : k > 1 /\ effects[k].type \in RunTypes
      BY <2>2
    <3>2. PICK i : configuredLast(i)
      BY <3>1, Zenon DEF Runs, Config, Configured
    <3>3. i \in Nat \ {0} /\ i \in DOMAIN effects /\ k \in Nat /\ ~(k > i)
      BY <1>3, <3>1, <3>2, Zenon DEF configuredLast, Moves
    <3>4. i > 1
      BY <3>1, <3>3
    <3> QED BY <1>1, <1>3, <3>2, <3>4, LastMoves
  <2> QED BY <2>1, <2>2
<1> QED BY <1>4, <1>5, <1>6 DEF Runs

\* A turn of the loop puts effects behind those that wait.
LEMMA GrownEffects ==
  ASSUME ActorTypeOK, NEW e \in Seq(Effect), effects' = effects \o e,
         NEW L, L = Len(effects)
  PROVE  /\ L \in Nat
         /\ \A i \in DOMAIN effects :
              i \in Nat \ {0} /\ i <= L /\ i \in DOMAIN effects' /\ effects'[i] = effects[i]
         /\ \A i \in DOMAIN effects' :
              /\ i \in Nat \ {0}
              /\ i <= L => i \in DOMAIN effects
              /\ i > L => i - L \in DOMAIN e /\ effects'[i] = e[i - L]
         /\ \A i \in DOMAIN e :
              i \in Nat \ {0} /\ L + i \in DOMAIN effects' /\ effects'[L + i] = e[i]
BY SMTT(40) DEF ActorTypeOK

\* The k-th effect is x, and the only one that concerns a run.
OnlyRun(e, k, x) ==
  /\ k \in DOMAIN e /\ e[k] = x
  /\ \A i \in DOMAIN e : i # k => e[i].type \notin RunTypes

\* A turn with an effect that concerns a run has it at one place.
LEMMA OneRun ==
  ASSUME NEW a \in Seq(NoRuns), NEW b \in Seq(NoRuns), NEW x \in Effect, NEW e,
         e = a \o <<x>> \o b
  PROVE  \E k \in Nat \ {0} : OnlyRun(e, k, x)
<1>1. /\ a \in Seq(Effect) /\ b \in Seq(Effect)
      /\ \A i \in DOMAIN a : a[i].type \notin RunTypes
      /\ \A i \in DOMAIN b : b[i].type \notin RunTypes
  BY DEF NoRuns
<1> DEFINE k == Len(a) + 1
<1>2. k \in Nat \ {0} /\ k \in DOMAIN e /\ e[k] = x
  BY <1>1
<1>3. \A i \in DOMAIN e : /\ i < k => i \in DOMAIN a /\ e[i] = a[i]
                          /\ i > k => i - k \in DOMAIN b /\ e[i] = b[i - k]
                          /\ i \in Nat
  BY <1>1
<1>4. \A i \in DOMAIN e : i # k => e[i].type \notin RunTypes
  <2> HIDE DEF k
  <2> SUFFICES ASSUME NEW i \in DOMAIN e, i # k PROVE e[i].type \notin RunTypes
    OBVIOUS
  <2>1. i < k \/ i > k
    BY <1>2, <1>3
  <2>2. /\ i < k => i \in DOMAIN a /\ e[i] = a[i]
        /\ i > k => i - k \in DOMAIN b /\ e[i] = b[i - k]
    BY <1>3
  <2>3. CASE i < k
    BY <1>1, <2>2, <2>3
  <2>4. CASE i > k
    <3>1. i - k \in DOMAIN b /\ e[i] = b[i - k]
      BY <2>2, <2>4
    <3>2. b[i - k].type \notin RunTypes
      BY <1>1, <3>1
    <3> QED BY <3>1, <3>2
  <2> QED BY <2>1, <2>3, <2>4
<1> QED BY <1>2, <1>4, Zenon DEF OnlyRun

\* At most one start joins the queue, for a generation that is new.
Newest(e) ==
  \A i \in DOMAIN e : e[i].type = "StartRunner" =>
    /\ e[i].gen = st'.RunnerGen /\ st'.RunnerGen = st.RunnerGen + 1
    /\ \A j \in DOMAIN e : e[j].type = "StartRunner" => i = j

\* The queue stays in order when a newest start joins it.
LEMMA QueueGrows ==
  ASSUME ActorTypeOK, EngineTypeOK, Runs, NEW e \in Seq(Effect), effects' = effects \o e,
         Newest(e), st'.RunnerGen \in {st.RunnerGen, st.RunnerGen + 1},
         UNCHANGED <<engineGen, starting>>
  PROVE  Queue'
<1> DEFINE L == Len(effects)
<1>1. st.RunnerGen \in Nat /\ \A m \in Modes : engineGen[m] \in Nat /\ engineGen[m] <= st.RunnerGen
  BY StateFields DEF ActorTypeOK, EngineTypeOK, Runs, Generations
<1>2. /\ L \in Nat
      /\ \A i \in DOMAIN effects : i <= L /\ effects'[i] = effects[i]
      /\ \A i \in DOMAIN effects' :
           /\ i \in Nat \ {0}
           /\ i <= L => i \in DOMAIN effects
           /\ i > L => i - L \in DOMAIN e /\ effects'[i] = e[i - L]
  BY GrownEffects
<1> HIDE DEF L
<1>3. ASSUME NEW i, starts(i)'
      PROVE  \/ i <= L /\ starts(i) /\ effects'[i] = effects[i] /\ i \in Nat
             \/ /\ i > L /\ i \in Nat /\ i - L \in DOMAIN e /\ effects'[i] = e[i - L]
                /\ e[i - L].type = "StartRunner"
                /\ effects'[i].gen = st.RunnerGen + 1 /\ st'.RunnerGen = st.RunnerGen + 1
  <2>1. i \in DOMAIN effects' /\ effects'[i].type = "StartRunner" /\ i \in Nat
    BY <1>2, <1>3, Zenon DEF starts
  <2>2. CASE i <= L
    BY <1>2, <2>1, <2>2, Zenon DEF starts
  <2>3. CASE i > L
    <3>1. i - L \in DOMAIN e /\ effects'[i] = e[i - L] /\ e[i - L].type = "StartRunner"
      BY <1>2, <2>1, <2>3, Zenon
    <3>2. e[i - L].gen = st'.RunnerGen /\ st'.RunnerGen = st.RunnerGen + 1
      BY <3>1, Zenon DEF Newest
    <3> QED BY <2>1, <2>3, <3>1, <3>2, Zenon
  <2> QED BY <1>2, <2>1, <2>2, <2>3
<1>4. ASSUME NEW i, starts(i)
      PROVE  /\ effects[i].gen <= st.RunnerGen /\ effects[i].gen \in Nat
             /\ (starting /\ i = 1) \/ \A m \in Modes : engineGen[m] < effects[i].gen
  BY <1>4, StartFields, Zenon DEF Runs, Queue
<1>5. ASSUME NEW i, starts(i)'
      PROVE  /\ effects'[i].gen <= st'.RunnerGen
             /\ (starting' /\ i = 1) \/ \A m \in Modes : engineGen'[m] < effects'[i].gen
  <2>1. CASE i <= L /\ starts(i) /\ effects'[i] = effects[i]
    <3>1. effects'[i].gen <= st'.RunnerGen
      BY <1>1, <1>4, <2>1
    <3> QED BY <1>4, <2>1, <3>1, Zenon
  <2>2. CASE effects'[i].gen = st.RunnerGen + 1 /\ st'.RunnerGen = st.RunnerGen + 1
    BY <1>1, <2>2
  <2> QED BY <1>3, <1>5, <2>1, <2>2
<1>6. ASSUME NEW i, NEW j, starts(i)', starts(j)', i < j
      PROVE  effects'[i].gen < effects'[j].gen
  <2>1. CASE i <= L /\ starts(i) /\ effects'[i] = effects[i]
    <3>1. CASE j <= L /\ starts(j) /\ effects'[j] = effects[j]
      BY <1>6, <2>1, <3>1, Zenon DEF Runs, Queue
    <3>2. CASE effects'[j].gen = st.RunnerGen + 1
      BY <1>1, <1>4, <2>1, <3>2
    <3> QED BY <1>3, <1>6, <3>1, <3>2
  <2>2. CASE i > L /\ i \in Nat /\ i - L \in DOMAIN e /\ e[i - L].type = "StartRunner"
    <3>1. j > L /\ j \in Nat /\ j - L \in DOMAIN e /\ e[j - L].type = "StartRunner"
      BY <1>2, <1>3, <1>6, <2>2
    <3>2. i - L = j - L
      BY <2>2, <3>1, Zenon DEF Newest
    <3> QED BY <1>2, <1>6, <2>2, <3>1, <3>2
  <2> QED BY <1>3, <1>6, <2>1, <2>2
<1> QED BY <1>5, <1>6, Zenon DEF Queue

\* What a turn does to the runs: nothing, a start for a new generation, or a
\* configuration of the one that runs.
TurnDrifts(e) ==
  /\ UNCHANGED <<st.RunnerGen>>
  /\ st'.FSM = "RemoteRunning" =>
       st.FSM = "RemoteRunning" /\ st'.AgentState.config = st.AgentState.config
  /\ \A i \in DOMAIN e : e[i].type \notin RunTypes

TurnStarts(e) ==
  /\ st'.RunnerGen = st.RunnerGen + 1
  /\ st'.FSM # "RemoteRunning"
  /\ Newest(e)

TurnConfigures(e) ==
  /\ UNCHANGED <<st.RunnerGen>>
  /\ st.FSM = "RemoteRunning" \/ readyFor(st, In)
  /\ \E k \in Nat \ {0} :
       OnlyRun(e, k, effApplyEngineConfig(st'.RunnerGen, st'.AgentState.config))

\* Every turn is of one of these kinds.
LEMMA TurnKinds ==
  ASSUME st' \in State, NEW e \in Seq(Effect), Gone(e)
  PROVE  TurnDrifts(e) \/ TurnStarts(e) \/ TurnConfigures(e)
<1> DEFINE r == Ret(st', e)
<1>1. r.st = st' /\ r.eff = e
  BY DEF Ret
<1>2. Steers(st, r, readyFor(st, In))
  BY Zenon DEF Gone
<1> HIDE DEF r
<1>3. CASE Drifts(st, r)
  <2>1. e \in Seq(NoRuns)
    BY <1>1, <1>3, Zenon DEF Drifts
  <2>2. \A i \in DOMAIN e : e[i].type \notin RunTypes
    BY <2>1 DEF NoRuns
  <2> QED BY <1>1, <1>3, <2>2, Zenon DEF Drifts, TurnDrifts
<1>4. CASE Restarts(st, r)
  <2>1. PICK a \in Seq(NoRuns), b \in Seq(NoRuns), x \in Effect :
          x.type = "StartRunner" /\ x.gen = st'.RunnerGen /\ e = a \o <<x>> \o b
    BY <1>1, <1>4, Zenon DEF Restarts, Starts
  <2>2. PICK k \in Nat \ {0} : OnlyRun(e, k, x)
    BY <2>1, OneRun, Zenon
  <2>3. st'.RunnerGen = st.RunnerGen + 1 /\ st'.FSM # "RemoteRunning"
    BY <1>1, <1>4, Zenon DEF Restarts, Starts
  <2>4. \A i \in DOMAIN e : e[i].type = "StartRunner" => i = k
    BY <2>2 DEF OnlyRun, RunTypes
  <2>5. \A i \in DOMAIN e : e[i].type = "StartRunner" => e[i] = x
    BY <2>2, <2>4, Zenon DEF OnlyRun
  <2> QED BY <2>1, <2>3, <2>4, <2>5, Zenon DEF Newest, TurnStarts
<1>5. CASE Configures(st, r, readyFor(st, In))
  <2> DEFINE x == effApplyEngineConfig(st'.RunnerGen, st'.AgentState.config)
  <2>1. PICK a \in Seq(NoRuns), b \in Seq(NoRuns) : e = a \o <<x>> \o b
    BY <1>1, <1>5, Zenon DEF Configures
  <2>2. x \in Effect
    BY StateFields, AgentStateFields, EffectTypes, Zenon DEF Quiet
  <2> HIDE DEF x
  <2>3. \E k \in Nat \ {0} : OnlyRun(e, k, x)
    BY <2>1, <2>2, OneRun, Zenon
  <2> QED BY <1>1, <1>5, <2>3, Zenon DEF Configures, TurnConfigures, x
<1> QED BY <1>2, <1>3, <1>4, <1>5, Zenon DEF Steers

\* The remote agent runs on in its generation, or is ready in it.
LEMMA TurnGeneration ==
  ASSUME ActorTypeOK, EngineTypeOK, Generations, Tags, inbox # <<>>,
         st.FSM = "RemoteRunning" \/ readyFor(st, In)
  PROVE  st.RunnerGen > 0 /\ engineGen["remote"] = st.RunnerGen
<1>1. CASE st.FSM = "RemoteRunning"
  BY <1>1, Zenon DEF Generations
<1>2. CASE readyFor(st, In)
  <2>1. 1 \in DOMAIN inbox /\ In = inbox[1]
    BY DEF ActorTypeOK, In
  <2>2. tagged(In)
    BY <2>1, Zenon DEF Tags
  <2>3. 0 < st.RunnerGen /\ st.RunnerGen <= engineGen["remote"]
    BY <1>2, <2>2, Zenon DEF tagged, readyFor
  <2>4. engineGen["remote"] <= st.RunnerGen /\ engineGen["remote"] \in Nat
    BY DEF Generations, EngineTypeOK, Modes
  <2>5. st.RunnerGen \in Nat
    BY StateFields DEF ActorTypeOK
  <2> QED BY <2>3, <2>4, <2>5
<1> QED BY <1>1, <1>2

\* Every turn keeps the invariant of the runs.
LEMMA TurnKeepsRuns ==
  ASSUME ActorTypeOK, ActorTypeOK', EngineTypeOK, StartHeld, Runs, Tags, GoesOn,
         UNCHANGED engineVars
  PROVE  Runs'
<1>1. PICK e \in Seq(Effect) : Gone(e)
  BY Zenon DEF GoesOn
<1>2. /\ inbox # <<>> /\ effects' = effects \o e
      /\ UNCHANGED <<engineGen, starting, live, engineActive, engineConfig>>
  BY <1>1, Zenon DEF Gone, engineVars
<1>3. TurnDrifts(e) \/ TurnStarts(e) \/ TurnConfigures(e)
  BY <1>1, TurnKinds, Zenon DEF ActorTypeOK
<1>4. Generations /\ Queue /\ UnderWay /\ Live /\ Config
  BY DEF Runs
<1>5. st.RunnerGen \in Nat /\ \A m \in Modes : engineGen[m] \in Nat
  BY StateFields DEF ActorTypeOK, EngineTypeOK
<1>6. st'.RunnerGen \in {st.RunnerGen, st.RunnerGen + 1} /\ Newest(e)
  <2>1. CASE TurnDrifts(e)
    BY <2>1 DEF TurnDrifts, Newest, RunTypes
  <2>2. CASE TurnStarts(e)
    BY <2>2, Zenon DEF TurnStarts
  <2>3. CASE TurnConfigures(e)
    <3>1. PICK k \in Nat \ {0} :
            OnlyRun(e, k, effApplyEngineConfig(st'.RunnerGen, st'.AgentState.config))
      BY <2>3, Zenon DEF TurnConfigures
    <3>2. e[k].type # "StartRunner"
      BY <3>1 DEF OnlyRun, effApplyEngineConfig
    <3>3. \A i \in DOMAIN e : e[i].type # "StartRunner"
      BY <3>1, <3>2 DEF OnlyRun, RunTypes
    <3> QED BY <2>3, <3>3, Zenon DEF Newest, TurnConfigures
  <2> QED BY <1>3, <2>1, <2>2, <2>3
<1>7. Queue'
  BY <1>2, <1>6, QueueGrows
<1>8. Live'
  BY <1>2, <1>4, Zenon DEF Live, otherMode
<1>9. UnderWay'
  <2> SUFFICES ASSUME starting PROVE UnderWay'
    BY <1>2, Zenon DEF UnderWay
  <2>1. effects # <<>>
    BY DEF StartHeld, NextEffect
  <2>2. Head(effects \o e) = Head(effects)
    BY <2>1 DEF ActorTypeOK
  <2>3. Effect1' = Effect1
    BY <1>2, <2>2, Zenon DEF Effect1
  <2> QED BY <1>2, <1>4, <2>3, Zenon DEF UnderWay, otherMode
<1>10. Generations'
  <2>1. st'.FSM = "RemoteRunning" => st'.RunnerGen > 0 /\ engineGen'["remote"] = st'.RunnerGen
    <3>1. CASE TurnDrifts(e)
      BY <1>2, <1>4, <3>1, Zenon DEF Generations, TurnDrifts
    <3>2. CASE TurnStarts(e)
      BY <3>2, Zenon DEF TurnStarts
    <3>3. CASE TurnConfigures(e)
      <4>1. st.RunnerGen > 0 /\ engineGen["remote"] = st.RunnerGen
        BY <1>2, <1>4, <3>3, TurnGeneration, Zenon DEF TurnConfigures
      <4> QED BY <1>2, <3>3, <4>1, Zenon DEF TurnConfigures
    <3> QED BY <1>3, <3>1, <3>2, <3>3
  <2>2. \A m \in Modes : engineGen'[m] <= st'.RunnerGen
    <3>1. \A m \in Modes : engineGen[m] <= st.RunnerGen
      BY <1>4, Zenon DEF Generations
    <3> QED BY <1>2, <1>5, <1>6, <3>1
  <2> QED BY <1>2, <1>4, <2>1, <2>2, Zenon DEF Generations
<1> DEFINE L == Len(effects)
<1>11. /\ L \in Nat
       /\ \A i \in DOMAIN effects : i <= L /\ i \in DOMAIN effects' /\ effects'[i] = effects[i]
       /\ \A i \in DOMAIN effects' :
            /\ i \in Nat \ {0}
            /\ i <= L => i \in DOMAIN effects
            /\ i > L => i - L \in DOMAIN e /\ effects'[i] = e[i - L]
       /\ \A i \in DOMAIN e : L + i \in DOMAIN effects' /\ effects'[L + i] = e[i]
  BY <1>2, GrownEffects
<1> HIDE DEF L
<1>12. ASSUME TurnDrifts(e), st'.FSM = "RemoteRunning"
       PROVE  Configured' \/ \E i : configuredLast(i)'
  <2>1. /\ st.FSM = "RemoteRunning" /\ st'.AgentState.config = st.AgentState.config
        /\ st'.RunnerGen = st.RunnerGen
        /\ \A i \in DOMAIN e : e[i].type \notin RunTypes
    BY <1>12, Zenon DEF TurnDrifts
  <2>2. ASSUME NEW i \in DOMAIN effects', i \in DOMAIN effects => effects[i].type \notin RunTypes
        PROVE  effects'[i].type \notin RunTypes
    <3>1. CASE i <= L
      BY <1>11, <2>2, <3>1, Zenon
    <3>2. CASE i > L
      BY <1>11, <2>1, <3>2, Zenon
    <3> QED BY <1>11, <3>1, <3>2
  <2>3. CASE Configured
    BY <1>2, <2>1, <2>2, <2>3, Zenon DEF Configured
  <2>4. ASSUME NEW k, configuredLast(k)
        PROVE  configuredLast(k)'
    <3>1. k \in DOMAIN effects' /\ effects'[k] = effects[k]
      BY <1>11, <2>4, Zenon DEF configuredLast
    <3>2. \A i \in DOMAIN effects' : i > k => effects'[i].type \notin RunTypes
      BY <2>2, <2>4, Zenon DEF configuredLast
    <3> QED BY <2>1, <2>4, <3>1, <3>2, Zenon DEF configuredLast
  <2> QED BY <1>4, <2>1, <2>3, <2>4, Zenon DEF Config
<1>13. ASSUME TurnConfigures(e)
       PROVE  \E i : configuredLast(i)'
  <2> DEFINE x == effApplyEngineConfig(st'.RunnerGen, st'.AgentState.config)
  <2>1. PICK k \in Nat \ {0} : OnlyRun(e, k, x)
    BY <1>13, Zenon DEF TurnConfigures
  <2> HIDE DEF x
  <2>2. L + k \in DOMAIN effects' /\ effects'[L + k] = x
    BY <1>11, <2>1, Zenon DEF OnlyRun
  <2>3. ASSUME NEW i \in DOMAIN effects', i > L + k
        PROVE  effects'[i].type \notin RunTypes
    <3>1. i > L /\ i - L # k
      BY <1>11, <2>1, <2>3
    <3> QED BY <1>11, <2>1, <3>1, Zenon DEF OnlyRun
  <2>4. ASSUME NEW n, n = L + k
        PROVE  configuredLast(n)'
    BY <2>2, <2>3, <2>4, Zenon DEF configuredLast, x
  <2> QED BY <2>4
<1>14. Config'
  BY <1>3, <1>12, <1>13, Zenon DEF Config, TurnStarts
<1> QED BY <1>7, <1>8, <1>9, <1>10, <1>14, Zenon DEF Runs

----------------------------------------------------------------------------
(* The reports of runners.                                                 *)

\* The i-th place of t holds what s held somewhere.
oldIn(s, t, i) == \E j \in DOMAIN s : t[i] = s[j]

\* What stands in an extended sequence is new or was there,
LEMMA AppendedOrOld ==
  ASSUME NEW S, NEW s \in Seq(S), NEW x \in S, NEW t, t = Append(s, x)
  PROVE  \A i \in DOMAIN t : oldIn(s, t, i) \/ t[i] = x
<1> SUFFICES ASSUME NEW i \in DOMAIN t, t[i] # x PROVE oldIn(s, t, i)
  OBVIOUS
<1>1. i \in DOMAIN s /\ t[i] = s[i]
  OBVIOUS
<1> QED BY <1>1 DEF oldIn

\* and what stands in the tail of one was there.
LEMMA TailOld ==
  ASSUME NEW S, NEW s \in Seq(S), s # <<>>, NEW t, t = Tail(s)
  PROVE  \A i \in DOMAIN t : oldIn(s, t, i)
<1> SUFFICES ASSUME NEW i \in DOMAIN t PROVE oldIn(s, t, i)
  OBVIOUS
<1>1. i + 1 \in DOMAIN s /\ t[i] = s[i + 1]
  OBVIOUS
<1> QED BY <1>1 DEF oldIn

\* Generations only grow.
LEMMA TaggedGrows ==
  ASSUME EngineTypeOK, EngineTypeOK', \A m \in Modes : engineGen[m] <= engineGen'[m]
  PROVE  /\ \A in \in Input : tagged(in) => tagged(in)'
         /\ \A ev \in EngineEvent : started(ev) => started(ev)'
<1>1. \A m \in Modes : engineGen[m] \in Nat /\ engineGen'[m] \in Nat
  BY DEF EngineTypeOK
<1>2. ASSUME NEW in \in Input, tagged(in)
      PROVE  tagged(in)'
  BY <1>1, <1>2, InputFields DEF tagged
<1>3. ASSUME NEW ev \in EngineEvent, started(ev)
      PROVE  started(ev)'
  BY <1>1, <1>3, EngineEventFields DEF started
<1> QED BY <1>2, <1>3

\* What joins the mailbox is tagged, and what joins the channel is of a run
\* that has been started.
OldInputs ==
  \A i \in DOMAIN inbox' :
    oldIn(inbox, inbox', i) \/ \A in : in = inbox'[i] => tagged(in)'

OldEvents ==
  \A i \in DOMAIN engineEvents' :
    oldIn(engineEvents, engineEvents', i)
    \/ \A ev : ev = engineEvents'[i] => started(ev)'

\* Reports that are tagged when they come in are tagged for good.
LEMMA ReportsKeepTags ==
  ASSUME ActorTypeOK, EngineTypeOK, EngineTypeOK', Tags, OldInputs, OldEvents,
         \A m \in Modes : engineGen[m] <= engineGen'[m]
  PROVE  Tags'
<1>1. /\ \A i \in DOMAIN inbox : inbox[i] \in Input /\ tagged(inbox[i])
      /\ \A i \in DOMAIN engineEvents : engineEvents[i] \in EngineEvent /\ started(engineEvents[i])
  BY DEF ActorTypeOK, EngineTypeOK, Tags
<1>2. ASSUME NEW i \in DOMAIN inbox', NEW in, in = inbox'[i]
      PROVE  tagged(in)'
  BY <1>1, <1>2, TaggedGrows, Zenon DEF OldInputs, oldIn
<1>3. ASSUME NEW i \in DOMAIN engineEvents', NEW ev, ev = engineEvents'[i]
      PROVE  started(ev)'
  BY <1>1, <1>3, TaggedGrows, Zenon DEF OldEvents, oldIn
<1> QED BY <1>2, <1>3, Zenon DEF Tags, tagged, started

\* When what joins the mailbox is in order,
LEMMA InputsReported ==
  ASSUME ActorTypeOK
  PROVE  /\ UNCHANGED inbox => OldInputs
         /\ inbox # <<>> /\ inbox' = Tail(inbox) => OldInputs
         /\ \A in \in Input : Post(in) /\ in.type # "evRunnerReady" => OldInputs
         /\ \A in \in Input : Post(in) /\ tagged(in)' => OldInputs
<1>1. inbox \in Seq(Input)
  BY DEF ActorTypeOK
<1>2. UNCHANGED inbox => OldInputs
  BY Zenon DEF OldInputs, oldIn
<1>3. inbox # <<>> /\ inbox' = Tail(inbox) => OldInputs
  BY <1>1, TailOld, Zenon DEF OldInputs
<1>4. ASSUME NEW in \in Input, Post(in), tagged(in)'
      PROVE  OldInputs
  <2>1. \A i \in DOMAIN inbox' : oldIn(inbox, inbox', i) \/ inbox'[i] = in
    BY <1>1, <1>4, AppendedOrOld, Zenon DEF Post
  <2> QED BY <1>4, <2>1, Zenon DEF OldInputs
<1>5. \A in \in Input : in.type # "evRunnerReady" => tagged(in)'
  BY Zenon DEF tagged
<1> QED BY <1>2, <1>3, <1>4, <1>5, Zenon

\* and when what joins the channel is.
LEMMA EventsReported ==
  ASSUME EngineTypeOK
  PROVE  /\ UNCHANGED engineEvents => OldEvents
         /\ engineEvents # <<>> /\ engineEvents' = Tail(engineEvents) => OldEvents
         /\ \A ev \in EngineEvent :
              engineEvents' = Append(engineEvents, ev) /\ ev.type # "Ready" => OldEvents
         /\ \A ev \in EngineEvent :
              engineEvents' = Append(engineEvents, ev) /\ started(ev)' => OldEvents
<1>1. engineEvents \in Seq(EngineEvent)
  BY DEF EngineTypeOK
<1>2. UNCHANGED engineEvents => OldEvents
  BY Zenon DEF OldEvents, oldIn
<1>3. engineEvents # <<>> /\ engineEvents' = Tail(engineEvents) => OldEvents
  BY <1>1, TailOld, Zenon DEF OldEvents
<1>4. ASSUME NEW ev \in EngineEvent, engineEvents' = Append(engineEvents, ev), started(ev)'
      PROVE  OldEvents
  <2>1. \A i \in DOMAIN engineEvents' :
          oldIn(engineEvents, engineEvents', i) \/ engineEvents'[i] = ev
    BY <1>1, <1>4, AppendedOrOld, Zenon
  <2> QED BY <1>4, <2>1, Zenon DEF OldEvents
<1>5. \A ev \in EngineEvent : ev.type # "Ready" => started(ev)'
  BY Zenon DEF started
<1> QED BY <1>2, <1>3, <1>4, <1>5, Zenon

\* Reports that leave the generations alone.
LEMMA StillTagged ==
  ASSUME ActorTypeOK, EngineTypeOK, EngineTypeOK', Tags, UNCHANGED engineGen, OldInputs, OldEvents
  PROVE  Tags'
<1>1. \A m \in Modes : engineGen[m] <= engineGen'[m]
  BY DEF EngineTypeOK
<1> QED BY <1>1, ReportsKeepTags

\* An engine event becomes an input with the generation of the moment.
LEMMA HandledIsTagged ==
  ASSUME ActorTypeOK, EngineTypeOK, Tags, HandleEngineEvent
  PROVE  OldInputs /\ OldEvents /\ UNCHANGED engineGen
<1> DEFINE ev == Head(engineEvents)
           in == inputOf(ev)
<1>1. /\ engineEvents # <<>> /\ Post(in) /\ engineEvents' = Tail(engineEvents)
      /\ UNCHANGED engineGen
  BY DEF HandleEngineEvent
<1>2. ev \in EngineEvent /\ 1 \in DOMAIN engineEvents /\ ev = engineEvents[1]
  BY <1>1 DEF EngineTypeOK
<1>3. in \in Input
  BY <1>2, InputOfType DEF EngineTypeOK
<1>4. ev.type \in {"Ready", "Exited", "Identified", "Working"} /\ ev.mode \in Modes
  BY <1>2, EngineEventFields
<1>5. started(ev)
  BY <1>2, Zenon DEF Tags
<1> HIDE DEF ev
<1>6. CASE ev.type # "Ready"
  <2>1. in.type # "evRunnerReady"
    BY <1>4, <1>6 DEF inputOf
  <2> HIDE DEF in
  <2> QED BY <1>1, <1>3, <2>1, InputsReported, EventsReported, Zenon
<1>7. CASE ev.type = "Ready"
  <2>1. in.mode = ev.mode /\ in.gen = engineGen[ev.mode]
    BY <1>7 DEF inputOf
  <2>2. engineGen[ev.mode] \in Nat /\ engineGen[ev.mode] > 0
    BY <1>4, <1>5, <1>7 DEF started, EngineTypeOK
  <2> HIDE DEF in
  <2>3. ASSUME NEW i, i = in
        PROVE  tagged(i)'
    BY <1>1, <2>1, <2>2, <2>3 DEF tagged
  <2>4. \E i \in Input : Post(i) /\ tagged(i)'
    BY <1>1, <1>3, <2>3, Zenon
  <2> QED BY <1>1, <2>4, InputsReported, EventsReported, Zenon
<1> QED BY <1>6, <1>7

\* The engines report only what has been started.
LEMMA EnginesKeepTags ==
  ASSUME TypeOK, EngineTypeOK', StartHeld, Runs, Tags, EnginesAct
  PROVE  Tags'
<1>1. ActorTypeOK /\ EngineTypeOK
  BY DEF TypeOK
<1>2. UNCHANGED inbox => OldInputs
  BY <1>1, InputsReported, Zenon
<1>3. UNCHANGED engineEvents => OldEvents
  BY <1>1, EventsReported, Zenon
<1>4. CASE \/ StopEngineLocal \/ StopEngineRemote \/ EngineRemoteSend \/ EngineRemoteAbort
           \/ ApplyEngineConfig \/ EngineLocalSendLine \/ SetTakebackWatcher \/ SendSucceeds
           \/ \E x \in sends : SendBegins(x)
           \/ \E m \in Modes, err \in Results : RunExits(m, err)
           \/ \E k \in {"takeback", "shutdown"} : PressKey(k)
  <2>1. UNCHANGED <<inbox, engineEvents, engineGen>>
    BY <1>4, Zenon DEF StopEngineLocal, StopEngineRemote, stopEngine, EngineRemoteSend,
       EngineRemoteAbort, ApplyEngineConfig, EngineLocalSendLine, SetTakebackWatcher,
       SendSucceeds, SendBegins, RunExits, PressKey, runVars, actorVars
  <2> QED BY <1>1, <1>2, <1>3, <2>1, StillTagged
<1>5. CASE StartEngine
  <2>1. effects # <<>> /\ ~starting /\ Effect1.type = "StartRunner"
    BY <1>5 DEF StartEngine, NextEffect
  <2>2. starts(1) /\ Effect1 = effects[1]
    BY <1>1, <2>1 DEF ActorTypeOK, starts, Effect1
  <2>3. \A m \in Modes : engineGen[m] < Effect1.gen
    BY <2>1, <2>2, Zenon DEF Runs, Queue
  <2>4. Effect1.mode \in Modes /\ Effect1.gen \in Nat
    BY <1>1, <2>2, StartFields
  <2>5. engineGen' = [engineGen EXCEPT ![Effect1.mode] = Effect1.gen]
        /\ UNCHANGED <<inbox, engineEvents>>
    BY <1>5 DEF StartEngine, actorVars
  <2>6. \A m \in Modes : engineGen[m] <= engineGen'[m]
    BY <1>1, <2>3, <2>4, <2>5 DEF EngineTypeOK
  <2> QED BY <1>1, <1>2, <1>3, <2>5, <2>6, ReportsKeepTags
<1>6. CASE EngineStarted
  <2> DEFINE ev == [type |-> "Ready", mode |-> Effect1.mode]
  <2>1. starting /\ engineEvents' = Append(engineEvents, ev) /\ UNCHANGED <<engineGen, inbox>>
    BY <1>6 DEF EngineStarted
  <2>2. /\ Effect1.mode \in Modes /\ Effect1.gen \in Nat \ {0}
        /\ engineGen[Effect1.mode] = Effect1.gen
    BY <1>1, <2>1, StartWhileRunning
  <2>3. ev \in EngineEvent
    BY <2>2, EngineEventTypes
  <2>4. ASSUME NEW x, x = ev
        PROVE  started(x)'
    BY <2>1, <2>2, <2>4 DEF started
  <2> HIDE DEF ev
  <2>5. \E x \in EngineEvent : engineEvents' = Append(engineEvents, x) /\ started(x)'
    BY <2>1, <2>3, <2>4, Zenon
  <2>6. OldEvents
    BY <1>1, <2>5, EventsReported, Zenon
  <2> QED BY <1>1, <1>2, <2>1, <2>6, StillTagged
<1>7. CASE EngineStartFails
  <2> DEFINE in == [type |-> "evRunnerExited", mode |-> Effect1.mode, gen |-> Effect1.gen,
                    err |-> "err", run |-> Effect1.gen]
  <2>1. starting /\ Post(in) /\ UNCHANGED <<engineGen, engineEvents>>
    BY <1>7 DEF EngineStartFails
  <2>2. Effect1.mode \in Modes /\ Effect1.gen \in Nat
    BY <1>1, <2>1, StartWhileRunning
  <2>3. in \in Input /\ in.type # "evRunnerReady"
    BY <2>2, InputTypes DEF Results
  <2> HIDE DEF in
  <2>4. OldInputs
    BY <1>1, <2>1, <2>3, InputsReported, Zenon
  <2> QED BY <1>1, <1>3, <2>1, <2>4, StillTagged
<1>8. ASSUME NEW x \in exiting, ReportExit(x)
      PROVE  Tags'
  <2> DEFINE ev == [type |-> "Exited", mode |-> x.mode, err |-> x.err, run |-> x.gen]
  <2>1. x.mode \in Modes /\ x.err \in Results /\ x.gen \in Nat
    BY <1>1 DEF EngineTypeOK, Run
  <2>2. ev \in EngineEvent /\ ev.type # "Ready"
    BY <2>1, EngineEventTypes
  <2>3. /\ UNCHANGED engineEvents \/ engineEvents' = Append(engineEvents, ev)
        /\ UNCHANGED <<engineGen, inbox>>
    BY <1>8 DEF ReportExit, actorVars
  <2> HIDE DEF ev
  <2>4. OldEvents
    BY <1>1, <2>2, <2>3, EventsReported, Zenon
  <2> QED BY <1>1, <1>2, <2>3, <2>4, StillTagged
<1>9. CASE HandleEngineEvent
  BY <1>1, <1>9, HandledIsTagged, StillTagged
<1>10. CASE EmitKey
  <2> DEFINE in == [type |-> IF pressed = "takeback" THEN "evDesktopTakeback" ELSE "cmdShutdown"]
  <2>1. in \in Input /\ in.type # "evRunnerReady"
    BY InputTypes
  <2>2. Post(in) /\ UNCHANGED <<engineGen, engineEvents>>
    BY <1>10 DEF EmitKey, runVars
  <2> HIDE DEF in
  <2>3. OldInputs
    BY <1>1, <2>1, <2>2, InputsReported, Zenon
  <2> QED BY <1>1, <1>3, <2>2, <2>3, StillTagged
<1>11. ASSUME NEW x \in sending, SendFails(x)
       PROVE  Tags'
  <2> DEFINE in == [type |-> "evRunnerExited", mode |-> "remote", gen |-> x.gen,
                    err |-> "err", run |-> x.gen]
  <2>1. in \in Input /\ in.type # "evRunnerReady"
    BY <1>1, InputTypes DEF EngineTypeOK, Send, Modes, Results
  <2>2. (Post(in) \/ UNCHANGED inbox) /\ UNCHANGED <<engineGen, engineEvents>>
    BY <1>11 DEF SendFails, runVars
  <2> HIDE DEF in
  <2>3. OldInputs
    BY <1>1, <2>1, <2>2, InputsReported, Zenon
  <2> QED BY <1>1, <1>3, <2>2, <2>3, StillTagged
<1>12. ASSUME NEW k, NEW ev \in EngineEvent, ev.type # "Ready", ReportFromRun(k, ev)
       PROVE  Tags'
  <2>1. engineEvents' = Append(engineEvents, ev) /\ UNCHANGED <<engineGen, inbox>>
    BY <1>12 DEF ReportFromRun
  <2>2. OldEvents
    BY <1>1, <1>12, <2>1, EventsReported, Zenon
  <2> QED BY <1>1, <1>2, <2>1, <2>2, StillTagged
<1>13. CASE \/ \E m \in Modes, token \in Tokens : Identify(m, token)
            \/ \E m \in Modes, w \in BOOLEAN : ReportWorking(m, w)
  BY <1>12, <1>13, EngineEventTypes DEF Identify, ReportWorking
<1> QED BY <1>4, <1>5, <1>6, <1>7, <1>8, <1>9, <1>10, <1>11, <1>13
        DEF EnginesAct, EngineStep, EngineStimulus

----------------------------------------------------------------------------
(* The invariant of the runs.                                              *)

RunsInv == Runs /\ Tags

\* Nothing has been started at the start.
LEMMA RunsInit == Init => RunsInv
<1> SUFFICES ASSUME Init PROVE RunsInv
  OBVIOUS
<1>1. /\ inbox = <<>> /\ effects = <<>> /\ engineEvents = <<>>
      /\ engineGen = [m \in Modes |-> 0] /\ live = [m \in Modes |-> 0] /\ starting = FALSE
      /\ st.FSM = "Closed" /\ st.RunnerGen = 0
  BY Zenon DEF Init, ActorInit, InitialState, EngineInit
<1>2. \A m \in Modes : otherMode(m) \in Modes /\ engineGen[m] = 0 /\ live[m] = 0
  BY <1>1 DEF otherMode, Modes
<1>3. Generations /\ Live
  BY <1>1, <1>2 DEF Generations, Live, Modes
<1>4. \A i : ~starts(i)
  BY <1>1 DEF starts
<1>5. Queue /\ UnderWay /\ Config
  BY <1>1, <1>4, Zenon DEF Queue, UnderWay, Config
<1>6. Tags
  BY <1>1 DEF Tags
<1> QED BY <1>3, <1>5, <1>6 DEF RunsInv, Runs

\* Every step keeps the invariant of the runs.
LEMMA RunsNext == IInv /\ RunsInv /\ [Next]_vars => RunsInv'
<1> SUFFICES ASSUME IInv, RunsInv, [Next]_vars PROVE RunsInv'
  OBVIOUS
<1>1. /\ TypeOK /\ StartHeld /\ ActorTypeOK /\ ActorTypeOK' /\ EngineTypeOK /\ EngineTypeOK'
      /\ Runs /\ Tags
  BY NextType DEF IInv, TypeOK, RunsInv
<1>2. CASE LoopTurns
  <2>1. UNCHANGED engineVars /\ inbox # <<>> /\ inbox' = Tail(inbox)
    BY <1>2, Zenon DEF LoopTurns, LoopStep, GoesOn, Gone
  <2>2. UNCHANGED <<engineGen, engineEvents>>
    BY <2>1, Zenon DEF engineVars
  <2>3. OldInputs /\ OldEvents
    BY <1>1, <2>1, <2>2, InputsReported, EventsReported, Zenon
  <2>4. Runs'
    BY <1>1, <1>2, <2>1, TurnKeepsRuns DEF LoopTurns
  <2> QED BY <1>1, <2>2, <2>3, <2>4, StillTagged DEF RunsInv
<1>3. CASE EnginesAct
  <2>1. Tags'
    BY <1>1, <1>3, EnginesKeepTags
  <2>2. Runs'
    BY <1>1, <1>3, EnginesRest, RestKeepsRuns, StartKeepsRuns, StartedKeepsRuns, ApplyKeepsRuns
  <2> QED BY <2>1, <2>2 DEF RunsInv
<1>4. CASE Aside
  <2>1. UNCHANGED <<engineGen, engineEvents>>
    BY <1>4, Zenon DEF Aside, engineVars
  <2>2. OldInputs /\ OldEvents
    BY <1>1, <1>4, <2>1, InputsReported, EventsReported, Zenon DEF Aside
  <2> QED BY <1>1, <1>4, <2>1, <2>2, AsideRest, RestKeepsRuns, StillTagged DEF RunsInv
<1> QED BY <1>2, <1>3, <1>4, StepKinds

\* The invariant of the runs is what the session promises of the remote agent.
LEMMA RunsConfigured == IInv /\ Runs => RemoteSessionConfigured
<1> SUFFICES ASSUME IInv, Runs, st.FSM = "RemoteRunning"
             PROVE  /\ live["local"] = 0
                    /\ effects = <<>> /\ live["remote"] # 0 => engineConfig = st.AgentState.config
  BY DEF RemoteSessionConfigured
<1>1. engineGen["local"] \in Nat /\ engineGen["remote"] \in Nat
  BY DEF IInv, TypeOK, EngineTypeOK, Modes
<1>2. engineGen["remote"] > engineGen["local"]
  BY <1>1 DEF Runs, Generations, Modes
<1>3. live["local"] = 0
  BY <1>2 DEF Runs, Live, otherMode, Modes
<1>4. effects = <<>> => Configured
  BY DEF Runs, Config, configuredLast
<1> QED BY <1>3, <1>4 DEF Configured

\* Whatever starts, exits, failures and changes of the configuration cross each
\* other: when the session runs remotely no local agent is alive, and once no
\* effect is queued its remote agent works with the configuration of agentState.
THEOREM RemoteConfigured == Spec => []RemoteSessionConfigured
<1>1. IInv /\ RunsInv /\ [Next]_vars => (IInv /\ RunsInv)'
  BY NextType, RunsNext
<1>2. IInv /\ RunsInv => RemoteSessionConfigured
  BY RunsConfigured DEF RunsInv
<1> QED BY <1>1, <1>2, InitType, RunsInit, PTL DEF Spec

=============================================================================
