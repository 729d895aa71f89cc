------------------------- MODULE SessionSystem_proofs -------------------------
(***************************************************************************)
(* Theorems about SessionSystem, for all values of its constants.  They     *)
(* rest on lemmas about the reducer: from a State and a well-typed input,   *)
(* every handler of SessionReducer returns a State and a sequence of        *)
(* effects; it makes at most one new revision of agentState; and the only   *)
(* request to persist it emits carries the revision and the version of the  *)
(* State it returns.                                                        *)
(***************************************************************************)
EXTENDS SessionSystem, TLAPS, SequenceTheorems

\* Short sequences and concatenations, for any set of elements.
LEMMA SeqType ==
  ASSUME NEW S
  PROVE  /\ <<>> \in Seq(S)
         /\ \A a \in S : <<a>> \in Seq(S)
         /\ \A a, b \in S : <<a, b>> \in Seq(S)
         /\ \A a, b, c \in S : <<a, b, c>> \in Seq(S)
         /\ \A p, q \in Seq(S) : p \o q \in Seq(S)
OBVIOUS

\* Effects that persist nothing, and those of a handler that ends in state n.
Quiet == {e \in Effect : e.type # "PersistAgentState"}
Publishing(n) == Quiet \cup {persistEffect(n)}

\* What a handler has to return.
WellTyped(r) == r.st \in State /\ r.eff \in Seq(Publishing(r.st))

\* n has the revision and the version of s, or the next revision of it.
Keeps(s, n) ==
  n.AgentStateJSON = s.AgentStateJSON /\ n.AgentStateVersion = s.AgentStateVersion
Follows(s, n) ==
  /\ n.AgentStateJSON.rev \in {s.AgentStateJSON.rev, s.AgentStateJSON.rev + 1}
  /\ n.AgentStateVersion = s.AgentStateVersion

Handled(s, r) == WellTyped(r) /\ Follows(s, r.st)

\* What a State is made of.
LEMMA StateFields ==
  ASSUME NEW s \in State
  PROVE  /\ s.FSM \in FSMState /\ s.Mode \in Modes
         /\ s.RunnerGen \in Nat
         /\ s.LocalRunner \in runnerHandle /\ s.RemoteRunner \in runnerHandle
         /\ s.ResumeToken \in Tokens \cup {None}
         /\ s.PendingSwitchReply \in Calls \cup {None}
         /\ s.PendingPermissionPromises \in [Requests -> Awaits \cup {None}]
         /\ s.AgentState \in AgentState
         /\ s.AgentStateJSON \in AgentStateJSON
         /\ s.AgentStateVersion \in Nat
         /\ s.PersistDebounceTimerArmed \in BOOLEAN
         /\ s.PersistRetryRemaining \in 0..1
         /\ s.PersistInFlight \in BOOLEAN
         /\ s.PersistWaiters \in Seq(Calls)
         /\ s.WSConnected \in BOOLEAN /\ s.Working \in BOOLEAN
         /\ s.PendingRemoteSends \in Seq(Messages)
BY Zenon DEF State

\* What the durable record is made of.
LEMMA AgentStateFields ==
  ASSUME NEW d \in AgentState
  PROVE  /\ d.controlledByUser \in BOOLEAN
         /\ d.config \in AgentConfig
         /\ d.config.model \in Models /\ d.config.permissionMode \in PermissionModes
         /\ d.resumeToken \in Tokens \cup {None}
         /\ d.requests \in SUBSET Requests
         /\ d.completedRequests \in [Requests -> Verdicts]
BY Zenon DEF AgentState, AgentConfig

\* Every effect constructor makes an Effect, and one of them persists.
LEMMA EffectTypes ==
  /\ \A g \in Nat : /\ effStopLocalRunner(g) \in Quiet
                    /\ effStopRemoteRunner(g) \in Quiet
                    /\ effRemoteAbort(g) \in Quiet
  /\ \A m \in Modes, g \in Nat, cfg \in AgentConfig : effStartRunner(m, g, cfg) \in Quiet
  /\ \A g \in Nat, m \in Messages : /\ effLocalSendLine(g, m) \in Quiet
                                    /\ effRemoteSend(g, m) \in Quiet
  /\ \A g \in Nat, cfg \in AgentConfig : effApplyEngineConfig(g, cfg) \in Quiet
  /\ \A j \in AgentStateJSON, v \in Nat : effPersistAgentState(j, v) \in Effect
  /\ effStartTimer \in Quiet
  /\ effCancelTimer \in Quiet
  /\ \A on \in BOOLEAN : effTakebackWatcher(on) \in Quiet
  /\ \A c \in Calls, r \in Results : effCompleteReply(c, r) \in Quiet
  /\ \A a \in Awaits, v \in Verdicts : effCompletePermissionDecision(a, v) \in Quiet
  /\ \A a \in Awaits : effSignalAck(a) \in Quiet
  /\ \A r \in Requests : effEmitPermissionRequest(r) \in Quiet
BY ZenonT(60) DEF Quiet, Effect, effStopLocalRunner, effStopRemoteRunner, effRemoteAbort,
       effStartRunner, effLocalSendLine, effRemoteSend, effApplyEngineConfig,
       effPersistAgentState, effStartTimer, effCancelTimer, effTakebackWatcher,
       effCompleteReply, effCompletePermissionDecision, effSignalAck, effEmitPermissionRequest

\* The effects of a handler are effects.
LEMMA PublishingType ==
  ASSUME NEW n \in State
  PROVE  /\ persistEffect(n) \in Publishing(n)
         /\ Publishing(n) \subseteq Effect
<1>1. persistEffect(n) \in Effect
  BY StateFields, EffectTypes, Zenon DEF persistEffect
<1> QED BY <1>1, Zenon DEF Publishing, Quiet

\* Quiet effects may accompany any state.
LEMMA QuietSeq ==
  ASSUME NEW n, NEW e \in Seq(Quiet)
  PROVE  e \in Seq(Publishing(n))
<1>1. Quiet \subseteq Publishing(n)
  BY Zenon DEF Publishing
<1> QED BY <1>1, SeqMonotonic

\* Ret pairs a state with its effects.
LEMMA RetType ==
  ASSUME NEW s \in State, NEW n \in State, Follows(s, n), NEW eff \in Seq(Publishing(n))
  PROVE  Handled(s, Ret(n, eff))
<1>1. Ret(n, eff).st = n /\ Ret(n, eff).eff = eff
  BY Zenon DEF Ret
<1> QED BY <1>1, Zenon DEF Handled, WellTyped

\* A handler that makes no revision and persists nothing.
LEMMA RetQuiet ==
  ASSUME NEW s \in State, NEW n \in State, Keeps(s, n), NEW eff \in Seq(Quiet)
  PROVE  Handled(s, Ret(n, eff))
<1>1. Follows(s, n)
  BY Zenon DEF Keeps, Follows
<1> QED BY <1>1, QuietSeq, RetType, Zenon

\* A handler that changes nothing at all in the State.
LEMMA RetSame ==
  ASSUME NEW s \in State, NEW eff \in Seq(Quiet)
  PROVE  Handled(s, Ret(s, eff))
BY RetQuiet, Zenon DEF Keeps

\* A handler that goes on after a quiet change, or does so with quiet effects.
LEMMA HandledLater ==
  ASSUME NEW s \in State, NEW n \in State, Keeps(s, n), NEW r, Handled(n, r)
  PROVE  Handled(s, r)
BY Zenon DEF Keeps, Follows, Handled

\* Quiet effects may be added before and after those of a handler.
LEMMA HandledWithQuiet ==
  ASSUME NEW s \in State, NEW r, Handled(s, r), NEW p \in Seq(Quiet), NEW q \in Seq(Quiet)
  PROVE  /\ Handled(s, Ret(r.st, p \o r.eff))
         /\ Handled(s, Ret(r.st, r.eff \o q))
         /\ Handled(s, Ret(r.st, p \o r.eff \o q))
<1>1. /\ p \o r.eff \in Seq(Publishing(r.st))
      /\ r.eff \o q \in Seq(Publishing(r.st))
      /\ p \o r.eff \o q \in Seq(Publishing(r.st))
  BY QuietSeq, SeqType, Zenon DEF Handled, WellTyped
<1> QED BY <1>1, RetType, Zenon DEF Handled, WellTyped

\* A reply is zero or one effects.
LEMMA ReplyType ==
  ASSUME NEW c \in Calls \cup {None}, NEW r \in Results
  PROVE  replyTo(c, r) \in Seq(Quiet)
BY EffectTypes DEF replyTo

\* All waiters are answered.
LEMMA WaitersType ==
  ASSUME NEW ws \in Seq(Calls), NEW r \in Results
  PROVE  completeWaiters(ws, r) \in Seq(Quiet)
<1>1. \A i \in 1..Len(ws) : effCompleteReply(ws[i], r) \in Quiet
  BY EffectTypes
<1> QED BY <1>1 DEF completeWaiters

\* The buffered messages become send effects.
LEMMA SendsType ==
  ASSUME NEW s \in State
  PROVE  remoteSends(s) \in Seq(Quiet) /\ localSendLines(s) \in Seq(Quiet)
<1>1. Len(s.PendingRemoteSends) \in Nat
      /\ \A i \in 1..Len(s.PendingRemoteSends) : s.PendingRemoteSends[i] \in Messages
  BY StateFields
<1>2. \A i \in 1..Len(s.PendingRemoteSends) :
         /\ effRemoteSend(s.RunnerGen, s.PendingRemoteSends[i]) \in Quiet
         /\ effLocalSendLine(s.RunnerGen, s.PendingRemoteSends[i]) \in Quiet
  BY <1>1, StateFields, EffectTypes
<1> QED BY <1>1, <1>2 DEF remoteSends, localSendLines

----------------------------------------------------------------------------
(* Persistence helpers.                                                    *)

\* Assigning AgentStateJSON makes the next revision.
LEMMA RevisionType ==
  ASSUME NEW s \in State, NEW n \in State, Keeps(s, n), NEW doc \in AgentState
  PROVE  /\ setAgentStateJSON(n, doc) \in State /\ Follows(s, setAgentStateJSON(n, doc))
         /\ refreshAgentStateJSON(n) \in State /\ Follows(s, refreshAgentStateJSON(n))
<1>1. \A d \in AgentState : /\ setAgentStateJSON(n, d) \in State
                            /\ Follows(s, setAgentStateJSON(n, d))
  <2> TAKE d \in AgentState
  <2> DEFINE json == [rev |-> n.AgentStateJSON.rev + 1, doc |-> d]
  <2>1. json \in AgentStateJSON /\ json.rev = s.AgentStateJSON.rev + 1
    BY StateFields DEF AgentStateJSON, Keeps
  <2> HIDE DEF json
  <2>2. setAgentStateJSON(n, d) = [n EXCEPT !.AgentStateJSON = json]
    BY Zenon DEF setAgentStateJSON, json
  <2>3. /\ [n EXCEPT !.AgentStateJSON = json] \in State
        /\ [n EXCEPT !.AgentStateJSON = json].AgentStateJSON = json
        /\ [n EXCEPT !.AgentStateJSON = json].AgentStateVersion = n.AgentStateVersion
    BY <2>1, Zenon DEF State
  <2> QED BY <2>1, <2>2, <2>3, Zenon DEF Follows, Keeps
<1>2. n.AgentState \in AgentState
  BY StateFields
<1> QED BY <1>1, <1>2, Zenon DEF refreshAgentStateJSON

\* Both ways to persist keep the revision they find.
LEMMA PersistNowType ==
  ASSUME NEW s \in State, NEW n \in State, Follows(s, n)
  PROVE  Handled(s, persistAgentStateImmediately(n))
<1> DEFINE m == [n EXCEPT !.PersistRetryRemaining = 1, !.PersistDebounceTimerArmed = FALSE,
                          !.PersistInFlight = TRUE]
<1>1. m \in State /\ Keeps(n, m)
  <2>1. 1 \in 0..1
    OBVIOUS
  <2> QED BY <2>1, Zenon DEF State, Keeps
<1> HIDE DEF m
<1>2. persistEffect(n) = persistEffect(m) /\ Follows(s, m)
  BY <1>1, Zenon DEF Keeps, Follows, persistEffect
<1>3. effCancelTimer \in Publishing(m) /\ persistEffect(n) \in Publishing(m)
  BY <1>2, EffectTypes, Zenon DEF Publishing
<1>4. <<effCancelTimer, persistEffect(n)>> \in Seq(Publishing(m))
  BY <1>3, SeqType, Zenon
<1> QED BY <1>1, <1>2, <1>4, RetType, Zenon DEF persistAgentStateImmediately, m

\* schedulePersistDebounced marks agentState dirty and starts the timer.
LEMMA DebounceType ==
  ASSUME NEW s \in State, NEW n \in State, Follows(s, n)
  PROVE  Handled(s, schedulePersistDebounced(n))
<1> DEFINE m == [n EXCEPT !.PersistRetryRemaining = 1, !.PersistDebounceTimerArmed = TRUE,
                          !.PersistInFlight = FALSE]
<1>1. m \in State /\ Keeps(n, m)
  <2>1. 1 \in 0..1
    OBVIOUS
  <2> QED BY <2>1, Zenon DEF State, Keeps
<1> HIDE DEF m
<1>2. Follows(s, m)
  BY <1>1, Zenon DEF Keeps, Follows
<1>3. <<effCancelTimer, effStartTimer>> \in Seq(Publishing(m))
  BY EffectTypes, SeqType, QuietSeq, Zenon
<1> QED BY <1>1, <1>2, <1>3, RetType, Zenon DEF schedulePersistDebounced, m

----------------------------------------------------------------------------
(* Mode switches and the runner lifecycle.                                 *)

\* A switch makes a State of a new, and hence positive, generation.
LEMMA SwitchedType ==
  ASSUME NEW s \in State, NEW target \in Modes, NEW reply \in Calls \cup {None}
  PROVE  /\ switchedTo(s, target, reply) \in State
         /\ Follows(s, switchedTo(s, target, reply))
         /\ switchedTo(s, target, reply).RunnerGen = s.RunnerGen + 1
<1> DEFINE gen == s.RunnerGen + 1
           handle == [gen |-> gen, running |-> FALSE]
           n == [s EXCEPT !.RunnerGen = gen,
                  !.PersistRetryRemaining = 1,
                  !.PersistDebounceTimerArmed = FALSE,
                  !.PendingSwitchReply = reply,
                  !.Mode = target,
                  !.FSM = IF target = "remote" THEN "RemoteStarting" ELSE "LocalStarting",
                  !.Working = FALSE,
                  !.LocalRunner = IF target = "local" THEN handle ELSE s.LocalRunner,
                  !.RemoteRunner = IF target = "remote" THEN handle ELSE s.RemoteRunner,
                  !.AgentState.controlledByUser = (target = "local")]
<1>1. gen \in Nat /\ handle \in runnerHandle /\ 1 \in 0..1
  BY StateFields DEF runnerHandle
<1>2. [s.AgentState EXCEPT !.controlledByUser = (target = "local")] \in AgentState
  BY Zenon, StateFields DEF AgentState
<1>3. (IF target = "remote" THEN "RemoteStarting" ELSE "LocalStarting") \in FSMState
  BY DEF FSMState, Starting
<1>4. /\ (IF target = "local" THEN handle ELSE s.LocalRunner) \in runnerHandle
      /\ (IF target = "remote" THEN handle ELSE s.RemoteRunner) \in runnerHandle
  BY <1>1, StateFields
<1> HIDE DEF handle
<1>5. n \in State /\ n.RunnerGen = gen /\ Keeps(s, n)
  <2> HIDE DEF gen
  <2> QED BY <1>1, <1>2, <1>3, <1>4, ZenonT(60) DEF State, Keeps
<1> HIDE DEF n
<1>6. switchedTo(s, target, reply) = refreshAgentStateJSON(n)
  BY Zenon DEF switchedTo, n, gen, handle
<1>7. refreshAgentStateJSON(n).RunnerGen = n.RunnerGen
  BY <1>5, Zenon DEF refreshAgentStateJSON, setAgentStateJSON, State
<1> QED BY <1>5, <1>6, <1>7, RevisionType, StateFields

\* The three effects that restart a runner.
LEMMA RestartType ==
  ASSUME NEW n \in State, n.RunnerGen # 0
  PROVE  restartEffects(n) \in Seq(Quiet)
<1>1. n.RunnerGen \in Nat /\ n.RunnerGen - 1 \in Nat /\ n.Mode \in Modes
      /\ n.AgentState.config \in AgentConfig
  BY StateFields, AgentStateFields
<1>2. /\ effStopLocalRunner(n.RunnerGen - 1) \in Quiet
      /\ effStopRemoteRunner(n.RunnerGen - 1) \in Quiet
      /\ effTakebackWatcher(FALSE) \in Quiet
      /\ effStartRunner(n.Mode, n.RunnerGen, n.AgentState.config) \in Quiet
  BY <1>1, EffectTypes, Zenon
<1>3. (IF n.Mode = "remote" THEN effStopLocalRunner(n.RunnerGen - 1)
                           ELSE effStopRemoteRunner(n.RunnerGen - 1)) \in Quiet
  BY <1>2, Zenon
<1> QED BY <1>2, <1>3, SeqType, Zenon DEF restartEffects

\* cmdSwitchMode, in every state of the FSM.
LEMMA SwitchModeType ==
  ASSUME NEW s \in State, NEW target \in Modes, NEW reply \in Calls \cup {None}
  PROVE  Handled(s, reduceSwitchMode(s, target, reply))
<1> DEFINE n == switchedTo(s, target, reply)
<1>1. CASE target = s.Mode /\ s.FSM \in Running
  <2>1. replyTo(reply, "ok") \in Seq(Quiet)
    BY ReplyType DEF Results
  <2> QED BY <1>1, <2>1, RetSame, Zenon DEF reduceSwitchMode
<1>2. CASE ~(target = s.Mode /\ s.FSM \in Running)
  <2>1. n \in State /\ n.RunnerGen # 0 /\ Follows(s, n)
    BY SwitchedType, StateFields
  <2> HIDE DEF n
  <2>2. restartEffects(n) \in Seq(Publishing(n))
    BY <2>1, RestartType, QuietSeq
  <2>3. effCancelTimer \in Publishing(n) /\ persistEffect(n) \in Publishing(n)
    BY EffectTypes, Zenon DEF Publishing
  <2>4. restartEffects(n) \o <<effCancelTimer, persistEffect(n)>> \in Seq(Publishing(n))
    BY <2>2, <2>3, SeqType, Zenon
  <2> QED BY <1>2, <2>1, <2>4, RetType, Zenon DEF reduceSwitchMode, n
<1> QED BY <1>1, <1>2

\* evRunnerReady.
LEMMA RunnerReadyType ==
  ASSUME NEW s \in State, NEW in, in.mode \in Modes, in.gen \in Nat
  PROVE  Handled(s, reduceRunnerReady(s, in))
<1> DEFINE handle == [gen |-> in.gen, running |-> TRUE]
           reply == replyTo(s.PendingSwitchReply, "ok")
           l == [s EXCEPT !.FSM = "LocalRunning", !.LocalRunner = handle,
                          !.PendingSwitchReply = None]
           r == [s EXCEPT !.FSM = "RemoteRunning", !.RemoteRunner = handle,
                          !.PendingSwitchReply = None, !.PendingRemoteSends = <<>>]
<1>1. handle \in runnerHandle
  BY DEF runnerHandle
<1>2. "LocalRunning" \in FSMState /\ "RemoteRunning" \in FSMState
      /\ <<>> \in Seq(Messages) /\ <<>> \in Seq(Quiet)
  BY DEF FSMState, Running
<1>3. reply \in Seq(Quiet)
  BY ReplyType, StateFields DEF Results
<1>4. l \in State /\ r \in State /\ Keeps(s, l) /\ Keeps(s, r)
  <2> HIDE DEF handle
  <2> QED BY <1>1, <1>2, Zenon DEF State, Keeps
<1>5. remoteReadyEffects(s) \in Seq(Quiet)
  <2>1. s.RunnerGen \in Nat /\ s.AgentState.config \in AgentConfig
    BY StateFields, AgentStateFields
  <2>2. /\ effTakebackWatcher(TRUE) \in Quiet
        /\ effApplyEngineConfig(s.RunnerGen, s.AgentState.config) \in Quiet
    BY <2>1, EffectTypes, Zenon
  <2>3. remoteSends(s) \in Seq(Quiet)
    BY SendsType
  <2> QED BY <2>2, <2>3, SeqType, Zenon DEF remoteReadyEffects
<1>6. reply \o remoteReadyEffects(s) \in Seq(Quiet)
  BY <1>3, <1>5, SeqType, Zenon
<1> QED BY <1>2, <1>3, <1>4, <1>6, RetQuiet, RetSame, Zenon DEF reduceRunnerReady

\* The exit of a runner is noted in its handle.
LEMMA RecordExitType ==
  ASSUME NEW s \in State, NEW in
  PROVE  recordExit(s, in) \in State /\ Keeps(s, recordExit(s, in))
<1> DEFINE b == s.LocalRunner.running /\ s.LocalRunner.gen # in.gen
           c == s.RemoteRunner.running /\ s.RemoteRunner.gen # in.gen
<1>1. /\ [s.LocalRunner EXCEPT !.running = b] \in runnerHandle
      /\ [s.RemoteRunner EXCEPT !.running = c] \in runnerHandle
  BY StateFields, Zenon DEF runnerHandle
<1> QED BY <1>1, Zenon DEF recordExit, State, Keeps

\* A failed start leaves a State with a local agent.
LEMMA FailStartType ==
  ASSUME NEW s \in State, NEW err \in Results
  PROVE  Handled(s, failStart(s, err))
<1> DEFINE reply == replyTo(s.PendingSwitchReply, err)
           failed == backToLocal(s)
           d == [failed EXCEPT !.PendingRemoteSends = <<>>, !.AgentState.controlledByUser = TRUE]
           p == schedulePersistDebounced(refreshAgentStateJSON(d))
<1>1. reply \in Seq(Quiet)
  BY ReplyType, StateFields
<1>2. "LocalRunning" \in FSMState /\ "local" \in Modes /\ <<>> \in Seq(Messages)
  BY DEF FSMState, Running, Modes
<1>3. failed \in State /\ Keeps(s, failed)
  BY <1>2, Zenon DEF backToLocal, State, Keeps
<1> HIDE DEF failed
<1>4. [failed EXCEPT !.Working = FALSE] \in State /\ Keeps(s, [failed EXCEPT !.Working = FALSE])
  BY <1>3, Zenon DEF State, Keeps
<1>5. [failed.AgentState EXCEPT !.controlledByUser = TRUE] \in AgentState
  BY <1>3, StateFields, Zenon DEF AgentState
<1>6. d \in State /\ Keeps(s, d)
  BY <1>2, <1>3, <1>5, Zenon DEF State, Keeps
<1> HIDE DEF d
<1>7. Handled(s, p)
  BY <1>6, RevisionType, StateFields, DebounceType, Zenon
<1> HIDE DEF p, reply
<1>8. reply \o localSendLines(s) \in Seq(Quiet)
  BY <1>1, SendsType, SeqType, Zenon
<1>9. Handled(s, Ret(p.st, reply \o localSendLines(s) \o p.eff))
  BY <1>7, <1>8, HandledWithQuiet, Zenon
<1> QED BY <1>1, <1>4, <1>9, RetQuiet, Zenon DEF failStart, failed, d, p, reply

\* The fallback to a new local run.
LEMMA FallBackType ==
  ASSUME NEW s \in State
  PROVE  Handled(s, fallBackToLocal(s))
<1> DEFINE gen == s.RunnerGen + 1
           handle == [gen |-> gen, running |-> FALSE]
           n == [s EXCEPT !.RunnerGen = gen,
                          !.Mode = "local",
                          !.FSM = "LocalStarting",
                          !.Working = FALSE,
                          !.LocalRunner = handle,
                          !.AgentState.controlledByUser = TRUE]
           p == schedulePersistDebounced(refreshAgentStateJSON(n))
<1>1. gen \in Nat /\ gen # 0 /\ handle \in runnerHandle
  BY StateFields DEF runnerHandle
<1>2. "LocalStarting" \in FSMState /\ "local" \in Modes
  BY DEF FSMState, Starting, Modes
<1>3. [s.AgentState EXCEPT !.controlledByUser = TRUE] \in AgentState
  BY StateFields, Zenon DEF AgentState
<1> HIDE DEF gen, handle
<1>4. n \in State /\ n.RunnerGen = gen /\ Keeps(s, n)
  BY <1>1, <1>2, <1>3, Zenon DEF State, Keeps
<1> HIDE DEF n
<1>5. refreshAgentStateJSON(n) \in State /\ refreshAgentStateJSON(n).RunnerGen = gen
  <2>1. refreshAgentStateJSON(n).RunnerGen = gen
    BY <1>4, Zenon DEF refreshAgentStateJSON, setAgentStateJSON, State
  <2> QED BY <2>1, <1>4, StateFields, RevisionType
<1>6. Handled(s, p)
  BY <1>4, RevisionType, StateFields, DebounceType, Zenon
<1>7. p.st.RunnerGen = gen
  BY <1>5, Zenon DEF schedulePersistDebounced, Ret, State
<1> HIDE DEF p
<1>8. restartEffects(p.st) \in Seq(Quiet)
  BY <1>1, <1>6, <1>7, RestartType, Zenon DEF Handled, WellTyped
<1>9. Handled(s, Ret(p.st, restartEffects(p.st) \o p.eff))
  BY <1>6, <1>8, HandledWithQuiet, SeqType, Zenon
<1> QED BY <1>9, Zenon DEF fallBackToLocal, p, n, gen, handle

\* evRunnerExited, with the failed start and the fall back to local.
LEMMA RunnerExitedType ==
  ASSUME NEW s \in State, NEW in, in.err \in Results
  PROVE  Handled(s, reduceRunnerExited(s, in))
<1> DEFINE n == recordExit(s, in)
<1>1. n \in State /\ Keeps(s, n)
  BY RecordExitType
<1> HIDE DEF n
<1>2. [n EXCEPT !.FSM = "Closed"] \in State /\ Keeps(s, [n EXCEPT !.FSM = "Closed"])
  <2>1. "Closed" \in FSMState
    BY DEF FSMState
  <2> QED BY <1>1, <2>1, Zenon DEF State, Keeps
<1>3. Handled(s, failStart(n, in.err)) /\ Handled(s, fallBackToLocal(n))
  BY <1>1, FailStartType, FallBackType, HandledLater, Zenon
<1>4. Handled(s, Ret(s, <<>>)) /\ Handled(s, Ret([n EXCEPT !.FSM = "Closed"], <<>>))
  BY <1>2, RetSame, RetQuiet, SeqType, Zenon
<1>5. CASE in.gen # s.RunnerGen
  BY <1>4, <1>5, Zenon DEF reduceRunnerExited
<1>6. CASE in.gen = s.RunnerGen /\ n.FSM \in Starting
  BY <1>3, <1>6, Zenon DEF reduceRunnerExited, n
<1>7. CASE in.gen = s.RunnerGen /\ n.FSM \notin Starting /\ n.FSM = "RemoteRunning"
  <2>1. reduceRunnerExited(s, in) = fallBackToLocal(n)
    BY <1>7 DEF reduceRunnerExited, n
  <2> QED BY <1>3, <2>1
<1>8. CASE in.gen = s.RunnerGen /\ n.FSM \notin Starting /\ n.FSM # "RemoteRunning"
  <2>1. reduceRunnerExited(s, in) = Ret([n EXCEPT !.FSM = "Closed"], <<>>)
    BY <1>8 DEF reduceRunnerExited, n
  <2> QED BY <1>4, <2>1
<1> QED BY <1>5, <1>6, <1>7, <1>8

\* cmdShutdown.
LEMMA ShutdownType ==
  ASSUME NEW s \in State
  PROVE  Handled(s, reduceShutdown(s))
<1>1. "Closing" \in FSMState
  BY DEF FSMState
<1>2. [s EXCEPT !.FSM = "Closing"] \in State /\ Keeps(s, [s EXCEPT !.FSM = "Closing"])
  BY <1>1, Zenon DEF State, Keeps
<1>3. /\ effStopLocalRunner(s.RunnerGen) \in Quiet
      /\ effStopRemoteRunner(s.RunnerGen) \in Quiet
      /\ effTakebackWatcher(FALSE) \in Quiet
  BY StateFields, EffectTypes, Zenon
<1> QED BY <1>2, <1>3, SeqType, RetQuiet, Zenon DEF reduceShutdown

----------------------------------------------------------------------------
(* Messages, configuration, identity.                                      *)

\* A turn starts.
LEMMA TurnType ==
  ASSUME NEW s \in State
  PROVE  maybeStartTurn(s) \in State /\ Keeps(s, maybeStartTurn(s))
BY Zenon DEF maybeStartTurn, State, Keeps

\* cmdInboundUserMessage: sent, buffered, or the reason to take control.
LEMMA InboundType ==
  ASSUME NEW s \in State, NEW msg \in Messages
  PROVE  Handled(s, reduceInboundUserMessage(s, msg))
<1> DEFINE buffered == [s EXCEPT !.PendingRemoteSends = Append(@, msg)]
           r == reduceSwitchMode(buffered, "remote", None)
<1>1. Append(s.PendingRemoteSends, msg) \in Seq(Messages)
  BY StateFields
<1>2. buffered \in State /\ Keeps(s, buffered)
  BY <1>1, Zenon DEF State, Keeps
<1> HIDE DEF buffered
<1>3. "remote" \in Modes
  BY DEF Modes
<1>4. Handled(s, r)
  BY <1>2, <1>3, SwitchModeType, HandledLater, Zenon
<1> HIDE DEF r
<1>5. Handled(s, Ret(maybeStartTurn(r.st), r.eff))
  <2> DEFINE n == maybeStartTurn(r.st)
  <2>1. n \in State /\ Keeps(r.st, n)
    BY <1>4, TurnType, Zenon DEF Handled, WellTyped
  <2> HIDE DEF n
  <2>2. Follows(s, n) /\ Publishing(n) = Publishing(r.st)
    BY <1>4, <2>1, Zenon DEF Handled, Follows, Keeps, Publishing, persistEffect
  <2> QED BY <1>4, <2>1, <2>2, RetType, Zenon DEF n, Handled, WellTyped
<1>6. <<effRemoteSend(s.RunnerGen, msg)>> \in Seq(Quiet)
  BY StateFields, EffectTypes, SeqType, Zenon
<1>7. Handled(s, Ret(maybeStartTurn(s), <<effRemoteSend(s.RunnerGen, msg)>>))
  BY <1>6, TurnType, RetQuiet, Zenon
<1>8. Handled(s, Ret(maybeStartTurn(buffered), <<>>))
  <2>1. Handled(buffered, Ret(maybeStartTurn(buffered), <<>>))
    BY <1>2, TurnType, RetQuiet, SeqType, Zenon
  <2> QED BY <1>2, <2>1, HandledLater, Zenon
<1> QED BY <1>5, <1>7, <1>8, Zenon DEF reduceInboundUserMessage, buffered, r

\* cmdRemoteSend.
LEMMA RemoteSendType ==
  ASSUME NEW s \in State, NEW msg \in Messages, NEW reply \in Calls \cup {None}
  PROVE  Handled(s, reduceRemoteSend(s, msg, reply))
<1>1. replyTo(reply, "ok") \in Seq(Quiet) /\ replyTo(reply, "err") \in Seq(Quiet)
  BY ReplyType DEF Results
<1>2. <<effRemoteSend(s.RunnerGen, msg)>> \in Seq(Quiet)
  BY StateFields, EffectTypes, SeqType, Zenon
<1>3. <<effRemoteSend(s.RunnerGen, msg)>> \o replyTo(reply, "ok") \in Seq(Quiet)
  BY <1>1, <1>2, SeqType, Zenon
<1> QED BY <1>1, <1>3, TurnType, RetQuiet, RetSame, Zenon DEF reduceRemoteSend

\* cmdAbortRemote.
LEMMA AbortType ==
  ASSUME NEW s \in State, NEW reply \in Calls \cup {None}
  PROVE  Handled(s, reduceAbortRemote(s, reply))
<1>1. replyTo(reply, "ok") \in Seq(Quiet) /\ replyTo(reply, "err") \in Seq(Quiet)
  BY ReplyType DEF Results
<1>2. <<effRemoteAbort(s.RunnerGen)>> \in Seq(Quiet)
  BY StateFields, EffectTypes, SeqType, Zenon
<1>3. <<effRemoteAbort(s.RunnerGen)>> \o replyTo(reply, "ok") \in Seq(Quiet)
  BY <1>1, <1>2, SeqType, Zenon
<1> QED BY <1>1, <1>3, RetSame, Zenon DEF reduceAbortRemote

\* cmdSetAgentConfig, refused, without effect, or a new revision.
LEMMA SetAgentConfigType ==
  ASSUME NEW s \in State, NEW in, in.model \in Models \cup {None},
         in.permissionMode \in PermissionModes \cup {None}, in.reply \in Calls \cup {None}
  PROVE  Handled(s, reduceSetAgentConfig(s, in))
<1> DEFINE keep(new, old) == IF new = None THEN old ELSE new
           cfg == [model |-> keep(in.model, s.AgentState.config.model),
                   permissionMode |-> keep(in.permissionMode,
                                           s.AgentState.config.permissionMode)]
           n == [s EXCEPT !.AgentState.config = cfg]
           p == persistAgentStateImmediately(refreshAgentStateJSON(n))
           apply == IF s.FSM = "RemoteRunning"
                    THEN <<effApplyEngineConfig(s.RunnerGen, cfg)>> ELSE <<>>
<1>1. cfg \in AgentConfig
  <2>1. s.AgentState.config.model \in Models
        /\ s.AgentState.config.permissionMode \in PermissionModes
    BY StateFields, AgentStateFields
  <2>2. keep(in.model, s.AgentState.config.model) \in Models
        /\ keep(in.permissionMode, s.AgentState.config.permissionMode) \in PermissionModes
    BY <2>1
  <2> QED BY <2>2, Zenon DEF AgentConfig
<1> HIDE DEF cfg
<1>2. [s.AgentState EXCEPT !.config = cfg] \in AgentState
  BY <1>1, StateFields, Zenon DEF AgentState
<1>3. n \in State /\ Keeps(s, n)
  BY <1>2, Zenon DEF State, Keeps
<1> HIDE DEF n
<1>4. Handled(s, p)
  BY <1>3, StateFields, RevisionType, PersistNowType, Zenon
<1> HIDE DEF p
<1>5. apply \in Seq(Quiet)
  BY <1>1, StateFields, EffectTypes, SeqType, Zenon
<1> HIDE DEF apply
<1>6. replyTo(in.reply, "ok") \in Seq(Quiet) /\ replyTo(in.reply, "err") \in Seq(Quiet)
  BY ReplyType DEF Results
<1>7. Handled(s, Ret(p.st, p.eff \o apply \o replyTo(in.reply, "ok")))
  <2>1. p.eff \o apply \o replyTo(in.reply, "ok") \in Seq(Publishing(p.st))
    BY <1>4, <1>5, <1>6, QuietSeq, SeqType, Zenon DEF Handled, WellTyped
  <2> QED BY <1>4, <2>1, RetType, Zenon DEF Handled, WellTyped
<1>8. Handled(s, Ret(s, replyTo(in.reply, "err"))) /\ Handled(s, Ret(s, replyTo(in.reply, "ok")))
  BY <1>6, RetSame, Zenon
<1>9. \/ reduceSetAgentConfig(s, in) = Ret(s, replyTo(in.reply, "err"))
      \/ reduceSetAgentConfig(s, in) = Ret(s, replyTo(in.reply, "ok"))
      \/ reduceSetAgentConfig(s, in) = Ret(p.st, p.eff \o apply \o replyTo(in.reply, "ok"))
  <2>1. CASE s.Mode # "remote" \/ s.AgentState.controlledByUser
    BY <2>1, Zenon DEF reduceSetAgentConfig
  <2>2. CASE /\ ~(s.Mode # "remote" \/ s.AgentState.controlledByUser)
             /\ cfg = s.AgentState.config
    BY <2>2, Zenon DEF reduceSetAgentConfig, cfg
  <2>3. CASE /\ ~(s.Mode # "remote" \/ s.AgentState.controlledByUser)
             /\ cfg # s.AgentState.config
    BY <2>3, Zenon DEF reduceSetAgentConfig, cfg, n, p, apply
  <2> QED BY <2>1, <2>2, <2>3
<1> QED BY <1>7, <1>8, <1>9, Zenon

\* evEngineSessionIdentified: a new resume token is a new revision.
LEMMA IdentifiedType ==
  ASSUME NEW s \in State, NEW in, in.token \in Tokens
  PROVE  Handled(s, reduceEngineSessionIdentified(s, in))
<1> DEFINE n == [s EXCEPT !.ResumeToken = in.token, !.AgentState.resumeToken = in.token]
<1>1. in.token \in Tokens \cup {None}
  OBVIOUS
<1>2. [s.AgentState EXCEPT !.resumeToken = in.token] \in AgentState
  BY <1>1, StateFields, Zenon DEF AgentState
<1>3. n \in State /\ Keeps(s, n)
  BY <1>1, <1>2, Zenon DEF State, Keeps
<1> HIDE DEF n
<1>4. Handled(s, schedulePersistDebounced(refreshAgentStateJSON(n)))
  BY <1>3, StateFields, RevisionType, DebounceType, Zenon
<1>5. Handled(s, Ret(s, <<>>))
  BY RetSame, SeqType, Zenon
<1> QED BY <1>4, <1>5, Zenon DEF reduceEngineSessionIdentified, n

----------------------------------------------------------------------------
(* Permission prompts.                                                     *)

\* The decision for a promise, if there is one.
LEMMA CompletePromiseType ==
  ASSUME NEW s \in State, NEW r \in Requests, NEW v \in Verdicts
  PROVE  completePromise(s, r, v) \in Seq(Quiet)
<1> DEFINE a == s.PendingPermissionPromises[r]
<1>1. a \in Awaits \cup {None}
  BY StateFields
<1> HIDE DEF a
<1>2. CASE a = None
  BY <1>2, SeqType, Zenon DEF completePromise, a
<1>3. CASE a # None
  <2>1. a \in Awaits
    BY <1>1, <1>3
  <2>2. <<effCompletePermissionDecision(a, v)>> \in Seq(Quiet)
    BY <2>1, EffectTypes, SeqType, Zenon
  <2> QED BY <1>3, <2>2, Zenon DEF completePromise, a
<1> QED BY <1>2, <1>3

\* cmdPermissionDecision.
LEMMA DecisionType ==
  ASSUME NEW s \in State, NEW in, in.request \in Requests, in.verdict \in {"allow", "deny"}
  PROVE  Handled(s, reducePermissionDecision(s, in))
<1> DEFINE r == in.request
           old == s.AgentState.completedRequests
           kept == IF Cardinality({q \in Requests : old[q] # "none"}) > MaxCompleted
                   THEN [q \in Requests |-> "none"] ELSE old
           done == [kept EXCEPT ![r] = in.verdict]
           left == s.AgentState.requests \ {r}
           promises == [s.PendingPermissionPromises EXCEPT ![r] = None]
           n == [s EXCEPT !.AgentState.requests = @ \ {r},
                          !.AgentState.completedRequests = [kept EXCEPT ![r] = in.verdict],
                          !.PendingPermissionPromises = [@ EXCEPT ![r] = None]]
           p == schedulePersistDebounced(refreshAgentStateJSON(n))
<1>1. in.verdict \in Verdicts /\ "none" \in Verdicts
  BY DEF Verdicts
<1>2. kept \in [Requests -> Verdicts]
  <2>1. old \in [Requests -> Verdicts]
    BY StateFields, AgentStateFields
  <2> HIDE DEF old
  <2>2. [q \in Requests |-> "none"] \in [Requests -> Verdicts]
    BY <1>1
  <2> QED BY <2>1, <2>2, Zenon
<1> HIDE DEF kept
<1>3. done \in [Requests -> Verdicts]
  BY <1>1, <1>2
<1>4. left \in SUBSET Requests
  BY StateFields, AgentStateFields
<1>5. promises \in [Requests -> Awaits \cup {None}]
  BY StateFields
<1> HIDE DEF done, left, promises
<1>6. [s.AgentState EXCEPT !.requests = left, !.completedRequests = done] \in AgentState
  BY <1>3, <1>4, StateFields, Zenon DEF AgentState
<1>7. n = [s EXCEPT !.AgentState = [s.AgentState EXCEPT !.requests = left,
                                                        !.completedRequests = done],
                    !.PendingPermissionPromises = promises]
  BY Zenon DEF done, left, promises, State
<1>8. n \in State /\ Keeps(s, n)
  BY <1>5, <1>6, <1>7, Zenon DEF State, Keeps
<1> HIDE DEF n
<1>9. Handled(s, p)
  BY <1>8, StateFields, RevisionType, DebounceType, Zenon
<1> HIDE DEF p
<1>10. Handled(s, Ret(p.st, completePromise(s, r, in.verdict) \o p.eff))
  BY <1>1, <1>9, CompletePromiseType, HandledWithQuiet, SeqType, Zenon
<1>11. Handled(s, Ret(s, <<>>))
  BY RetSame, SeqType, Zenon
<1> QED BY <1>10, <1>11, Zenon DEF reducePermissionDecision, kept, n, p

\* yolo and read-only have verdicts of their own.
LEMMA AutoVerdictType ==
  ASSUME NEW s
  PROVE  autoVerdict(s) \in Verdicts
BY DEF autoVerdict, Verdicts

\* cmdPermissionAwait: answered at once, or registered as a durable request.
LEMMA AwaitType ==
  ASSUME NEW s \in State, NEW in, in.await \in Awaits
  PROVE  Handled(s, reducePermissionAwait(s, in))
<1> DEFINE a == in.await
           r == RequestOf[a]
           auto == autoVerdict(s)
           done == [s.AgentState.completedRequests EXCEPT ![r] = auto]
           asked == s.AgentState.requests \cup {r}
           promises == [s.PendingPermissionPromises EXCEPT ![r] = a]
           finished == [s EXCEPT !.AgentState.completedRequests = [@ EXCEPT ![r] = auto]]
           promised == [s EXCEPT !.PendingPermissionPromises = [@ EXCEPT ![r] = a]]
           entered == [promised EXCEPT !.AgentState.requests = @ \cup {r}]
           resolved == persistAgentStateImmediately(refreshAgentStateJSON(finished))
           registered == schedulePersistDebounced(refreshAgentStateJSON(entered))
           decide == <<effSignalAck(a), effCompletePermissionDecision(a, auto)>>
           announce == <<effEmitPermissionRequest(r)>>
           again == <<effEmitPermissionRequest(r), effSignalAck(a)>>
<1>1. a \in Awaits /\ r \in Requests /\ auto \in Verdicts
  BY ConstantsOK, AutoVerdictType
<1> HIDE DEF a, r, auto
<1>2. /\ effSignalAck(a) \in Quiet
      /\ effCompletePermissionDecision(a, auto) \in Quiet
      /\ effEmitPermissionRequest(r) \in Quiet
  BY <1>1, EffectTypes, Zenon
<1>3. /\ decide \in Seq(Quiet) /\ announce \in Seq(Quiet) /\ again \in Seq(Quiet)
      /\ <<effSignalAck(a)>> \in Seq(Quiet)
  BY <1>2, SeqType, Zenon
<1> HIDE DEF decide, announce, again
<1>4. done \in [Requests -> Verdicts] /\ asked \in SUBSET Requests
  BY <1>1, StateFields, AgentStateFields
<1>5. promises \in [Requests -> Awaits \cup {None}]
  BY <1>1, StateFields
<1>6. promised = [s EXCEPT !.PendingPermissionPromises = promises]
  BY Zenon
<1>7. finished = [s EXCEPT !.AgentState = [s.AgentState EXCEPT !.completedRequests = done]]
  BY Zenon
<1> HIDE DEF done, promises
<1>8. [s.AgentState EXCEPT !.completedRequests = done] \in AgentState
  BY <1>4, StateFields, Zenon DEF AgentState
<1>9. /\ promised \in State /\ promised.AgentState = s.AgentState /\ Keeps(s, promised)
      /\ finished \in State /\ Keeps(s, finished)
  BY <1>5, <1>6, <1>7, <1>8, Zenon DEF State, Keeps
<1> HIDE DEF promised, finished
<1>10. entered = [promised EXCEPT !.AgentState = [s.AgentState EXCEPT !.requests = asked]]
  BY <1>9, Zenon
<1> HIDE DEF asked
<1>11. [s.AgentState EXCEPT !.requests = asked] \in AgentState
  BY <1>4, StateFields, Zenon DEF AgentState
<1>12. entered \in State /\ Keeps(s, entered)
  BY <1>9, <1>10, <1>11, Zenon DEF State, Keeps
<1> HIDE DEF entered
<1>13. Handled(s, resolved)
  BY <1>9, StateFields, RevisionType, PersistNowType, Zenon
<1>14. Handled(s, registered)
  BY <1>12, StateFields, RevisionType, DebounceType, Zenon
<1> HIDE DEF resolved, registered
<1>15. /\ Handled(s, Ret(resolved.st, resolved.eff \o decide))
       /\ Handled(s, Ret(promised, again))
       /\ Handled(s, Ret(registered.st, announce \o registered.eff \o <<effSignalAck(a)>>))
  BY <1>3, <1>9, <1>13, <1>14, RetQuiet, HandledWithQuiet, Zenon
<1>16. \/ reducePermissionAwait(s, in) = Ret(resolved.st, resolved.eff \o decide)
       \/ reducePermissionAwait(s, in) = Ret(promised, again)
       \/ reducePermissionAwait(s, in) =
            Ret(registered.st, announce \o registered.eff \o <<effSignalAck(a)>>)
  BY Zenon DEF reducePermissionAwait, a, r, auto, resolved, finished, promised, registered,
               entered, decide, announce, again
<1> QED BY <1>15, <1>16, Zenon

----------------------------------------------------------------------------
(* Persisting agentState.                                                  *)

\* cmdPersistAgentStateImmediate takes the caller's document.
LEMMA ImmediateType ==
  ASSUME NEW s \in State, NEW doc \in AgentState
  PROVE  Handled(s, reducePersistAgentStateImmediate(s, doc))
<1>1. Keeps(s, s)
  BY DEF Keeps
<1> QED BY <1>1, RevisionType, PersistNowType, Zenon DEF reducePersistAgentStateImmediate

\* cmdWaitForAgentStatePersist.
LEMMA WaitType ==
  ASSUME NEW s \in State, NEW reply \in Calls
  PROVE  Handled(s, reduceWaitForAgentStatePersist(s, reply))
<1> DEFINE w == [s EXCEPT !.PersistWaiters = Append(@, reply)]
<1>1. Append(s.PersistWaiters, reply) \in Seq(Calls)
  BY StateFields
<1>2. w \in State /\ Keeps(s, w)
  BY <1>1, Zenon DEF State, Keeps
<1> HIDE DEF w
<1>3. Follows(s, w)
  BY <1>2, Zenon DEF Keeps, Follows
<1>4. Handled(s, Ret(w, <<>>)) /\ Handled(s, persistAgentStateImmediately(w))
  BY <1>2, <1>3, RetQuiet, PersistNowType, SeqType, Zenon
<1> QED BY <1>4, Zenon DEF reduceWaitForAgentStatePersist, w

\* The server's answers, and only they, change the version the reducer knows.
Answered(s, in, r) ==
  /\ WellTyped(r)
  /\ r.st.AgentStateJSON = s.AgentStateJSON
  /\ r.st.AgentStateVersion \in {s.AgentStateVersion, in.version}

\* EvAgentStatePersisted ends the attempt and releases the waiters.
LEMMA PersistedType ==
  ASSUME NEW s \in State, NEW in, in.version \in Nat
  PROVE  Answered(s, in, reduceAgentStatePersisted(s, in))
<1> DEFINE v == IF in.version > 0 THEN in.version ELSE s.AgentStateVersion
           n == [s EXCEPT !.AgentStateVersion = v,
                          !.PersistRetryRemaining = 0,
                          !.PersistInFlight = FALSE,
                          !.PersistWaiters = <<>>]
           answers == completeWaiters(s.PersistWaiters, "ok")
<1>1. v \in Nat /\ v \in {s.AgentStateVersion, in.version}
  BY StateFields
<1>2. 0 \in 0..1 /\ <<>> \in Seq(Calls) /\ "ok" \in Results
  BY DEF Results
<1>3. answers \in Seq(Publishing(n))
  BY <1>2, StateFields, WaitersType, QuietSeq
<1>4. reduceAgentStatePersisted(s, in) = Ret(n, answers)
  BY Zenon DEF reduceAgentStatePersisted
<1> HIDE DEF v, answers
<1>5. n \in State /\ n.AgentStateJSON = s.AgentStateJSON /\ n.AgentStateVersion = v
  BY <1>1, <1>2, Zenon DEF State
<1> HIDE DEF n
<1>6. Ret(n, answers).st = n /\ Ret(n, answers).eff = answers
  BY Zenon DEF Ret
<1> QED BY <1>1, <1>3, <1>4, <1>5, <1>6, Zenon DEF Answered, WellTyped

\* EvAgentStateVersionMismatch takes the server's version and tries once more.
LEMMA MismatchType ==
  ASSUME NEW s \in State, NEW in, in.version \in Nat
  PROVE  Answered(s, in, reduceAgentStateVersionMismatch(s, in))
<1> DEFINE v == IF in.version > 0 THEN in.version ELSE s.AgentStateVersion
           n == [s EXCEPT !.AgentStateVersion = IF in.version > 0 THEN in.version ELSE @]
           m == [n EXCEPT !.PersistRetryRemaining = @ - 1,
                          !.PersistDebounceTimerArmed = FALSE,
                          !.PersistInFlight = TRUE]
<1>1. v \in Nat /\ v \in {s.AgentStateVersion, in.version}
  BY StateFields
<1>2. n = [s EXCEPT !.AgentStateVersion = v]
  BY Zenon
<1> HIDE DEF v
<1>3. /\ n \in State /\ n.AgentStateJSON = s.AgentStateJSON /\ n.AgentStateVersion = v
      /\ n.PersistRetryRemaining = s.PersistRetryRemaining
  BY <1>1, <1>2, Zenon DEF State
<1> HIDE DEF n
<1>4. ASSUME n.PersistRetryRemaining # 0
      PROVE  m \in State /\ Keeps(n, m)
  <2>1. n.PersistRetryRemaining - 1 \in 0..1
    BY <1>3, <1>4, StateFields
  <2> QED BY <1>3, <2>1, Zenon DEF State, Keeps
<1> HIDE DEF m
<1>5. CASE s.PersistRetryRemaining = 0
  <2>1. reduceAgentStateVersionMismatch(s, in) = Ret(n, <<>>)
    BY <1>5, Zenon DEF reduceAgentStateVersionMismatch, n
  <2>2. <<>> \in Seq(Publishing(n))
    BY SeqType, Zenon
  <2>3. Ret(n, <<>>).st = n /\ Ret(n, <<>>).eff = <<>>
    BY Zenon DEF Ret
  <2> QED BY <1>1, <1>3, <2>1, <2>2, <2>3, Zenon DEF Answered, WellTyped
<1>6. CASE s.PersistRetryRemaining # 0
  <2>1. reduceAgentStateVersionMismatch(s, in) = Ret(m, <<persistEffect(n)>>)
    BY <1>6, Zenon DEF reduceAgentStateVersionMismatch, n, m
  <2>2. m \in State /\ Keeps(n, m)
    BY <1>3, <1>4, <1>6
  <2>3. persistEffect(n) \in Publishing(m)
    BY <2>2, Zenon DEF Keeps, Publishing, persistEffect
  <2>4. <<persistEffect(n)>> \in Seq(Publishing(m))
    BY <2>3, SeqType, Zenon
  <2>5. Ret(m, <<persistEffect(n)>>).st = m /\ Ret(m, <<persistEffect(n)>>).eff = <<persistEffect(n)>>
    BY Zenon DEF Ret
  <2> QED BY <1>1, <1>3, <2>1, <2>2, <2>4, <2>5, Zenon DEF Answered, WellTyped, Keeps
<1> QED BY <1>5, <1>6

\* EvAgentStatePersistFailed starts the debounce again.
LEMMA FailedType ==
  ASSUME NEW s \in State
  PROVE  Handled(s, reduceAgentStatePersistFailed(s))
<1> DEFINE n == [s EXCEPT !.PersistInFlight = FALSE, !.PersistWaiters = <<>>]
           p == schedulePersistDebounced(n)
           failed == completeWaiters(s.PersistWaiters, "err")
<1>1. <<>> \in Seq(Calls) /\ "err" \in Results
  BY DEF Results
<1>2. n \in State /\ Keeps(s, n)
  BY <1>1, Zenon DEF State, Keeps
<1>3. failed \in Seq(Quiet)
  BY <1>1, StateFields, WaitersType
<1> HIDE DEF n, failed
<1>4. Follows(s, n)
  BY <1>2, Zenon DEF Keeps, Follows
<1>5. Handled(s, p)
  BY <1>2, <1>4, DebounceType
<1> HIDE DEF p
<1>6. Handled(s, Ret(p.st, failed \o p.eff)) /\ Handled(s, Ret(n, failed))
  BY <1>2, <1>3, <1>5, RetQuiet, HandledWithQuiet, SeqType, Zenon
<1> QED BY <1>6, Zenon DEF reduceAgentStatePersistFailed, n, p, failed

\* evTimerFired.
LEMMA TimerFiredType ==
  ASSUME NEW s \in State
  PROVE  Handled(s, reduceTimerFired(s))
<1> DEFINE n == [s EXCEPT !.PersistDebounceTimerArmed = FALSE, !.PersistRetryRemaining = 1]
<1>1. 1 \in 0..1
  OBVIOUS
<1>2. n \in State /\ Keeps(s, n)
  BY <1>1, Zenon DEF State, Keeps
<1> HIDE DEF n
<1>3. <<persistEffect(n)>> \in Seq(Publishing(n)) /\ Follows(s, n)
  BY <1>2, SeqType, Zenon DEF Publishing, Keeps, Follows
<1> QED BY <1>2, <1>3, RetType, Zenon DEF reduceTimerFired, n

\* evWSConnected persists again, evWSDisconnected only takes note.
LEMMA ConnectionTypes ==
  ASSUME NEW s \in State
  PROVE  Handled(s, reduceWSConnected(s)) /\ Handled(s, reduceWSDisconnected(s))
<1> DEFINE on == [s EXCEPT !.WSConnected = TRUE]
           off == [s EXCEPT !.WSConnected = FALSE]
<1>1. on \in State /\ Keeps(s, on) /\ off \in State /\ Keeps(s, off)
  BY Zenon DEF State, Keeps
<1> HIDE DEF on, off
<1>2. Follows(s, on)
  BY <1>1, Zenon DEF Keeps, Follows
<1> QED BY <1>1, <1>2, DebounceType, RetQuiet, SeqType, Zenon
        DEF reduceWSConnected, reduceWSDisconnected, on, off

----------------------------------------------------------------------------
(* What a well-typed input carries.                                        *)

\* The fields of an input, by its type.
LEMMA InputFields ==
  ASSUME NEW in \in Input
  PROVE  /\ in.type = "cmdSwitchMode" => in.target \in Modes /\ in.reply \in Calls \cup {None}
         /\ in.type = "cmdRemoteSend" => in.msg \in Messages /\ in.reply \in Calls \cup {None}
         /\ in.type = "cmdInboundUserMessage" => in.msg \in Messages
         /\ in.type = "cmdAbortRemote" => in.reply \in Calls \cup {None}
         /\ in.type = "cmdSetAgentConfig" =>
              /\ in.model \in Models \cup {None}
              /\ in.permissionMode \in PermissionModes \cup {None}
              /\ in.reply \in Calls \cup {None}
         /\ in.type = "cmdPermissionDecision" =>
              in.request \in Requests /\ in.verdict \in {"allow", "deny"}
         /\ in.type = "cmdPermissionAwait" => in.await \in Awaits
         /\ in.type = "cmdPersistAgentStateImmediate" => in.doc \in AgentState
         /\ in.type = "cmdWaitForAgentStatePersist" => in.reply \in Calls
         /\ in.type = "evRunnerReady" => in.mode \in Modes /\ in.gen \in Nat
         /\ in.type = "evRunnerExited" => in.mode \in Modes /\ in.gen \in Nat /\ in.err \in Results
         /\ in.type = "evEngineSessionIdentified" => in.token \in Tokens
         /\ in.type \in {"EvAgentStatePersisted", "EvAgentStateVersionMismatch"} =>
              in.version \in Nat
BY Zenon DEF Input

\* evEngineWorking.
LEMMA WorkingReduced ==
  ASSUME NEW s \in State, NEW in \in Input, in.type = "evEngineWorking"
  PROVE  Handled(s, reduceEngineWorking(s, in))
<1>1. in.working \in BOOLEAN
  BY Zenon DEF Input
<1> DEFINE n == [s EXCEPT !.Working = in.working]
<1>2. n \in State /\ Keeps(s, n)
  BY <1>1, Zenon DEF State, Keeps
<1>3. reduceEngineWorking(s, in) = Ret(n, <<>>) \/ reduceEngineWorking(s, in) = Ret(s, <<>>)
  BY Zenon DEF reduceEngineWorking
<1> HIDE DEF n
<1> QED BY <1>2, <1>3, RetQuiet, RetSame, SeqType, Zenon

\* The fields of an effect, by its type.
LEMMA EffectFields ==
  ASSUME NEW e \in Effect
  PROVE  /\ e.type = "StartRunner" => e.mode \in Modes /\ e.gen \in Nat /\ e.config \in AgentConfig
         /\ e.type \in {"LocalSendLine", "RemoteSend"} => e.gen \in Nat /\ e.msg \in Messages
         /\ e.type = "ApplyEngineConfig" => e.gen \in Nat /\ e.config \in AgentConfig
         /\ e.type = "PersistAgentState" => e.json \in AgentStateJSON /\ e.expected \in Nat
         /\ e.type = "TakebackWatcher" => e.on \in BOOLEAN
         /\ e.type = "CompleteReply" => e.call \in Calls /\ e.result \in Results
         /\ e.type = "CompletePermissionDecision" => e.await \in Awaits /\ e.verdict \in Verdicts
         /\ e.type = "SignalAck" => e.await \in Awaits
         /\ e.type = "EmitPermissionRequest" => e.request \in Requests
BY Zenon DEF Effect

\* The records the goroutines put into the mailbox are inputs.
LEMMA InputTypes ==
  /\ \A target \in Modes, reply \in Calls \cup {None} :
       [type |-> "cmdSwitchMode", target |-> target, reply |-> reply] \in Input
  /\ \A msg \in Messages, reply \in Calls \cup {None} :
       [type |-> "cmdRemoteSend", msg |-> msg, reply |-> reply] \in Input
  /\ \A msg \in Messages : [type |-> "cmdInboundUserMessage", msg |-> msg] \in Input
  /\ \A reply \in Calls \cup {None} : [type |-> "cmdAbortRemote", reply |-> reply] \in Input
  /\ \A model \in Models \cup {None}, pm \in PermissionModes \cup {None},
        reply \in Calls \cup {None} :
       [type |-> "cmdSetAgentConfig", model |-> model, permissionMode |-> pm,
        reply |-> reply] \in Input
  /\ \A r \in Requests, v \in {"allow", "deny"} :
       [type |-> "cmdPermissionDecision", request |-> r, verdict |-> v] \in Input
  /\ \A a \in Awaits : [type |-> "cmdPermissionAwait", await |-> a] \in Input
  /\ \A doc \in AgentState : [type |-> "cmdPersistAgentStateImmediate", doc |-> doc] \in Input
  /\ \A c \in Calls : [type |-> "cmdWaitForAgentStatePersist", reply |-> c] \in Input
  /\ \A t \in {"cmdShutdown", "evDesktopTakeback", "evWSConnected", "evWSDisconnected",
               "evTimerFired", "EvAgentStatePersistFailed"} : [type |-> t] \in Input
  /\ \A m \in Modes, g \in Nat : [type |-> "evRunnerReady", mode |-> m, gen |-> g] \in Input
  /\ \A m \in Modes, g, run \in Nat, err \in Results :
       [type |-> "evRunnerExited", mode |-> m, gen |-> g, err |-> err, run |-> run] \in Input
  /\ \A m \in Modes, g \in Nat, token \in Tokens :
       [type |-> "evEngineSessionIdentified", mode |-> m, gen |-> g, token |-> token] \in Input
  /\ \A m \in Modes, g \in Nat, w \in BOOLEAN :
       [type |-> "evEngineWorking", mode |-> m, gen |-> g, working |-> w] \in Input
  /\ \A t \in {"EvAgentStatePersisted", "EvAgentStateVersionMismatch"}, v \in Nat :
       [type |-> t, version |-> v] \in Input
BY ZenonT(60) DEF Input

\* The records the engines report are engine events.
LEMMA EngineEventTypes ==
  /\ \A m \in Modes : [type |-> "Ready", mode |-> m] \in EngineEvent
  /\ \A m \in Modes, err \in Results, run \in Nat :
       [type |-> "Exited", mode |-> m, err |-> err, run |-> run] \in EngineEvent
  /\ \A m \in Modes, token \in Tokens :
       [type |-> "Identified", mode |-> m, token |-> token] \in EngineEvent
  /\ \A m \in Modes, w \in BOOLEAN :
       [type |-> "Working", mode |-> m, working |-> w] \in EngineEvent
BY Zenon DEF EngineEvent

\* The fields of an engine event, by its type.
LEMMA EngineEventFields ==
  ASSUME NEW ev \in EngineEvent
  PROVE  /\ ev.type \in {"Ready", "Exited", "Identified", "Working"}
         /\ ev.mode \in Modes
         /\ ev.type = "Exited" => ev.err \in Results /\ ev.run \in Nat
         /\ ev.type = "Identified" => ev.token \in Tokens
         /\ ev.type = "Working" => ev.working \in BOOLEAN
BY Zenon DEF EngineEvent

----------------------------------------------------------------------------
(* The mailbox, the effect queue and the budget.                           *)

\* The next input is one, and leaves a mailbox of inputs.
LEMMA HeadOfInbox ==
  ASSUME ActorTypeOK, inbox # <<>>
  PROVE  In \in Input /\ Tail(inbox) \in Seq(Input)
BY HeadTailProperties DEF ActorTypeOK, In

\* The next effect is one, and leaves a queue of effects.
LEMMA HeadOfEffects ==
  ASSUME ActorTypeOK, effects # <<>>
  PROVE  Effect1 \in Effect /\ Tail(effects) \in Seq(Effect)
BY HeadTailProperties DEF ActorTypeOK, Effect1

\* The answers of the server to a request to persist.
Answers == {"EvAgentStatePersisted", "EvAgentStateVersionMismatch"}

\* The loop takes an input and only adds effects to the queue.  It changes the
\* revision and the version of agentState as its handlers are shown to.
Turned ==
  /\ inbox # <<>>
  /\ inbox' = Tail(inbox)
  /\ \E e \in Seq(Publishing(st')) : effects' = effects \o e
  /\ \/ Follows(st, st')
     \/ /\ In.type \in Answers
        /\ st'.AgentStateJSON = st.AgentStateJSON
        /\ st'.AgentStateVersion \in {st.AgentStateVersion, In.version}

\* A reducer that returns a State and effects keeps the actor well typed.
LEMMA HandleType ==
  ASSUME ActorTypeOK, NEW t, NEW r, Handle(t, r),
         Handled(st, r) \/ (t \in Answers /\ Answered(st, In, r))
  PROVE  ActorTypeOK' /\ Turned
<1>1. WellTyped(r)
  BY Zenon DEF Handled, Answered
<1>2. st' \in State /\ budget' \in [Stimuli -> Nat]
  BY <1>1 DEF ActorTypeOK, WellTyped, Handle
<1>3. inbox' \in Seq(Input)
  BY HeadOfInbox DEF Handle
<1>4. r.eff \in Seq(Publishing(st')) /\ r.eff \in Seq(Effect)
  <2>1. st' = r.st
    BY DEF Handle
  <2>2. r.eff \in Seq(Publishing(st'))
    BY <1>1, <2>1, Zenon DEF WellTyped
  <2>3. Publishing(st') \subseteq Effect
    BY <1>2, PublishingType, Zenon
  <2> QED BY <2>2, <2>3, SeqMonotonic
<1>5. effects' \in Seq(Effect)
  BY <1>4, SeqType DEF ActorTypeOK, Handle
<1>6. Turned
  BY <1>4, Zenon DEF Handle, Handled, Answered, Turned
<1> QED BY <1>2, <1>3, <1>5, <1>6 DEF ActorTypeOK

\* What a handler starts from.
LEMMA HandledInput ==
  ASSUME ActorTypeOK, NEW t, NEW r, Handle(t, r)
  PROVE  st \in State /\ In \in Input /\ In.type = t
BY HeadOfInbox DEF ActorTypeOK, Handle

\* Enqueue keeps the mailbox well typed.
LEMMA PostType ==
  ASSUME ActorTypeOK, NEW in \in Input, Post(in)
  PROVE  inbox' \in Seq(Input)
BY DEF ActorTypeOK, Post

\* A stimulus takes from a budget that is there.
LEMMA SpendType ==
  ASSUME ActorTypeOK, NEW k \in Stimuli, Spend(k)
  PROVE  budget' \in [Stimuli -> Nat]
<1>1. budget \in [Stimuli -> Nat] /\ "any" \in Stimuli
  BY DEF ActorTypeOK, Stimuli
<1> QED BY <1>1 DEF Spend

\* One turn of the loop.
LEMMA ReduceType ==
  ASSUME ActorTypeOK, Reduce
  PROVE  ActorTypeOK' /\ Turned
<1>1. CASE ReduceSwitchMode
  <2>1. Handled(st, reduceSwitchMode(st, In.target, In.reply))
    BY <1>1, HandledInput, InputFields, SwitchModeType DEF ReduceSwitchMode
  <2> QED BY <1>1, <2>1, HandleType DEF ReduceSwitchMode
<1>2. CASE ReduceDesktopTakeback
  <2>1. Handled(st, reduceSwitchMode(st, "local", None))
    BY <1>2, HandledInput, SwitchModeType DEF ReduceDesktopTakeback, Modes
  <2> QED BY <1>2, <2>1, HandleType DEF ReduceDesktopTakeback
<1>3. CASE ReduceRunnerReady
  <2>1. Handled(st, reduceRunnerReady(st, In))
    BY <1>3, HandledInput, InputFields, RunnerReadyType DEF ReduceRunnerReady
  <2> QED BY <1>3, <2>1, HandleType DEF ReduceRunnerReady
<1>4. CASE ReduceRunnerExited
  <2>1. Handled(st, reduceRunnerExited(st, In))
    BY <1>4, HandledInput, InputFields, RunnerExitedType DEF ReduceRunnerExited
  <2> QED BY <1>4, <2>1, HandleType DEF ReduceRunnerExited
<1>5. CASE ReduceShutdown
  <2>1. Handled(st, reduceShutdown(st))
    BY <1>5, HandledInput, ShutdownType DEF ReduceShutdown
  <2> QED BY <1>5, <2>1, HandleType DEF ReduceShutdown
<1>6. CASE ReduceInboundUserMessage
  <2>1. Handled(st, reduceInboundUserMessage(st, In.msg))
    BY <1>6, HandledInput, InputFields, InboundType DEF ReduceInboundUserMessage
  <2> QED BY <1>6, <2>1, HandleType DEF ReduceInboundUserMessage
<1>7. CASE ReduceRemoteSend
  <2>1. Handled(st, reduceRemoteSend(st, In.msg, In.reply))
    BY <1>7, HandledInput, InputFields, RemoteSendType DEF ReduceRemoteSend
  <2> QED BY <1>7, <2>1, HandleType DEF ReduceRemoteSend
<1>8. CASE ReduceAbortRemote
  <2>1. Handled(st, reduceAbortRemote(st, In.reply))
    BY <1>8, HandledInput, InputFields, AbortType DEF ReduceAbortRemote
  <2> QED BY <1>8, <2>1, HandleType DEF ReduceAbortRemote
<1>9. CASE ReduceEngineWorking
  <2>1. Handled(st, reduceEngineWorking(st, In))
    BY <1>9, HandledInput, WorkingReduced DEF ReduceEngineWorking
  <2> QED BY <1>9, <2>1, HandleType DEF ReduceEngineWorking
<1>10. CASE ReduceEngineSessionIdentified
  <2>1. Handled(st, reduceEngineSessionIdentified(st, In))
    BY <1>10, HandledInput, InputFields, IdentifiedType DEF ReduceEngineSessionIdentified
  <2> QED BY <1>10, <2>1, HandleType DEF ReduceEngineSessionIdentified
<1>11. CASE ReduceSetAgentConfig
  <2>1. Handled(st, reduceSetAgentConfig(st, In))
    BY <1>11, HandledInput, InputFields, SetAgentConfigType DEF ReduceSetAgentConfig
  <2> QED BY <1>11, <2>1, HandleType DEF ReduceSetAgentConfig
<1>12. CASE ReducePermissionAwait
  <2>1. Handled(st, reducePermissionAwait(st, In))
    BY <1>12, HandledInput, InputFields, AwaitType DEF ReducePermissionAwait
  <2> QED BY <1>12, <2>1, HandleType DEF ReducePermissionAwait
<1>13. CASE ReducePermissionDecision
  <2>1. Handled(st, reducePermissionDecision(st, In))
    BY <1>13, HandledInput, InputFields, DecisionType DEF ReducePermissionDecision
  <2> QED BY <1>13, <2>1, HandleType DEF ReducePermissionDecision
<1>14. CASE ReducePersistAgentStateImmediate
  <2>1. Handled(st, reducePersistAgentStateImmediate(st, In.doc))
    BY <1>14, HandledInput, InputFields, ImmediateType DEF ReducePersistAgentStateImmediate
  <2> QED BY <1>14, <2>1, HandleType DEF ReducePersistAgentStateImmediate
<1>15. CASE ReduceWaitForAgentStatePersist
  <2>1. Handled(st, reduceWaitForAgentStatePersist(st, In.reply))
    BY <1>15, HandledInput, InputFields, WaitType DEF ReduceWaitForAgentStatePersist
  <2> QED BY <1>15, <2>1, HandleType DEF ReduceWaitForAgentStatePersist
<1>16. CASE ReduceAgentStatePersisted
  <2>1. Answered(st, In, reduceAgentStatePersisted(st, In))
    BY <1>16, HandledInput, InputFields, PersistedType DEF ReduceAgentStatePersisted
  <2> QED BY <1>16, <2>1, HandleType DEF Answers, ReduceAgentStatePersisted
<1>17. CASE ReduceAgentStateVersionMismatch
  <2>1. Answered(st, In, reduceAgentStateVersionMismatch(st, In))
    BY <1>17, HandledInput, InputFields, MismatchType DEF ReduceAgentStateVersionMismatch
  <2> QED BY <1>17, <2>1, HandleType DEF Answers, ReduceAgentStateVersionMismatch
<1>18. CASE ReduceAgentStatePersistFailed
  <2>1. Handled(st, reduceAgentStatePersistFailed(st))
    BY <1>18, HandledInput, FailedType DEF ReduceAgentStatePersistFailed
  <2> QED BY <1>18, <2>1, HandleType DEF ReduceAgentStatePersistFailed
<1>19. CASE ReduceTimerFired
  <2>1. Handled(st, reduceTimerFired(st))
    BY <1>19, HandledInput, TimerFiredType DEF ReduceTimerFired
  <2> QED BY <1>19, <2>1, HandleType DEF ReduceTimerFired
<1>20. CASE ReduceWSConnected
  <2>1. Handled(st, reduceWSConnected(st))
    BY <1>20, HandledInput, ConnectionTypes DEF ReduceWSConnected
  <2> QED BY <1>20, <2>1, HandleType DEF ReduceWSConnected
<1>21. CASE ReduceWSDisconnected
  <2>1. Handled(st, reduceWSDisconnected(st))
    BY <1>21, HandledInput, ConnectionTypes DEF ReduceWSDisconnected
  <2> QED BY <1>21, <2>1, HandleType DEF ReduceWSDisconnected
<1> QED BY <1>1, <1>2, <1>3, <1>4, <1>5, <1>6, <1>7, <1>8, <1>9, <1>10, <1>11, <1>12, <1>13,
           <1>14, <1>15, <1>16, <1>17, <1>18, <1>19, <1>20, <1>21 DEF Reduce

----------------------------------------------------------------------------
(* The engine half of the runtime.                                         *)

\* While engine.Start is busy its effect stays at the head of the queue: the
\* typing of what EngineStarted reads from it depends on that.
StartHeld == starting => NextEffect("StartRunner")

\* Runs that are about to exit, with the detached one of a mode.
LEMMA ExitingType ==
  ASSUME EngineTypeOK, NEW m \in Modes
  PROVE  exitingWithout(m) \in SUBSET Run
<1>1. [mode |-> m, gen |-> live[m], err |-> "err"] \in Run
  BY DEF EngineTypeOK, Run, Results
<1> QED BY <1>1, Zenon DEF EngineTypeOK, exitingWithout

\* What the takeback watcher is told.
LEMMA WatcherType ==
  ASSUME NEW e \in Effect, e.type = "TakebackWatcher"
  PROVE  e.on \in BOOLEAN
BY Zenon DEF Effect

\* handleEngineEvent makes an input of every engine event.
LEMMA InputOfType ==
  ASSUME NEW ev \in EngineEvent, engineGen \in [Modes -> Nat]
  PROVE  inputOf(ev) \in Input
<1> DEFINE gen == engineGen[ev.mode]
<1>1. gen \in Nat /\ ev.mode \in Modes
  BY EngineEventFields
<1> HIDE DEF gen
<1>2. CASE ev.type = "Ready"
  <2>1. inputOf(ev) = [type |-> "evRunnerReady", mode |-> ev.mode, gen |-> gen]
    BY <1>2 DEF inputOf, gen
  <2> QED BY <1>1, <2>1, InputTypes
<1>3. CASE ev.type = "Exited"
  <2>1. inputOf(ev) = [type |-> "evRunnerExited", mode |-> ev.mode, gen |-> gen, err |-> ev.err,
                       run |-> ev.run]
    BY <1>3 DEF inputOf, gen
  <2>2. ev.err \in Results /\ ev.run \in Nat
    BY <1>3, EngineEventFields
  <2> QED BY <1>1, <2>1, <2>2, InputTypes
<1>4. CASE ev.type = "Identified"
  <2>1. inputOf(ev) = [type |-> "evEngineSessionIdentified", mode |-> ev.mode, gen |-> gen,
                       token |-> ev.token]
    BY <1>4 DEF inputOf, gen
  <2>2. ev.token \in Tokens
    BY <1>4, EngineEventFields
  <2> QED BY <1>1, <2>1, <2>2, InputTypes
<1>5. CASE ev.type = "Working"
  <2>1. inputOf(ev) = [type |-> "evEngineWorking", mode |-> ev.mode, gen |-> gen,
                       working |-> ev.working]
    BY <1>5, Zenon DEF inputOf, gen
  <2>2. ev.working \in BOOLEAN
    BY <1>5, Zenon DEF EngineEvent
  <2>3. [type |-> "evEngineWorking", mode |-> ev.mode, gen |-> gen, working |-> ev.working]
          \in [type : {"evEngineWorking"}, mode : Modes, gen : Nat, working : BOOLEAN]
    BY <1>1, <2>2, Zenon
  <2> QED BY <2>1, <2>3, Zenon DEF Input
<1> QED BY <1>2, <1>3, <1>4, <1>5, EngineEventFields

\* effStopLocalRunner and effStopRemoteRunner.
LEMMA StopEngineType ==
  ASSUME ActorTypeOK, EngineTypeOK, NEW m \in Modes, NEW type, stopEngine(m, type)
  PROVE  ActorTypeOK' /\ EngineTypeOK'
<1>1. ActorTypeOK'
  BY HeadOfEffects DEF stopEngine, ActorTypeOK, NextEffect, Executed
<1>2. engineActive' \in [Modes -> BOOLEAN]
  BY DEF stopEngine, EngineTypeOK
<1>3. live' \in [Modes -> Nat] /\ exiting' \in SUBSET Run
  <2>1. [live EXCEPT ![m] = 0] \in [Modes -> Nat] /\ exitingWithout(m) \in SUBSET Run
    BY ExitingType DEF EngineTypeOK
  <2>2. /\ live' = live \/ live' = [live EXCEPT ![m] = 0]
        /\ exiting' = exiting \/ exiting' = exitingWithout(m)
    BY Zenon DEF stopEngine
  <2> QED BY <2>1, <2>2 DEF EngineTypeOK
<1> QED BY <1>1, <1>2, <1>3 DEF stopEngine, EngineTypeOK, sendVars, takebackVars

\* What the runtime and the engines do by themselves.
LEMMA EngineStepType ==
  ASSUME ActorTypeOK, EngineTypeOK, StartHeld, EngineStep
  PROVE  ActorTypeOK' /\ EngineTypeOK'
<1>1. CASE StopEngineLocal \/ StopEngineRemote
  BY <1>1, StopEngineType DEF StopEngineLocal, StopEngineRemote, Modes
<1>2. CASE StartEngine
  <2>1. Effect1.mode \in Modes /\ Effect1.gen \in Nat /\ otherMode(Effect1.mode) \in Modes
    BY <1>2, HeadOfEffects, EffectFields DEF StartEngine, NextEffect, otherMode, Modes
  <2>2. engineGen' \in [Modes -> Nat] /\ live' \in [Modes -> Nat] /\ exiting' \in SUBSET Run
    BY <1>2, <2>1, ExitingType DEF StartEngine, EngineTypeOK
  <2>3. engineActive' \in [Modes -> BOOLEAN] /\ starting' \in BOOLEAN
    BY <1>2 DEF StartEngine, EngineTypeOK
  <2> QED BY <1>2, <2>2, <2>3 DEF StartEngine, EngineTypeOK, ActorTypeOK, actorVars, sendVars,
                                  takebackVars
<1>3. CASE EngineStarted
  <2>1. effects # <<>> /\ Effect1.type = "StartRunner"
    BY <1>3 DEF EngineStarted, StartHeld, NextEffect
  <2>2. Effect1.mode \in Modes /\ Effect1.gen \in Nat /\ Effect1.config \in AgentConfig
    BY <2>1, HeadOfEffects, EffectFields
  <2>3. live' \in [Modes -> Nat] /\ exiting' \in SUBSET Run
    BY <1>3, <2>2, ExitingType DEF EngineStarted, EngineTypeOK
  <2>4. engineEvents' \in Seq(EngineEvent)
    BY <1>3, <2>2, EngineEventTypes DEF EngineStarted, EngineTypeOK
  <2>5. engineConfig' \in AgentConfig /\ starting' \in BOOLEAN
    BY <1>3, <2>2 DEF EngineStarted, EngineTypeOK
  <2>6. ActorTypeOK'
    BY <1>3, <2>1, HeadOfEffects DEF EngineStarted, ActorTypeOK, Executed
  <2> QED BY <1>3, <2>3, <2>4, <2>5, <2>6 DEF EngineStarted, EngineTypeOK, sendVars, takebackVars
<1>4. ASSUME NEW x \in exiting, ReportExit(x)
      PROVE  ActorTypeOK' /\ EngineTypeOK'
  <2>1. x.mode \in Modes /\ x.err \in Results /\ x.gen \in Nat
    BY <1>4 DEF EngineTypeOK, Run
  <2> DEFINE report == [type |-> "Exited", mode |-> x.mode, err |-> x.err, run |-> x.gen]
  <2>2. report \in EngineEvent
    BY <2>1, EngineEventTypes
  <2>3. engineEvents' = engineEvents \/ engineEvents' = Append(engineEvents, report)
    BY <1>4 DEF ReportExit
  <2>4. engineEvents' \in Seq(EngineEvent)
    <3> HIDE DEF report
    <3>1. engineEvents \in Seq(EngineEvent)
      BY DEF EngineTypeOK
    <3>2. Append(engineEvents, report) \in Seq(EngineEvent)
      BY <2>2, <3>1, AppendProperties
    <3> QED BY <2>3, <3>1, <3>2
  <2> QED BY <1>4, <2>4 DEF ReportExit, EngineTypeOK, ActorTypeOK, actorVars, sendVars,
                            takebackVars
<1>5. CASE HandleEngineEvent
  <2>1. Head(engineEvents) \in EngineEvent /\ Tail(engineEvents) \in Seq(EngineEvent)
    BY <1>5, HeadTailProperties DEF HandleEngineEvent, EngineTypeOK
  <2>2. inputOf(Head(engineEvents)) \in Input
    BY <2>1, InputOfType DEF EngineTypeOK
  <2>3. inbox' \in Seq(Input)
    BY <1>5, <2>2, PostType DEF HandleEngineEvent
  <2> QED BY <1>5, <2>1, <2>3 DEF HandleEngineEvent, EngineTypeOK, ActorTypeOK, sendVars,
                                  takebackVars
<1>6. CASE EngineRemoteSend
  <2>1. Effect1.msg \in Messages /\ engineGen["remote"] \in Nat
    BY <1>6, HeadOfEffects, EffectFields DEF EngineRemoteSend, NextEffect, EngineTypeOK, Modes
  <2>2. sends' \in SUBSET Send /\ dispatched' \in Seq(Messages)
    <3> DEFINE x == [gen |-> engineGen["remote"], msg |-> Effect1.msg]
    <3>1. x \in Send
      BY <2>1 DEF Send
    <3>2. /\ sends' = sends \/ sends' = sends \cup {x}
          /\ dispatched' = dispatched \/ dispatched' = Append(dispatched, Effect1.msg)
      BY <1>6, Zenon DEF EngineRemoteSend
    <3> HIDE DEF x
    <3>3. sends \cup {x} \in SUBSET Send
      BY <3>1 DEF EngineTypeOK
    <3>4. Append(dispatched, Effect1.msg) \in Seq(Messages)
      BY <2>1 DEF EngineTypeOK
    <3> QED BY <3>2, <3>3, <3>4, Zenon DEF EngineTypeOK
  <2>3. ActorTypeOK'
    BY <1>6, HeadOfEffects DEF EngineRemoteSend, ActorTypeOK, NextEffect, Executed
  <2> QED BY <1>6, <2>2, <2>3 DEF EngineRemoteSend, EngineTypeOK, runVars, takebackVars
<1>7. ASSUME NEW x \in sends, SendBegins(x)
      PROVE  ActorTypeOK' /\ EngineTypeOK'
  BY <1>7 DEF SendBegins, EngineTypeOK, ActorTypeOK, actorVars, runVars, takebackVars
<1>8. CASE EngineRemoteAbort
  <2>1. ActorTypeOK'
    BY <1>8, HeadOfEffects DEF EngineRemoteAbort, ActorTypeOK, NextEffect, Executed
  <2> QED BY <1>8, <2>1 DEF EngineRemoteAbort, EngineTypeOK, runVars, takebackVars
<1>9. CASE ApplyEngineConfig
  <2>1. Effect1.config \in AgentConfig
    BY <1>9, HeadOfEffects, EffectFields DEF ApplyEngineConfig, NextEffect
  <2>2. engineConfig' \in AgentConfig
    BY <1>9, <2>1 DEF ApplyEngineConfig, EngineTypeOK
  <2>3. ActorTypeOK'
    BY <1>9, HeadOfEffects DEF ApplyEngineConfig, ActorTypeOK, NextEffect, Executed
  <2> QED BY <1>9, <2>2, <2>3 DEF ApplyEngineConfig, EngineTypeOK, sendVars, takebackVars
<1>10. CASE EngineLocalSendLine
  <2>1. Effect1.msg \in Messages
    BY <1>10, HeadOfEffects, EffectFields DEF EngineLocalSendLine, NextEffect
  <2>2. delivered' \in SUBSET Messages
    BY <1>10, <2>1 DEF EngineLocalSendLine, EngineTypeOK
  <2>3. ActorTypeOK'
    BY <1>10, HeadOfEffects DEF EngineLocalSendLine, ActorTypeOK, NextEffect, Executed
  <2> QED BY <1>10, <2>2, <2>3 DEF EngineLocalSendLine, EngineTypeOK, runVars, takebackVars
<1>11. CASE SetTakebackWatcher
  <2>1. watching' \in BOOLEAN
    BY <1>11, HeadOfEffects, WatcherType DEF SetTakebackWatcher, NextEffect
  <2>2. ActorTypeOK'
    BY <1>11, HeadOfEffects DEF SetTakebackWatcher, ActorTypeOK, NextEffect, Executed
  <2> QED BY <1>11, <2>1, <2>2 DEF SetTakebackWatcher, EngineTypeOK, runVars, sendVars
<1>12. CASE EmitKey
  <2>1. inbox' \in Seq(Input)
    BY <1>12, PostType, InputTypes DEF EmitKey
  <2> QED BY <1>12, <2>1 DEF EmitKey, EngineTypeOK, ActorTypeOK, runVars, sendVars
<1> QED BY <1>1, <1>2, <1>3, <1>4, <1>5, <1>6, <1>7, <1>8, <1>9, <1>10, <1>11, <1>12 DEF EngineStep

\* The end of a send, with its late failure as the exit of a runner.
LEMMA SendResultType ==
  ASSUME ActorTypeOK, EngineTypeOK,
         SendSucceeds \/ \E x \in sending : SendFails(x)
  PROVE  ActorTypeOK' /\ EngineTypeOK'
<1>1. CASE SendSucceeds
  <2>1. delivered' \in SUBSET Messages
    BY <1>1 DEF SendSucceeds, EngineTypeOK, Send
  <2> QED BY <1>1, <2>1 DEF SendSucceeds, EngineTypeOK, ActorTypeOK, actorVars, runVars,
                            takebackVars
<1>2. ASSUME NEW x \in sending, SendFails(x)
      PROVE  ActorTypeOK' /\ EngineTypeOK'
  <2>1. x.gen \in Nat /\ "remote" \in Modes /\ "err" \in Results
    BY DEF EngineTypeOK, Send, Modes, Results
  <2>2. [type |-> "evRunnerExited", mode |-> "remote", gen |-> x.gen, err |-> "err",
         run |-> x.gen] \in Input
    BY <2>1, InputTypes
  <2>3. inbox' \in Seq(Input)
    BY <1>2, <2>2, PostType DEF SendFails, ActorTypeOK
  <2>4. budget' \in [Stimuli -> Nat]
    BY <1>2, SpendType DEF SendFails, ActorTypeOK, Stimuli
  <2> QED BY <1>2, <2>3, <2>4 DEF SendFails, EngineTypeOK, ActorTypeOK, runVars, takebackVars
<1> QED BY <1>1, <1>2

\* An event reported by a run that is attached.
LEMMA ReportFromRunType ==
  ASSUME ActorTypeOK, EngineTypeOK, NEW k \in Stimuli, NEW ev \in EngineEvent,
         ReportFromRun(k, ev)
  PROVE  ActorTypeOK' /\ EngineTypeOK'
<1>1. engineEvents' \in Seq(EngineEvent)
  BY DEF ReportFromRun, EngineTypeOK
<1>2. budget' \in [Stimuli -> Nat]
  BY SpendType DEF ReportFromRun
<1> QED BY <1>1, <1>2 DEF ReportFromRun, EngineTypeOK, ActorTypeOK, sendVars, takebackVars

\* Starts that fail, exits, events and keys.
LEMMA EngineStimulusType ==
  ASSUME ActorTypeOK, EngineTypeOK, StartHeld, EngineStimulus
  PROVE  ActorTypeOK' /\ EngineTypeOK'
<1> USE DEF Stimuli
<1>1. CASE EngineStartFails
  <2>1. effects # <<>> /\ Effect1.type = "StartRunner"
    BY <1>1 DEF EngineStartFails, StartHeld, NextEffect
  <2>2. Effect1.mode \in Modes /\ Effect1.gen \in Nat /\ "err" \in Results
    BY <2>1, HeadOfEffects, EffectFields DEF Results
  <2>3. inbox' \in Seq(Input)
    BY <1>1, <2>2, PostType, InputTypes DEF EngineStartFails
  <2>4. budget' \in [Stimuli -> Nat]
    BY <1>1, SpendType DEF EngineStartFails
  <2> QED BY <1>1, <2>1, <2>3, <2>4, HeadOfEffects DEF EngineStartFails, EngineTypeOK, ActorTypeOK,
                                                      Executed, sendVars, takebackVars
<1>2. ASSUME NEW m \in Modes, NEW err \in Results, RunExits(m, err)
      PROVE  ActorTypeOK' /\ EngineTypeOK'
  <2>1. [mode |-> m, gen |-> live[m], err |-> err] \in Run
    BY DEF EngineTypeOK, Run
  <2>2. live' \in [Modes -> Nat] /\ exiting' \in SUBSET Run
    BY <1>2, <2>1 DEF RunExits, EngineTypeOK
  <2>3. budget' \in [Stimuli -> Nat]
    BY <1>2, SpendType DEF RunExits
  <2> QED BY <1>2, <2>2, <2>3 DEF RunExits, EngineTypeOK, ActorTypeOK, sendVars, takebackVars
<1>3. ASSUME NEW m \in Modes, NEW token \in Tokens, Identify(m, token)
      PROVE  ActorTypeOK' /\ EngineTypeOK'
  BY <1>3, ReportFromRunType, EngineEventTypes DEF Identify
<1>4. ASSUME NEW m \in Modes, NEW w \in BOOLEAN, ReportWorking(m, w)
      PROVE  ActorTypeOK' /\ EngineTypeOK'
  <2>1. [type |-> "Working", mode |-> m, working |-> w] \in EngineEvent /\ "working" \in Stimuli
    BY EngineEventTypes, Zenon
  <2> QED BY <1>4, <2>1, ReportFromRunType, Zenon DEF ReportWorking
<1>5. ASSUME NEW k \in {"takeback", "shutdown"}, PressKey(k)
      PROVE  ActorTypeOK' /\ EngineTypeOK'
  <2>1. budget' \in [Stimuli -> Nat]
    BY <1>5, SpendType DEF PressKey
  <2> QED BY <1>5, <2>1 DEF PressKey, EngineTypeOK, ActorTypeOK, runVars, sendVars
<1> QED BY <1>1, <1>2, <1>3, <1>4, <1>5, Zenon DEF EngineStimulus

----------------------------------------------------------------------------
(* The persistence half.                                                   *)

\* The row after the server's transaction.
LEMMA ServerAfterType ==
  ASSUME SyncTypeOK, NEW u, u.json \in AgentStateJSON
  PROVE  serverAfter(u) \in ServerRow
BY DEF SyncTypeOK, ServerRow, serverAfter

\* What comes of a request is an input.
LEMMA AnswerType ==
  ASSUME NEW u \in Update
  PROVE  answerOf(u) \in Input
<1>1. u.version \in Nat
  BY DEF Update
<1> QED BY <1>1, InputTypes DEF answerOf

\* A call that ends leaves the others.
LEMMA RemoveUpdateType ==
  ASSUME SyncTypeOK, NEW i \in DOMAIN updates
  PROVE  updates[i] \in Update /\ RemoveAt(updates, i) \in Seq(Update)
BY DEF SyncTypeOK, RemoveAt

\* The timer, the requests and their answers.
LEMMA SyncStepType ==
  ASSUME ActorTypeOK, SyncTypeOK, SyncStep
  PROVE  ActorTypeOK' /\ SyncTypeOK'
<1>1. CASE StartTimer
  BY <1>1, HeadOfEffects DEF StartTimer, NextEffect, Executed, ActorTypeOK, SyncTypeOK
<1>2. CASE CancelTimer
  BY <1>2, HeadOfEffects DEF CancelTimer, NextEffect, Executed, ActorTypeOK, SyncTypeOK
<1>3. CASE TimerCallback
  <2>1. inbox' \in Seq(Input)
    BY <1>3, PostType, InputTypes DEF TimerCallback
  <2> QED BY <1>3, <2>1 DEF TimerCallback, ActorTypeOK, SyncTypeOK
<1>4. CASE PersistAgentState
  <2> DEFINE u == [json |-> Effect1.json, expected |-> Effect1.expected,
                   phase |-> IF online THEN "sent" ELSE "refused", version |-> 0]
  <2>1. Effect1.json \in AgentStateJSON /\ Effect1.expected \in Nat
    BY <1>4, HeadOfEffects, EffectFields DEF PersistAgentState, NextEffect
  <2>2. u \in Update
    BY <2>1 DEF Update
  <2>3. updates' = updates \/ updates' = Append(updates, u)
    BY <1>4, Zenon DEF PersistAgentState
  <2> HIDE DEF u
  <2>4. updates' \in Seq(Update)
    BY <2>2, <2>3 DEF SyncTypeOK
  <2>5. ActorTypeOK'
    BY <1>4, HeadOfEffects DEF PersistAgentState, NextEffect, Executed, ActorTypeOK
  <2> QED BY <1>4, <2>4, <2>5 DEF PersistAgentState, SyncTypeOK
<1>5. ASSUME NEW i \in DOMAIN updates, UpdateArrives(i)
      PROVE  ActorTypeOK' /\ SyncTypeOK'
  <2> DEFINE u == updates[i]
             v == [u EXCEPT !.phase = IF accepted(u) THEN "ok" ELSE "mismatch",
                            !.version = serverAfter(u).version]
  <2>1. u \in Update /\ u.json \in AgentStateJSON
    <3>1. u \in Update
      BY RemoveUpdateType
    <3> QED BY <3>1 DEF Update
  <2>2. serverAfter(u) \in ServerRow /\ serverAfter(u).version \in Nat
    BY <2>1, ServerAfterType DEF ServerRow
  <2>3. v \in Update
    BY <2>1, <2>2 DEF Update
  <2>4. updates' = [updates EXCEPT ![i] = v] /\ server' = serverAfter(u)
    BY <1>5 DEF UpdateArrives
  <2> HIDE DEF u, v
  <2>5. updates' \in Seq(Update)
    BY <2>3, <2>4, ExceptSeq DEF SyncTypeOK
  <2> QED BY <1>5, <2>2, <2>4, <2>5 DEF UpdateArrives, SyncTypeOK, ActorTypeOK, actorVars
<1>6. ASSUME NEW i \in DOMAIN updates, UpdateReturns(i)
      PROVE  ActorTypeOK' /\ SyncTypeOK'
  <2>1. answerOf(updates[i]) \in Input /\ RemoveAt(updates, i) \in Seq(Update)
    BY AnswerType, RemoveUpdateType
  <2>2. inbox' \in Seq(Input)
    BY <1>6, <2>1, PostType DEF UpdateReturns
  <2> QED BY <1>6, <2>1, <2>2 DEF UpdateReturns, ActorTypeOK, SyncTypeOK
<1> QED BY <1>1, <1>2, <1>3, <1>4, <1>5, <1>6 DEF SyncStep

\* The connection, expiry, timeouts and late requests.
LEMMA SyncStimulusType ==
  ASSUME ActorTypeOK, SyncTypeOK, SyncStimulus
  PROVE  ActorTypeOK' /\ SyncTypeOK'
<1> USE DEF Stimuli
<1>1. CASE Connect \/ Disconnect
  <2>1. inbox' \in Seq(Input)
    BY <1>1, PostType, InputTypes DEF Connect, Disconnect
  <2>2. budget' \in [Stimuli -> Nat]
    BY <1>1, SpendType DEF Connect, Disconnect
  <2> QED BY <1>1, <2>1, <2>2 DEF Connect, Disconnect, ActorTypeOK, SyncTypeOK
<1>2. CASE TimerExpires
  <2>1. budget' \in [Stimuli -> Nat]
    BY <1>2, SpendType DEF TimerExpires
  <2>2. timer' \in BOOLEAN
    BY <1>2, Zenon DEF TimerExpires
  <2>3. fired' \in Nat
    BY <1>2 DEF TimerExpires, SyncTypeOK
  <2>4. ActorTypeOK'
    BY <1>2, <2>1, Zenon DEF TimerExpires, ActorTypeOK
  <2> QED BY <1>2, <2>2, <2>3, <2>4, Zenon DEF TimerExpires, SyncTypeOK
<1>3. ASSUME NEW i \in DOMAIN updates, UpdateTimesOut(i)
      PROVE  ActorTypeOK' /\ SyncTypeOK'
  <2> DEFINE o == [json |-> updates[i].json, expected |-> updates[i].expected]
  <2>1. o \in Orphan /\ RemoveAt(updates, i) \in Seq(Update)
    BY RemoveUpdateType DEF Update, Orphan
  <2>2. orphans' = orphans \/ orphans' = orphans \cup {o}
    BY <1>3, Zenon DEF UpdateTimesOut
  <2> HIDE DEF o
  <2>3. inbox' \in Seq(Input)
    BY <1>3, PostType, InputTypes DEF UpdateTimesOut
  <2>4. budget' \in [Stimuli -> Nat]
    BY <1>3, SpendType DEF UpdateTimesOut
  <2>5. orphans' \in SUBSET Orphan
    BY <2>1, <2>2 DEF SyncTypeOK
  <2> QED BY <1>3, <2>1, <2>3, <2>4, <2>5 DEF UpdateTimesOut, ActorTypeOK, SyncTypeOK
<1>4. ASSUME NEW o \in orphans, OrphanArrives(o)
      PROVE  ActorTypeOK' /\ SyncTypeOK'
  <2>1. o.json \in AgentStateJSON
    BY DEF SyncTypeOK, Orphan
  <2>2. server' \in ServerRow
    BY <1>4, <2>1, ServerAfterType DEF OrphanArrives
  <2> QED BY <1>4, <2>2 DEF OrphanArrives, ActorTypeOK, SyncTypeOK, actorVars
<1> QED BY <1>1, <1>2, <1>3, <1>4, Zenon DEF SyncStimulus

----------------------------------------------------------------------------
(* AwaitPermission.                                                        *)

\* Acknowledgements and decisions on their way to the engines.
LEMMA PermissionStepType ==
  ASSUME ActorTypeOK, PermissionTypeOK, PermissionStep
  PROVE  ActorTypeOK' /\ PermissionTypeOK'
<1>1. ASSUME NEW a \in Awaits, AwaitAcknowledged(a)
      PROVE  ActorTypeOK' /\ PermissionTypeOK'
  <2>1. awaits' \in [Awaits -> AwaitState] /\ acks' \in [Awaits -> BOOLEAN]
    BY <1>1 DEF AwaitAcknowledged, PermissionTypeOK, AwaitState
  <2> QED BY <1>1, <2>1 DEF AwaitAcknowledged, PermissionTypeOK, ActorTypeOK, actorVars
<1>2. ASSUME NEW a \in Awaits, AwaitDecided(a)
      PROVE  ActorTypeOK' /\ PermissionTypeOK'
  <2>1. awaits' \in [Awaits -> AwaitState]
    BY <1>2 DEF AwaitDecided, PermissionTypeOK, AwaitState, Verdicts
  <2> QED BY <1>2, <2>1 DEF AwaitDecided, PermissionTypeOK, ActorTypeOK, actorVars
<1>3. CASE SignalAck
  <2>1. acks' \in [Awaits -> BOOLEAN]
    BY <1>3 DEF SignalAck, PermissionTypeOK
  <2> QED BY <1>3, <2>1, HeadOfEffects DEF SignalAck, NextEffect, Executed, PermissionTypeOK,
                                          ActorTypeOK
<1>4. CASE CompletePermissionDecision
  <2>1. Effect1.await \in Awaits /\ Effect1.verdict \in Verdicts
    BY <1>4, HeadOfEffects, EffectFields DEF CompletePermissionDecision, NextEffect
  <2>2. decisions' \in [Awaits -> Verdicts]
    BY <1>4, <2>1 DEF CompletePermissionDecision, PermissionTypeOK
  <2> QED BY <1>4, <2>2, HeadOfEffects DEF CompletePermissionDecision, NextEffect, Executed,
                                          PermissionTypeOK, ActorTypeOK
<1>5. CASE EmitPermissionRequest
  <2>1. Effect1.request \in Requests
    BY <1>5, HeadOfEffects, EffectFields DEF EmitPermissionRequest, NextEffect
  <2>2. announced' \in SUBSET Requests
    BY <1>5, <2>1 DEF EmitPermissionRequest, PermissionTypeOK
  <2> QED BY <1>5, <2>2, HeadOfEffects DEF EmitPermissionRequest, NextEffect, Executed,
                                          PermissionTypeOK, ActorTypeOK
<1> QED BY <1>1, <1>2, <1>3, <1>4, <1>5 DEF PermissionStep

\* An engine asks.
LEMMA AwaitPermissionType ==
  ASSUME ActorTypeOK, PermissionTypeOK, NEW a \in Awaits, NEW k \in Stimuli,
         AwaitPermission(a, k)
  PROVE  ActorTypeOK' /\ PermissionTypeOK'
<1>1. awaits' \in [Awaits -> AwaitState]
  BY DEF AwaitPermission, PermissionTypeOK, AwaitState
<1>2. inbox' \in Seq(Input)
  BY PostType, InputTypes DEF AwaitPermission
<1>3. budget' \in [Stimuli -> Nat]
  BY SpendType DEF AwaitPermission
<1> QED BY <1>1, <1>2, <1>3 DEF AwaitPermission, PermissionTypeOK, ActorTypeOK

\* Retries, cancelled calls and the phone's decisions.
LEMMA PermissionStimulusType ==
  ASSUME ActorTypeOK, PermissionTypeOK,
         \/ PermissionStimulus
         \/ \E r \in Requests, v \in {"allow", "deny"} : \E known : PhoneDecides(r, v, known)
  PROVE  ActorTypeOK' /\ PermissionTypeOK'
<1> USE DEF Stimuli
<1>1. ASSUME NEW a \in Awaits, AwaitRetries(a)
      PROVE  ActorTypeOK' /\ PermissionTypeOK'
  <2>1. inbox' \in Seq(Input)
    BY <1>1, PostType, InputTypes DEF AwaitRetries
  <2>2. budget' \in [Stimuli -> Nat]
    BY <1>1, SpendType DEF AwaitRetries
  <2> QED BY <1>1, <2>1, <2>2 DEF AwaitRetries, permissionVars, PermissionTypeOK, ActorTypeOK
<1>2. ASSUME NEW a \in Awaits, AwaitCancelled(a)
      PROVE  ActorTypeOK' /\ PermissionTypeOK'
  <2>1. awaits' \in [Awaits -> AwaitState]
    BY <1>2 DEF AwaitCancelled, PermissionTypeOK, AwaitState
  <2>2. budget' \in [Stimuli -> Nat]
    BY <1>2, SpendType DEF AwaitCancelled
  <2> QED BY <1>2, <2>1, <2>2 DEF AwaitCancelled, PermissionTypeOK, ActorTypeOK
<1>3. ASSUME NEW r \in Requests, NEW v \in {"allow", "deny"}, NEW known, PhoneDecides(r, v, known)
      PROVE  ActorTypeOK' /\ PermissionTypeOK'
  <2>1. answered' \in SUBSET (Requests \X {"allow", "deny"})
    BY <1>3 DEF PhoneDecides, PermissionTypeOK
  <2>2. inbox' \in Seq(Input)
    BY <1>3, PostType, InputTypes DEF PhoneDecides
  <2>3. budget' \in [Stimuli -> Nat]
    BY <1>3, SpendType DEF PhoneDecides
  <2> QED BY <1>3, <2>1, <2>2, <2>3 DEF PhoneDecides, PermissionTypeOK, ActorTypeOK
<1> QED BY <1>1, <1>2, <1>3, Zenon DEF PermissionStimulus

----------------------------------------------------------------------------
(* The Manager's calls.                                                    *)

\* A reply leads from one call record to another.
LEMMA ReceivedType ==
  ASSUME NEW call \in Call, NEW r \in Results
  PROVE  received(call, r) \in Call
<1>1. \A p \in CallPhase : [call EXCEPT !.phase = p] \in Call
  BY DEF Call
<1>2. r \in CallPhase /\ "accepted" \in CallPhase
  BY DEF Results, CallPhase
<1> QED BY <1>1, <1>2 DEF received

\* A reply channel nobody uses.
LEMMA NewCallType ==
  ASSUME idleCalls # {}
  PROVE  newCall \in Calls
BY DEF idleCalls, newCall

\* A message that has not come in yet.
LEMMA NewMessageType ==
  ASSUME newMessages # {}
  PROVE  newMessage \in Messages
BY DEF newMessages, newMessage

\* A call of the Manager begins.
LEMMA BeginType ==
  ASSUME ActorTypeOK, ManagerTypeOK, NEW k \in Stimuli, NEW op \in Ops,
         NEW model \in Models \cup {None}, NEW in \in Input, begin(k, op, model, in)
  PROVE  /\ ActorTypeOK'
         /\ calls' \in [Calls -> Call]
         /\ UNCHANGED <<snapshot, blocked>>
<1>1. [op |-> op, phase |-> "waiting", model |-> model] \in Call
  BY DEF Call, CallPhase
<1>2. calls' \in [Calls -> Call] /\ UNCHANGED <<st, effects, snapshot, blocked>>
  BY <1>1, Zenon DEF begin, ManagerTypeOK
<1>3. inbox' \in Seq(Input)
  BY PostType DEF begin
<1>4. budget' \in [Stimuli -> Nat]
  BY SpendType DEF begin
<1> QED BY <1>2, <1>3, <1>4 DEF ActorTypeOK

\* Replies, and the calls that follow them.
LEMMA ManagerStepType ==
  ASSUME ActorTypeOK, ManagerTypeOK, ManagerStep
  PROVE  ActorTypeOK' /\ ManagerTypeOK'
<1>1. ASSUME NEW c \in Calls, AwaitConfigPersisted(c)
      PROVE  ActorTypeOK' /\ ManagerTypeOK'
  <2>1. calls' \in [Calls -> Call]
    BY <1>1 DEF AwaitConfigPersisted, ManagerTypeOK, Call, CallPhase
  <2>2. inbox' \in Seq(Input)
    BY <1>1, PostType, InputTypes DEF AwaitConfigPersisted
  <2> QED BY <1>1, <2>1, <2>2 DEF AwaitConfigPersisted, ManagerTypeOK, ActorTypeOK
<1>2. CASE CompleteReply
  <2>1. Effect1.call \in Calls /\ Effect1.result \in Results
    BY <1>2, HeadOfEffects, EffectFields DEF CompleteReply, NextEffect
  <2>2. received(calls[Effect1.call], Effect1.result) \in Call
    BY <2>1, ReceivedType DEF ManagerTypeOK
  <2>3. calls' \in [Calls -> Call]
    BY <1>2, <2>1, <2>2 DEF CompleteReply, ManagerTypeOK
  <2> QED BY <1>2, <2>3, HeadOfEffects DEF CompleteReply, NextEffect, Executed, ManagerTypeOK,
                                          ActorTypeOK
<1>3. ASSUME NEW doc \in snapshot, StartPersistsState(doc)
      PROVE  ActorTypeOK' /\ ManagerTypeOK'
  <2>1. doc \in AgentState
    BY DEF ManagerTypeOK
  <2>2. inbox' \in Seq(Input)
    BY <1>3, <2>1, PostType, InputTypes DEF StartPersistsState
  <2> QED BY <1>3, <2>2 DEF StartPersistsState, ManagerTypeOK, ActorTypeOK
<1> QED BY <1>1, <1>2, <1>3 DEF ManagerStep

\* The calls from outside.
LEMMA ManagerStimulusType ==
  ASSUME ActorTypeOK, ManagerTypeOK, ManagerStimulus
  PROVE  ActorTypeOK' /\ ManagerTypeOK'
<1> USE DEF Stimuli
<1>1. ASSUME NEW target \in Modes, SwitchMode(target)
      PROVE  ActorTypeOK' /\ ManagerTypeOK'
  <2>1. [type |-> "cmdSwitchMode", target |-> target, reply |-> newCall] \in Input
    BY <1>1, NewCallType, InputTypes DEF SwitchMode, begin
  <2> QED BY <1>1, <2>1, BeginType DEF SwitchMode, ManagerTypeOK, Ops
<1>2. CASE SendUserMessage
  <2>1. newMessage \in Messages /\ arrivals' \in Seq(Messages)
    BY <1>2, NewMessageType DEF SendUserMessage, ManagerTypeOK
  <2>2. [type |-> "cmdRemoteSend", msg |-> newMessage, reply |-> newCall] \in Input
    BY <1>2, <2>1, NewCallType, InputTypes DEF SendUserMessage, begin
  <2> QED BY <1>2, <2>1, <2>2, BeginType DEF SendUserMessage, ManagerTypeOK, Ops
<1>3. CASE AbortRemote
  <2>1. [type |-> "cmdAbortRemote", reply |-> newCall] \in Input
    BY <1>3, NewCallType, InputTypes DEF AbortRemote, begin
  <2> QED BY <1>3, <2>1, BeginType DEF AbortRemote, ManagerTypeOK, Ops
<1>4. ASSUME NEW req \in ConfigRequests, SetAgentConfig(req)
      PROVE  ActorTypeOK' /\ ManagerTypeOK'
  <2>1. req.model \in Models \cup {None} /\ req.permissionMode \in PermissionModes \cup {None}
    BY InitialOK
  <2>2. [type |-> "cmdSetAgentConfig", model |-> req.model,
         permissionMode |-> req.permissionMode, reply |-> newCall] \in Input
    BY <1>4, <2>1, NewCallType, InputTypes DEF SetAgentConfig, begin
  <2> QED BY <1>4, <2>1, <2>2, BeginType DEF SetAgentConfig, ManagerTypeOK, Ops
<1>5. ASSUME NEW c \in Calls, ConfigTimesOut(c)
      PROVE  ActorTypeOK' /\ ManagerTypeOK'
  <2>1. calls' \in [Calls -> Call]
    BY <1>5 DEF ConfigTimesOut, ManagerTypeOK, Call, CallPhase
  <2>2. budget' \in [Stimuli -> Nat]
    BY <1>5, SpendType DEF ConfigTimesOut
  <2> QED BY <1>5, <2>1, <2>2 DEF ConfigTimesOut, ManagerTypeOK, ActorTypeOK
<1>6. CASE InboundUserMessage
  <2>1. newMessage \in Messages /\ arrivals' \in Seq(Messages)
    BY <1>6, NewMessageType DEF InboundUserMessage, ManagerTypeOK
  <2>2. inbox' \in Seq(Input)
    BY <1>6, <2>1, PostType, InputTypes DEF InboundUserMessage
  <2>3. budget' \in [Stimuli -> Nat]
    BY <1>6, SpendType DEF InboundUserMessage
  <2> QED BY <1>6, <2>1, <2>2, <2>3 DEF InboundUserMessage, ManagerTypeOK, ActorTypeOK
<1>7. CASE StartReadsState
  <2>1. st.AgentStateJSON.doc \in AgentState
    BY StateFields DEF ActorTypeOK, AgentStateJSON
  <2>2. budget' \in [Stimuli -> Nat]
    BY <1>7, SpendType DEF StartReadsState
  <2> QED BY <1>7, <2>1, <2>2 DEF StartReadsState, ManagerTypeOK, ActorTypeOK
<1> QED BY <1>1, <1>2, <1>3, <1>4, <1>5, <1>6, <1>7 DEF ManagerStimulus

----------------------------------------------------------------------------
(* Type correctness of the whole session.                                  *)

IInv == TypeOK /\ StartHeld

\* The queue is left alone, or its head is executed and starts no runner.
HeadMoves ==
  \/ UNCHANGED effects
  \/ \E t : t # "StartRunner" /\ NextEffect(t)

\* A queue whose head starts no runner may move while nothing starts.
LEMMA StartHeldKept ==
  ASSUME StartHeld, UNCHANGED starting, HeadMoves
  PROVE  StartHeld'
<1>1. CASE UNCHANGED effects
  BY <1>1 DEF StartHeld, NextEffect, Effect1
<1>2. CASE \E t : t # "StartRunner" /\ NextEffect(t)
  BY <1>2 DEF StartHeld, NextEffect
<1> QED BY <1>1, <1>2 DEF HeadMoves

\* A longer queue has the same head.
LEMMA StartHeldExtended ==
  ASSUME ActorTypeOK, ActorTypeOK', StartHeld, UNCHANGED starting, Turned
  PROVE  StartHeld'
<1>1. SUFFICES ASSUME NEW e \in Seq(Publishing(st')), effects' = effects \o e,
                      NextEffect("StartRunner")
               PROVE  NextEffect("StartRunner")'
  BY DEF StartHeld, Turned, NextEffect, Effect1
<1>2. effects \in Seq(Effect) /\ effects # <<>> /\ Head(effects).type = "StartRunner"
  BY <1>1 DEF ActorTypeOK, NextEffect, Effect1
<1>3. e \in Seq(Effect)
  BY PublishingType, SeqMonotonic DEF ActorTypeOK
<1>4. effects \o e # <<>> /\ Head(effects \o e) = Head(effects)
  BY <1>2, <1>3
<1> QED BY <1>1, <1>2, <1>4 DEF NextEffect, Effect1

\* The runtime starts one runner at a time, at the head of the queue.
LEMMA StartHeldRuntime ==
  ASSUME StartHeld, EngineStep \/ SendSucceeds \/ (\E x \in sending : SendFails(x))
                    \/ EngineStimulus
  PROVE  StartHeld'
<1>1. CASE StartEngine
  BY <1>1 DEF StartEngine, StartHeld, NextEffect, Effect1, actorVars
<1>2. CASE EngineStarted \/ EngineStartFails
  BY <1>2 DEF EngineStarted, EngineStartFails, StartHeld
<1>3. CASE UNCHANGED starting /\ HeadMoves
  BY <1>3, StartHeldKept
<1>4. \/ StartEngine \/ EngineStarted \/ EngineStartFails
      \/ UNCHANGED starting /\ HeadMoves
  <2>1. CASE StopEngineLocal \/ StopEngineRemote
    BY <2>1 DEF StopEngineLocal, StopEngineRemote, stopEngine, HeadMoves
  <2>2. CASE \E x \in exiting : ReportExit(x)
    BY <2>2 DEF ReportExit, HeadMoves, actorVars
  <2>3. CASE HandleEngineEvent
    BY <2>3 DEF HandleEngineEvent, HeadMoves
  <2>4. CASE EngineRemoteSend \/ EngineRemoteAbort \/ EngineLocalSendLine
    BY <2>4 DEF EngineRemoteSend, EngineRemoteAbort, EngineLocalSendLine, HeadMoves, runVars
  <2>5. CASE ApplyEngineConfig
    BY <2>5 DEF ApplyEngineConfig, HeadMoves
  <2>6. CASE \E x \in sends : SendBegins(x)
    BY <2>6 DEF SendBegins, HeadMoves, runVars, actorVars
  <2>7. CASE SetTakebackWatcher
    BY <2>7 DEF SetTakebackWatcher, HeadMoves, runVars
  <2>8. CASE EmitKey \/ \E k \in {"takeback", "shutdown"} : PressKey(k)
    BY <2>8 DEF EmitKey, PressKey, HeadMoves, runVars
  <2>9. CASE SendSucceeds \/ \E x \in sending : SendFails(x)
    BY <2>9 DEF SendSucceeds, SendFails, HeadMoves, runVars, actorVars
  <2>10. CASE \/ \E m \in Modes, err \in Results : RunExits(m, err)
              \/ \E m \in Modes, token \in Tokens : Identify(m, token)
              \/ \E m \in Modes, w \in BOOLEAN : ReportWorking(m, w)
    BY <2>10 DEF RunExits, Identify, ReportWorking, ReportFromRun, HeadMoves
  <2> QED BY <2>1, <2>2, <2>3, <2>4, <2>5, <2>6, <2>7, <2>8, <2>9, <2>10 DEF EngineStep,
             EngineStimulus
<1> QED BY <1>1, <1>2, <1>3, <1>4

\* The steps of the other parts execute their own effects or none.
LEMMA OthersHeadMoves ==
  ASSUME \/ SyncStep \/ SyncStimulus \/ PermissionStep \/ PermissionStimulus
         \/ ManagerStep \/ ManagerStimulus
         \/ \E r, v, known : PhoneDecides(r, v, known)
         \/ \E a, k : AwaitPermission(a, k)
  PROVE  HeadMoves
<1>1. CASE SyncStep
  BY <1>1 DEF SyncStep, StartTimer, CancelTimer, TimerCallback, PersistAgentState, UpdateArrives,
              UpdateReturns, HeadMoves, actorVars
<1>2. CASE SyncStimulus
  BY <1>2 DEF SyncStimulus, Connect, Disconnect, TimerExpires, UpdateTimesOut, OrphanArrives,
              HeadMoves, actorVars
<1>3. CASE PermissionStep
  BY <1>3 DEF PermissionStep, AwaitAcknowledged, AwaitDecided, SignalAck,
              CompletePermissionDecision, EmitPermissionRequest, HeadMoves, actorVars
<1>4. CASE PermissionStimulus \/ (\E r, v, known : PhoneDecides(r, v, known))
           \/ \E a, k : AwaitPermission(a, k)
  BY <1>4 DEF PermissionStimulus, AwaitRetries, AwaitCancelled, PhoneDecides, AwaitPermission,
              HeadMoves
<1>5. CASE ManagerStep
  BY <1>5 DEF ManagerStep, AwaitConfigPersisted, CompleteReply, StartPersistsState, HeadMoves
<1>6. CASE ManagerStimulus
  BY <1>6 DEF ManagerStimulus, SwitchMode, SendUserMessage, AbortRemote, SetAgentConfig, begin,
              ConfigTimesOut, InboundUserMessage, StartReadsState, HeadMoves
<1> QED BY <1>1, <1>2, <1>3, <1>4, <1>5, <1>6

\* A component none of whose variables changes keeps its type.
LEMMA TypesKept ==
  /\ EngineTypeOK /\ UNCHANGED engineVars => EngineTypeOK'
  /\ SyncTypeOK /\ UNCHANGED syncVars => SyncTypeOK'
  /\ PermissionTypeOK /\ UNCHANGED permissionVars => PermissionTypeOK'
  /\ ManagerTypeOK /\ UNCHANGED managerVars => ManagerTypeOK'
<1>1. EngineTypeOK /\ UNCHANGED engineVars => EngineTypeOK'
  BY Zenon DEF EngineTypeOK, engineVars
<1>2. SyncTypeOK /\ UNCHANGED syncVars => SyncTypeOK'
  BY Zenon DEF SyncTypeOK, syncVars
<1>3. PermissionTypeOK /\ UNCHANGED permissionVars => PermissionTypeOK'
  BY Zenon DEF PermissionTypeOK, permissionVars
<1>4. ManagerTypeOK /\ UNCHANGED managerVars => ManagerTypeOK'
  BY Zenon DEF ManagerTypeOK, managerVars
<1> QED BY <1>1, <1>2, <1>3, <1>4

\* The session starts well typed.
LEMMA InitType == Init => IInv
<1> SUFFICES ASSUME Init PROVE IInv
  OBVIOUS
<1> DEFINE doc == InitialAgentState(InitialConfig, None)
<1>1. doc \in AgentState
  <2>1. InitialConfig \in AgentConfig /\ None \in Tokens \cup {None} /\ {} \in SUBSET Requests
    BY InitialOK
  <2>2. [r \in Requests |-> "none"] \in [Requests -> Verdicts]
    BY DEF Verdicts
  <2> QED BY <2>1, <2>2, Zenon DEF InitialAgentState, AgentState
<1>2. doc.resumeToken = None /\ doc.config = InitialConfig
  BY Zenon DEF InitialAgentState
<1> HIDE DEF doc
<1>3. InitialState(doc, InitialVersion) \in State
  <2>1. InitialVersion \in Nat /\ 0 \in Nat /\ 0 \in 0..1 /\ "Closed" \in FSMState
        /\ "local" \in Modes /\ None \in Tokens \cup {None} /\ None \in Calls \cup {None}
    BY InitialOK DEF FSMState, Modes
  <2>2. /\ [gen |-> 0, running |-> FALSE] \in runnerHandle
        /\ [r \in Requests |-> None] \in [Requests -> Awaits \cup {None}]
        /\ [rev |-> 0, doc |-> doc] \in AgentStateJSON
    BY <1>1 DEF runnerHandle, AgentStateJSON
  <2>3. <<>> \in Seq(Calls) /\ <<>> \in Seq(Messages)
    OBVIOUS
  <2> QED BY <1>1, <1>2, <2>1, <2>2, <2>3, Zenon DEF InitialState, State
<1>4. st = InitialState(doc, InitialVersion) /\ inbox = <<>> /\ effects = <<>> /\ budget \in Budgets
  BY Zenon DEF Init, ActorInit, doc
<1>5. st \in State /\ st.AgentState = doc /\ st.AgentStateVersion \in Nat
      /\ st.AgentStateJSON \in AgentStateJSON
  BY <1>3, <1>4, StateFields, Zenon DEF InitialState
<1>6. ActorTypeOK
  BY <1>4, <1>5, BudgetOK DEF ActorTypeOK
<1>7. EngineTypeOK
  <2>1. engineConfig \in AgentConfig
    BY <1>2, <1>5, InitialOK DEF Init, EngineInit
  <2>2. EngineInit
    BY DEF Init
  <2>3. /\ engineGen \in [Modes -> Nat] /\ live \in [Modes -> Nat]
        /\ engineActive \in [Modes -> BOOLEAN]
    BY <2>2 DEF EngineInit
  <2>4. /\ engineEvents \in Seq(EngineEvent) /\ dispatched \in Seq(Messages)
        /\ exiting \in SUBSET Run /\ sends \in SUBSET Send /\ sending \in SUBSET Send
        /\ delivered \in SUBSET Messages
    BY <2>2 DEF EngineInit
  <2>5. starting \in BOOLEAN /\ watching \in BOOLEAN
    BY <2>2, Zenon DEF EngineInit
  <2>6. pressed \in {"nothing", "takeback", "shutdown"}
    BY <2>2 DEF EngineInit
  <2> QED BY <2>1, <2>3, <2>4, <2>5, <2>6, Zenon DEF EngineTypeOK
<1>8. SyncTypeOK
  <2>1. server \in ServerRow
    BY <1>5 DEF Init, SyncInit, ServerRow
  <2>2. SyncInit
    BY DEF Init
  <2>3. online \in BOOLEAN /\ timer \in BOOLEAN
    BY <2>2, Zenon DEF SyncInit
  <2>4. fired \in Nat /\ updates \in Seq(Update) /\ orphans \in SUBSET Orphan
    BY <2>2 DEF SyncInit
  <2> QED BY <2>1, <2>3, <2>4, Zenon DEF SyncTypeOK
<1>9. PermissionTypeOK
  BY DEF Init, PermissionInit, PermissionTypeOK, AwaitState, Verdicts
<1>10. ManagerTypeOK
  <2>1. [op |-> "none", phase |-> "idle", model |-> None] \in Call
    BY DEF Call, Ops, CallPhase
  <2> QED BY <2>1 DEF Init, ManagerTypeOK
<1>11. StartHeld
  BY DEF Init, EngineInit, StartHeld
<1> QED BY <1>6, <1>7, <1>8, <1>9, <1>10, <1>11 DEF IInv, TypeOK

\* Every step keeps the types.
LEMMA NextType == IInv /\ [Next]_vars => IInv'
<1> SUFFICES ASSUME IInv, [Next]_vars PROVE IInv'
  OBVIOUS
<1> USE DEF IInv, TypeOK
<1>1. CASE LoopStep
  <2>1. ActorTypeOK' /\ Turned
    BY <1>1, ReduceType DEF LoopStep
  <2>2. UNCHANGED starting
    BY <1>1 DEF LoopStep, engineVars
  <2> QED BY <1>1, <2>1, <2>2, TypesKept, StartHeldExtended DEF LoopStep
<1>2. CASE RuntimeStep
  BY <1>2, EngineStepType, SendResultType, StartHeldRuntime, TypesKept DEF RuntimeStep, engineOnly
<1>3. CASE EngineStimulus /\ engineOnly
  BY <1>3, EngineStimulusType, StartHeldRuntime, TypesKept DEF engineOnly
<1>4. CASE (SyncStep \/ SyncStimulus) /\ syncOnly
  <2>1. ActorTypeOK' /\ SyncTypeOK'
    BY <1>4, SyncStepType, SyncStimulusType
  <2>2. UNCHANGED starting /\ HeadMoves
    BY <1>4, OthersHeadMoves DEF syncOnly, engineVars
  <2> QED BY <1>4, <2>1, <2>2, StartHeldKept, TypesKept DEF syncOnly
<1>5. CASE /\ \/ PermissionStep \/ PermissionStimulus
              \/ \E r \in Requests, v \in {"allow", "deny"} : \E known : PhoneDecides(r, v, known)
           /\ permissionOnly
  <2>1. ActorTypeOK' /\ PermissionTypeOK'
    BY <1>5, PermissionStepType, PermissionStimulusType
  <2>2. UNCHANGED starting /\ HeadMoves
    BY <1>5, OthersHeadMoves DEF permissionOnly, engineVars
  <2> QED BY <1>5, <2>1, <2>2, StartHeldKept, TypesKept DEF permissionOnly
<1>6. CASE (ManagerStep \/ ManagerStimulus) /\ managerOnly
  <2>1. ActorTypeOK' /\ ManagerTypeOK'
    BY <1>6, ManagerStepType, ManagerStimulusType
  <2>2. UNCHANGED starting /\ HeadMoves
    BY <1>6, OthersHeadMoves DEF managerOnly, engineVars
  <2> QED BY <1>6, <2>1, <2>2, StartHeldKept, TypesKept DEF managerOnly
<1>7. CASE SendResumes /\ UNCHANGED <<engineVars, syncVars>>
  <2>1. ManagerTypeOK'
    BY <1>7 DEF SendResumes, ManagerTypeOK
  <2>2. ActorTypeOK' /\ UNCHANGED permissionVars
    BY <1>7 DEF SendResumes, ActorTypeOK, actorVars
  <2>3. UNCHANGED starting /\ HeadMoves
    BY <1>7 DEF SendResumes, HeadMoves, actorVars, engineVars
  <2> QED BY <1>7, <2>1, <2>2, <2>3, StartHeldKept, TypesKept
<1>8. ASSUME NEW a \in Awaits, EngineAsks(a) \/ SendAsks(a), UNCHANGED <<engineVars, syncVars>>
      PROVE  IInv'
  <2>1. AwaitPermission(a, "asks") \/ AwaitPermission(a, "sendAsks")
    BY <1>8 DEF EngineAsks, SendAsks
  <2>2. ActorTypeOK' /\ PermissionTypeOK'
    BY <2>1, AwaitPermissionType DEF Stimuli
  <2>3. UNCHANGED starting /\ HeadMoves
    BY <1>8, <2>1, OthersHeadMoves DEF engineVars
  <2>4. ManagerTypeOK'
    BY <1>8 DEF EngineAsks, SendAsks, managerVars, ManagerTypeOK
  <2> QED BY <1>8, <2>2, <2>3, <2>4, StartHeldKept, TypesKept
<1>9. CASE UNCHANGED vars
  <2>1. ActorTypeOK' /\ UNCHANGED starting /\ HeadMoves
    BY <1>9 DEF vars, actorVars, engineVars, ActorTypeOK, HeadMoves
  <2> QED BY <1>9, <2>1, StartHeldKept, TypesKept DEF vars
<1> QED BY <1>1, <1>2, <1>3, <1>4, <1>5, <1>6, <1>7, <1>8, <1>9 DEF Next, Internal, Stimulus

\* Whatever the constants, every variable keeps its type: generations and
\* versions never go negative, the single retry is never overdrawn, and no
\* effect reaches the runtime without the fields it is executed with.
THEOREM TypeCorrect == Spec => []TypeOK
<1>1. IInv => TypeOK
  BY DEF IInv
<1> QED BY <1>1, InitType, NextType, PTL DEF Spec

================================================================================
