------------------------- MODULE SessionAnswers_proofs -------------------------
(***************************************************************************)
(* Who waits for an answer of the session gets one, and the right one, for  *)
(* all values of the constants.                                            *)
(*                                                                         *)
(* Permission prompts.  The invariant follows a request id from the reducer *)
(* to the engine.  Once the reducer has seen a call that asks about it,     *)
(* some call for the same id is attended: the reducer promises it the       *)
(* answer, the answer is queued, or it has been handed over.  A call that   *)
(* waits has been acknowledged, so the claim is made from the moment the    *)
(* acknowledgement is queued on; and it can be kept only because a promise  *)
(* is always about a request that is still in agentState, and because no    *)
(* verdict on its way is an empty one.                                     *)
(*                                                                         *)
(* The Manager's calls.  The invariant follows a reply channel: a place is  *)
(* an index of the mailbox, of the queue of effects or of PersistWaiters,   *)
(* or the pending switch, and a channel is in one place at most.  Handlers  *)
(* differ only in how they pass the channel of their input on, and each is  *)
(* one of five kinds.                                                      *)
(***************************************************************************)
EXTENDS SessionSystem_proofs, FiniteSetTheorems

----------------------------------------------------------------------------
(* The inductive invariant.                                                *)

\* A promise is about a request that the phone still sees, and is made to a
\* call that asks about it.
honest(s) ==
  \A r \in Requests :
    s.PendingPermissionPromises[r] # None =>
      /\ r \in s.AgentState.requests
      /\ RequestOf[s.PendingPermissionPromises[r]] = r

Promised == honest(st)

\* A verdict that is on its way fills the channel it is put into.
Settled ==
  \A x \in ToSet(effects) : x.type = "CompletePermissionDecision" => x.verdict # "none"

\* Given the promises and a set of effects, some call that asks about r has its
\* answer or will get it.
attended(r, promises, E) ==
  \E b \in Awaits :
    /\ RequestOf[b] = r
    /\ \/ promises[r] = b
       \/ \E x \in E : x.type = "CompletePermissionDecision" /\ x.await = b
       \/ decisions[b] # "none"

Attended(r) == attended(r, st.PendingPermissionPromises, ToSet(effects))

\* The reducer has dealt with the call.
Acknowledged(a) ==
  \/ awaits[a] = "waiting"
  \/ acks[a]
  \/ \E x \in ToSet(effects) : x.type = "SignalAck" /\ x.await = a

NobodyForgotten == \A a \in Awaits : Acknowledged(a) => Attended(RequestOf[a])

\* Every decision in the mailbox is one the phone has given.
FromPhone ==
  \A in \in ToSet(inbox) :
    in.type = "cmdPermissionDecision" => <<in.request, in.verdict>> \in answered

PermissionInv == Promised /\ Settled /\ NobodyForgotten /\ FromPhone

----------------------------------------------------------------------------
(* Handlers that have nothing to do with permissions.                      *)

\* Effects that answer no AwaitPermission call.
Unrelated == {e \in Effect : e.type \notin {"CompletePermissionDecision", "SignalAck"}}

SamePrompts(s, n) ==
  /\ n.PendingPermissionPromises = s.PendingPermissionPromises
  /\ n.AgentState.requests = s.AgentState.requests

Bystander(s, r) == SamePrompts(s, r.st) /\ r.eff \in Seq(Unrelated)

\* All constructors but two make such effects.
LEMMA UnrelatedTypes ==
  /\ \A g \in Nat : /\ effStopLocalRunner(g) \in Unrelated
                    /\ effStopRemoteRunner(g) \in Unrelated
                    /\ effRemoteAbort(g) \in Unrelated
  /\ \A m \in Modes, g \in Nat, cfg \in AgentConfig : effStartRunner(m, g, cfg) \in Unrelated
  /\ \A g \in Nat, m \in Messages : /\ effLocalSendLine(g, m) \in Unrelated
                                    /\ effRemoteSend(g, m) \in Unrelated
  /\ \A g \in Nat, cfg \in AgentConfig : effApplyEngineConfig(g, cfg) \in Unrelated
  /\ \A n \in State : persistEffect(n) \in Unrelated
  /\ effStartTimer \in Unrelated /\ effCancelTimer \in Unrelated
  /\ \A on \in BOOLEAN : effTakebackWatcher(on) \in Unrelated
  /\ \A c \in Calls, r \in Results : effCompleteReply(c, r) \in Unrelated
  /\ \A r \in Requests : effEmitPermissionRequest(r) \in Unrelated
<1>1. \A n \in State : persistEffect(n) \in Unrelated
  <2> TAKE n \in State
  <2>1. persistEffect(n) \in Effect
    BY PublishingType, Zenon
  <2> QED BY <2>1 DEF Unrelated, persistEffect, effPersistAgentState
<1> QED BY <1>1, EffectTypes DEF Unrelated, Quiet, effStopLocalRunner,
       effStopRemoteRunner, effRemoteAbort, effStartRunner, effLocalSendLine, effRemoteSend,
       effApplyEngineConfig, effTakebackWatcher, effCompleteReply, effStartTimer, effCancelTimer,
       effEmitPermissionRequest

\* Replies and answers to waiters are such effects,
LEMMA RepliesUnrelated ==
  ASSUME NEW r \in Results
  PROVE  /\ \A c \in Calls \cup {None} : replyTo(c, r) \in Seq(Unrelated)
         /\ \A ws \in Seq(Calls) : completeWaiters(ws, r) \in Seq(Unrelated)
<1>1. \A c \in Calls \cup {None} : replyTo(c, r) \in Seq(Unrelated)
  BY UnrelatedTypes DEF replyTo
<1>2. ASSUME NEW ws \in Seq(Calls)
      PROVE  completeWaiters(ws, r) \in Seq(Unrelated)
  <2>1. \A i \in 1..Len(ws) : effCompleteReply(ws[i], r) \in Unrelated
    BY UnrelatedTypes
  <2> QED BY <2>1 DEF completeWaiters
<1> QED BY <1>1, <1>2

\* and so are the buffered messages.
LEMMA SendsUnrelated ==
  ASSUME NEW s \in State
  PROVE  remoteSends(s) \in Seq(Unrelated) /\ localSendLines(s) \in Seq(Unrelated)
<1>1. Len(s.PendingRemoteSends) \in Nat
      /\ \A i \in 1..Len(s.PendingRemoteSends) : s.PendingRemoteSends[i] \in Messages
  BY StateFields
<1>2. \A i \in 1..Len(s.PendingRemoteSends) :
         /\ effRemoteSend(s.RunnerGen, s.PendingRemoteSends[i]) \in Unrelated
         /\ effLocalSendLine(s.RunnerGen, s.PendingRemoteSends[i]) \in Unrelated
  BY <1>1, StateFields, UnrelatedTypes
<1> QED BY <1>1, <1>2 DEF remoteSends, localSendLines

\* Ret pairs a state with its effects.
LEMMA RetBystander ==
  ASSUME NEW s, NEW n, SamePrompts(s, n), NEW eff \in Seq(Unrelated)
  PROVE  Bystander(s, Ret(n, eff))
BY Zenon DEF Bystander, Ret

\* So is a handler that answers and changes nothing.
LEMMA RetNothing ==
  ASSUME NEW s, NEW c \in Calls \cup {None}, NEW r \in Results
  PROVE  Bystander(s, Ret(s, replyTo(c, r))) /\ Bystander(s, Ret(s, <<>>))
BY RepliesUnrelated, SeqType, RetBystander, Zenon DEF SamePrompts

\* Publishing a document touches neither the promises nor the requests.
LEMMA RevisionPrompts ==
  ASSUME NEW s, NEW n \in State, SamePrompts(s, n), NEW doc \in AgentState
  PROVE  /\ setAgentStateJSON(n, doc) \in State /\ SamePrompts(s, setAgentStateJSON(n, doc))
         /\ refreshAgentStateJSON(n) \in State /\ SamePrompts(s, refreshAgentStateJSON(n))
<1>1. setAgentStateJSON(n, doc) \in State /\ refreshAgentStateJSON(n) \in State
  BY RevisionType, Zenon DEF Keeps
<1>2. \A json : /\ [n EXCEPT !.AgentStateJSON = json].PendingPermissionPromises
                     = n.PendingPermissionPromises
                /\ [n EXCEPT !.AgentStateJSON = json].AgentState = n.AgentState
  BY Zenon DEF State
<1> QED BY <1>1, <1>2, Zenon DEF SamePrompts, setAgentStateJSON, refreshAgentStateJSON

\* Neither do the two ways to persist it.
LEMMA PersistPrompts ==
  ASSUME NEW s, NEW n \in State, SamePrompts(s, n)
  PROVE  /\ Bystander(s, persistAgentStateImmediately(n))
         /\ Bystander(s, schedulePersistDebounced(n))
<1> DEFINE now == [n EXCEPT !.PersistRetryRemaining = 1, !.PersistDebounceTimerArmed = FALSE,
                            !.PersistInFlight = TRUE]
           later == [n EXCEPT !.PersistRetryRemaining = 1, !.PersistDebounceTimerArmed = TRUE,
                              !.PersistInFlight = FALSE]
<1>1. /\ now.PendingPermissionPromises = n.PendingPermissionPromises
      /\ now.AgentState = n.AgentState
      /\ later.PendingPermissionPromises = n.PendingPermissionPromises
      /\ later.AgentState = n.AgentState
  BY Zenon DEF State
<1> HIDE DEF now, later
<1>2. SamePrompts(s, now) /\ SamePrompts(s, later)
  BY <1>1, Zenon DEF SamePrompts
<1>3. /\ <<effCancelTimer, persistEffect(n)>> \in Seq(Unrelated)
      /\ <<effCancelTimer, effStartTimer>> \in Seq(Unrelated)
  BY UnrelatedTypes, SeqType, Zenon
<1> QED BY <1>2, <1>3, RetBystander, Zenon
        DEF persistAgentStateImmediately, schedulePersistDebounced, now, later

\* Nor do both together.
LEMMA PublishPrompts ==
  ASSUME NEW s, NEW n \in State, SamePrompts(s, n)
  PROVE  /\ Bystander(s, persistAgentStateImmediately(refreshAgentStateJSON(n)))
         /\ Bystander(s, schedulePersistDebounced(refreshAgentStateJSON(n)))
         /\ \A doc \in AgentState :
              Bystander(s, persistAgentStateImmediately(setAgentStateJSON(n, doc)))
<1>1. n.AgentState \in AgentState
  BY StateFields
<1> QED BY <1>1, RevisionPrompts, PersistPrompts, Zenon

\* More effects of that kind make no difference.
LEMMA BystanderWith ==
  ASSUME NEW s, NEW r, Bystander(s, r), NEW p \in Seq(Unrelated), NEW q \in Seq(Unrelated)
  PROVE  /\ Bystander(s, Ret(r.st, p \o r.eff))
         /\ Bystander(s, Ret(r.st, p \o r.eff \o q))
         /\ Bystander(s, Ret(r.st, r.eff \o p \o q))
BY SeqType, RetBystander, Zenon DEF Bystander

----------------------------------------------------------------------------
(* The handlers of the other inputs, one by one.                           *)

\* cmdSwitchMode and the takeback.
LEMMA SwitchModeAside ==
  ASSUME NEW s \in State, NEW target \in Modes, NEW reply \in Calls \cup {None}
  PROVE  Bystander(s, reduceSwitchMode(s, target, reply))
<1> DEFINE n == switchedTo(s, target, reply)
<1>1. n \in State /\ n.RunnerGen = s.RunnerGen + 1
  BY SwitchedType
<1>2. SamePrompts(s, n)
  <2>1. s.AgentState \in AgentState
    BY StateFields
  <2>2. [s.AgentState EXCEPT !.controlledByUser = (target = "local")].requests
          = s.AgentState.requests
    BY <2>1, Zenon DEF AgentState
  <2>3. /\ n.PendingPermissionPromises = s.PendingPermissionPromises
        /\ n.AgentState = [s.AgentState EXCEPT !.controlledByUser = (target = "local")]
    BY Zenon DEF switchedTo, refreshAgentStateJSON, setAgentStateJSON, State
  <2> QED BY <2>2, <2>3, Zenon DEF SamePrompts
<1> HIDE DEF n
<1>3. restartEffects(n) \o <<effCancelTimer, persistEffect(n)>> \in Seq(Unrelated)
  <2>1. /\ n.RunnerGen \in Nat /\ n.RunnerGen - 1 \in Nat /\ n.Mode \in Modes
        /\ n.AgentState.config \in AgentConfig
    BY <1>1, StateFields, AgentStateFields
  <2>2. restartEffects(n) \in Seq(Unrelated)
    BY <2>1, UnrelatedTypes, SeqType, Zenon DEF restartEffects
  <2> QED BY <1>1, <2>2, UnrelatedTypes, SeqType, Zenon
<1>4. Bystander(s, Ret(s, replyTo(reply, "ok")))
  BY RetNothing DEF Results
<1> QED BY <1>2, <1>3, <1>4, RetBystander, Zenon DEF reduceSwitchMode, n

\* evRunnerReady.
LEMMA RunnerReadyAside ==
  ASSUME NEW s \in State, NEW in
  PROVE  Bystander(s, reduceRunnerReady(s, in))
<1> DEFINE handle == [gen |-> in.gen, running |-> TRUE]
           reply == replyTo(s.PendingSwitchReply, "ok")
           l == [s EXCEPT !.FSM = "LocalRunning", !.LocalRunner = handle,
                          !.PendingSwitchReply = None]
           r == [s EXCEPT !.FSM = "RemoteRunning", !.RemoteRunner = handle,
                          !.PendingSwitchReply = None, !.PendingRemoteSends = <<>>]
<1>1. reply \in Seq(Unrelated) /\ <<>> \in Seq(Unrelated)
  BY StateFields, RepliesUnrelated DEF Results
<1>2. SamePrompts(s, s) /\ SamePrompts(s, l) /\ SamePrompts(s, r)
  BY Zenon DEF State, SamePrompts
<1>3. remoteReadyEffects(s) \in Seq(Unrelated)
  <2>1. s.RunnerGen \in Nat /\ s.AgentState.config \in AgentConfig
    BY StateFields, AgentStateFields
  <2>2. /\ effTakebackWatcher(TRUE) \in Unrelated
        /\ effApplyEngineConfig(s.RunnerGen, s.AgentState.config) \in Unrelated
    BY <2>1, UnrelatedTypes, Zenon
  <2> QED BY <2>2, SendsUnrelated, SeqType, Zenon DEF remoteReadyEffects
<1>4. reply \o remoteReadyEffects(s) \in Seq(Unrelated)
  BY <1>1, <1>3, SeqType, Zenon
<1> QED BY <1>1, <1>2, <1>4, RetBystander, Zenon DEF reduceRunnerReady

\* evRunnerExited, with the failed start and the fall back to local.
LEMMA RunnerExitedAside ==
  ASSUME NEW s \in State, NEW in, in.err \in Results
  PROVE  Bystander(s, reduceRunnerExited(s, in))
<1> DEFINE n == recordExit(s, in)
           failed == backToLocal(n)
           idle == [failed EXCEPT !.Working = FALSE]
           closed == [n EXCEPT !.FSM = "Closed"]
           reply == replyTo(n.PendingSwitchReply, in.err)
<1>1. n \in State /\ SamePrompts(s, n)
  <2>1. n \in State
    BY RecordExitType, Zenon
  <2>2. SamePrompts(s, n)
    BY Zenon DEF recordExit, State, SamePrompts
  <2> QED BY <2>1, <2>2
<1> HIDE DEF n
<1>2. reply \in Seq(Unrelated) /\ <<>> \in Seq(Unrelated)
  BY <1>1, StateFields, RepliesUnrelated
<1>3. SamePrompts(s, idle) /\ SamePrompts(s, closed)
  BY <1>1, Zenon DEF backToLocal, State, SamePrompts
<1>4. Bystander(s, failStart(n, in.err))
  <2> DEFINE d == [failed EXCEPT !.PendingRemoteSends = <<>>, !.AgentState.controlledByUser = TRUE]
             p == schedulePersistDebounced(refreshAgentStateJSON(d))
  <2>1. d \in State /\ SamePrompts(s, d)
    <3>1. "LocalRunning" \in FSMState /\ "local" \in Modes /\ <<>> \in Seq(Messages)
      BY DEF FSMState, Running, Modes
    <3>2. failed \in State /\ SamePrompts(s, failed)
      BY <1>1, <3>1, Zenon DEF backToLocal, State, SamePrompts
    <3> HIDE DEF failed
    <3>3. /\ [failed.AgentState EXCEPT !.controlledByUser = TRUE] \in AgentState
          /\ [failed.AgentState EXCEPT !.controlledByUser = TRUE].requests
               = failed.AgentState.requests
      BY <3>2, StateFields, Zenon DEF AgentState
    <3> QED BY <3>1, <3>2, <3>3, Zenon DEF State, SamePrompts
  <2> HIDE DEF d
  <2>2. Bystander(s, p)
    BY <2>1, PublishPrompts, Zenon
  <2> HIDE DEF p
  <2>3. Bystander(s, Ret(p.st, reply \o localSendLines(n) \o p.eff))
    <3>1. reply \o localSendLines(n) \in Seq(Unrelated)
      BY <1>1, <1>2, SendsUnrelated, SeqType, Zenon
    <3> QED BY <2>2, <3>1, BystanderWith, Zenon
  <2>4. Bystander(s, Ret(idle, reply))
    BY <1>2, <1>3, RetBystander, Zenon
  <2> QED BY <2>3, <2>4, Zenon DEF failStart, d, p
<1>5. Bystander(s, fallBackToLocal(n))
  <2> DEFINE gen == n.RunnerGen + 1
             handle == [gen |-> gen, running |-> FALSE]
             d == [n EXCEPT !.RunnerGen = gen, !.Mode = "local", !.FSM = "LocalStarting",
                            !.Working = FALSE, !.LocalRunner = handle,
                            !.AgentState.controlledByUser = TRUE]
             p == schedulePersistDebounced(refreshAgentStateJSON(d))
  <2>1. gen \in Nat /\ gen - 1 \in Nat /\ handle \in runnerHandle
    BY <1>1, StateFields DEF runnerHandle
  <2>2. gen = n.RunnerGen + 1
    OBVIOUS
  <2> HIDE DEF gen, handle
  <2>3. d \in State /\ d.RunnerGen = gen /\ SamePrompts(s, d)
    <3>1. "LocalStarting" \in FSMState /\ "local" \in Modes
      BY DEF FSMState, Starting, Modes
    <3>2. /\ [n.AgentState EXCEPT !.controlledByUser = TRUE] \in AgentState
          /\ [n.AgentState EXCEPT !.controlledByUser = TRUE].requests = n.AgentState.requests
      BY <1>1, StateFields, Zenon DEF AgentState
    <3> QED BY <1>1, <2>1, <3>1, <3>2, Zenon DEF State, SamePrompts
  <2> HIDE DEF d
  <2>4. Bystander(s, p)
    BY <2>3, PublishPrompts, Zenon
  <2>5. p.st \in State /\ p.st.RunnerGen = gen
    <3>1. refreshAgentStateJSON(d) \in State /\ refreshAgentStateJSON(d).RunnerGen = gen
      <4>1. refreshAgentStateJSON(d).RunnerGen = gen
        BY <2>3, Zenon DEF refreshAgentStateJSON, setAgentStateJSON, State
      <4> QED BY <2>3, <4>1, RevisionPrompts, StateFields
    <3>2. p.st \in State
      BY <3>1, DebounceType, Zenon DEF Keeps, Follows, Handled, WellTyped
    <3>3. p.st.RunnerGen = gen
      BY <3>1, Zenon DEF schedulePersistDebounced, Ret, State
    <3> QED BY <3>2, <3>3
  <2> HIDE DEF p
  <2>6. restartEffects(p.st) \in Seq(Unrelated)
    <3>1. /\ p.st.RunnerGen \in Nat /\ p.st.RunnerGen - 1 \in Nat /\ p.st.Mode \in Modes
          /\ p.st.AgentState.config \in AgentConfig
      BY <2>1, <2>5, StateFields, AgentStateFields
    <3> QED BY <3>1, UnrelatedTypes, SeqType, Zenon DEF restartEffects
  <2>7. Bystander(s, Ret(p.st, restartEffects(p.st) \o p.eff))
    BY <2>4, <2>6, BystanderWith, Zenon
  <2> QED BY <2>7, Zenon DEF fallBackToLocal, p, d, gen, handle
<1>6. Bystander(s, Ret(s, <<>>)) /\ Bystander(s, Ret(closed, <<>>))
  BY <1>2, <1>3, RetBystander, Zenon DEF SamePrompts
<1>7. \/ reduceRunnerExited(s, in) = Ret(s, <<>>)
      \/ reduceRunnerExited(s, in) = failStart(n, in.err)
      \/ reduceRunnerExited(s, in) = fallBackToLocal(n)
      \/ reduceRunnerExited(s, in) = Ret(closed, <<>>)
  BY DEF reduceRunnerExited, n
<1> QED BY <1>4, <1>5, <1>6, <1>7, Zenon

\* cmdShutdown, cmdRemoteSend, cmdAbortRemote and evEngineWorking.
LEMMA PlainAside ==
  ASSUME NEW s \in State
  PROVE  /\ Bystander(s, reduceShutdown(s))
         /\ \A msg \in Messages, reply \in Calls \cup {None} :
              Bystander(s, reduceRemoteSend(s, msg, reply))
         /\ \A reply \in Calls \cup {None} : Bystander(s, reduceAbortRemote(s, reply))
         /\ \A in : Bystander(s, reduceEngineWorking(s, in))
<1>1. s.RunnerGen \in Nat /\ <<>> \in Seq(Unrelated) /\ SamePrompts(s, s)
  BY StateFields DEF SamePrompts
<1>2. Bystander(s, reduceShutdown(s))
  <2>1. SamePrompts(s, [s EXCEPT !.FSM = "Closing"])
    BY Zenon DEF State, SamePrompts
  <2>2. <<effStopLocalRunner(s.RunnerGen), effStopRemoteRunner(s.RunnerGen),
          effTakebackWatcher(FALSE)>> \in Seq(Unrelated)
    BY <1>1, UnrelatedTypes, SeqType, Zenon
  <2> QED BY <2>1, <2>2, RetBystander, Zenon DEF reduceShutdown
<1>3. ASSUME NEW msg \in Messages, NEW reply \in Calls \cup {None}
      PROVE  Bystander(s, reduceRemoteSend(s, msg, reply))
  <2>1. replyTo(reply, "ok") \in Seq(Unrelated) /\ replyTo(reply, "err") \in Seq(Unrelated)
    BY RepliesUnrelated DEF Results
  <2>2. <<effRemoteSend(s.RunnerGen, msg)>> \o replyTo(reply, "ok") \in Seq(Unrelated)
    BY <1>1, <2>1, UnrelatedTypes, SeqType, Zenon
  <2>3. SamePrompts(s, maybeStartTurn(s))
    BY Zenon DEF maybeStartTurn, State, SamePrompts
  <2> QED BY <1>1, <2>1, <2>2, <2>3, RetBystander, Zenon DEF reduceRemoteSend
<1>4. ASSUME NEW reply \in Calls \cup {None}
      PROVE  Bystander(s, reduceAbortRemote(s, reply))
  <2>1. replyTo(reply, "ok") \in Seq(Unrelated) /\ replyTo(reply, "err") \in Seq(Unrelated)
    BY RepliesUnrelated DEF Results
  <2>2. <<effRemoteAbort(s.RunnerGen)>> \o replyTo(reply, "ok") \in Seq(Unrelated)
    BY <1>1, <2>1, UnrelatedTypes, SeqType, Zenon
  <2> QED BY <1>1, <2>1, <2>2, RetBystander, Zenon DEF reduceAbortRemote
<1>5. ASSUME NEW in
      PROVE  Bystander(s, reduceEngineWorking(s, in))
  <2>1. SamePrompts(s, [s EXCEPT !.Working = in.working])
    BY Zenon DEF State, SamePrompts
  <2> QED BY <1>1, <2>1, RetBystander, Zenon DEF reduceEngineWorking
<1> QED BY <1>2, <1>3, <1>4, <1>5

\* cmdInboundUserMessage, with the switch it may cause.
LEMMA InboundAside ==
  ASSUME NEW s \in State, NEW msg \in Messages
  PROVE  Bystander(s, reduceInboundUserMessage(s, msg))
<1> DEFINE buffered == [s EXCEPT !.PendingRemoteSends = Append(@, msg)]
           r == reduceSwitchMode(buffered, "remote", None)
<1>1. buffered \in State /\ SamePrompts(s, buffered)
  <2>1. Append(s.PendingRemoteSends, msg) \in Seq(Messages)
    BY StateFields
  <2> QED BY <2>1, Zenon DEF State, SamePrompts
<1> HIDE DEF buffered
<1>2. r.st \in State /\ Bystander(s, r)
  <2>1. "remote" \in Modes
    BY DEF Modes
  <2>2. r.st \in State
    BY <1>1, <2>1, SwitchModeType, Zenon DEF Handled, WellTyped
  <2>3. Bystander(buffered, r)
    BY <1>1, <2>1, SwitchModeAside, Zenon
  <2> QED BY <1>1, <2>2, <2>3, Zenon DEF Bystander, SamePrompts
<1> HIDE DEF r
<1>3. \A n \in State : SamePrompts(n, maybeStartTurn(n))
  BY Zenon DEF maybeStartTurn, State, SamePrompts
<1>4. /\ SamePrompts(s, maybeStartTurn(s)) /\ SamePrompts(s, maybeStartTurn(buffered))
      /\ SamePrompts(s, maybeStartTurn(r.st))
  BY <1>1, <1>2, <1>3, Zenon DEF SamePrompts, Bystander
<1>5. <<effRemoteSend(s.RunnerGen, msg)>> \in Seq(Unrelated) /\ <<>> \in Seq(Unrelated)
      /\ r.eff \in Seq(Unrelated)
  BY <1>2, StateFields, UnrelatedTypes, SeqType, Zenon DEF Bystander
<1> QED BY <1>4, <1>5, RetBystander, Zenon DEF reduceInboundUserMessage, buffered, r

\* cmdSetAgentConfig.
LEMMA SetAgentConfigAside ==
  ASSUME NEW s \in State, NEW in, in.model \in Models \cup {None},
         in.permissionMode \in PermissionModes \cup {None}, in.reply \in Calls \cup {None}
  PROVE  Bystander(s, reduceSetAgentConfig(s, in))
<1> DEFINE keep(new, old) == IF new = None THEN old ELSE new
           cfg == [model |-> keep(in.model, s.AgentState.config.model),
                   permissionMode |-> keep(in.permissionMode,
                                           s.AgentState.config.permissionMode)]
           n == [s EXCEPT !.AgentState.config = cfg]
           p == persistAgentStateImmediately(refreshAgentStateJSON(n))
           apply == IF s.FSM = "RemoteRunning"
                    THEN <<effApplyEngineConfig(s.RunnerGen, cfg)>> ELSE <<>>
<1>1. cfg \in AgentConfig
  <2>1. s.AgentState.config.model \in Models
        /\ s.AgentState.config.permissionMode \in PermissionModes
    BY StateFields, AgentStateFields
  <2>2. keep(in.model, s.AgentState.config.model) \in Models
        /\ keep(in.permissionMode, s.AgentState.config.permissionMode) \in PermissionModes
    BY <2>1
  <2> QED BY <2>2, Zenon DEF AgentConfig
<1> HIDE DEF cfg
<1>2. n \in State /\ SamePrompts(s, n)
  <2>1. /\ [s.AgentState EXCEPT !.config = cfg] \in AgentState
        /\ [s.AgentState EXCEPT !.config = cfg].requests = s.AgentState.requests
    BY <1>1, StateFields, Zenon DEF AgentState
  <2> QED BY <2>1, Zenon DEF State, SamePrompts
<1> HIDE DEF n
<1>3. Bystander(s, p)
  BY <1>2, PublishPrompts, Zenon
<1> HIDE DEF p
<1>4. apply \in Seq(Unrelated)
  BY <1>1, StateFields, UnrelatedTypes, SeqType, Zenon
<1> HIDE DEF apply
<1>5. replyTo(in.reply, "ok") \in Seq(Unrelated)
  BY RepliesUnrelated DEF Results
<1>6. Bystander(s, Ret(p.st, p.eff \o apply \o replyTo(in.reply, "ok")))
  BY <1>3, <1>4, <1>5, BystanderWith, Zenon
<1>7. /\ Bystander(s, Ret(s, replyTo(in.reply, "err")))
      /\ Bystander(s, Ret(s, replyTo(in.reply, "ok")))
  BY RetNothing DEF Results
<1>8. \/ reduceSetAgentConfig(s, in) = Ret(s, replyTo(in.reply, "err"))
      \/ reduceSetAgentConfig(s, in) = Ret(s, replyTo(in.reply, "ok"))
      \/ reduceSetAgentConfig(s, in) = Ret(p.st, p.eff \o apply \o replyTo(in.reply, "ok"))
  <2>1. CASE s.Mode # "remote" \/ s.AgentState.controlledByUser
    BY <2>1, Zenon DEF reduceSetAgentConfig
  <2>2. CASE /\ ~(s.Mode # "remote" \/ s.AgentState.controlledByUser)
             /\ cfg = s.AgentState.config
    BY <2>2, Zenon DEF reduceSetAgentConfig, cfg
  <2>3. CASE /\ ~(s.Mode # "remote" \/ s.AgentState.controlledByUser)
             /\ cfg # s.AgentState.config
    BY <2>3, Zenon DEF reduceSetAgentConfig, cfg, n, p, apply
  <2> QED BY <2>1, <2>2, <2>3
<1> QED BY <1>6, <1>7, <1>8, Zenon

\* evEngineSessionIdentified.
LEMMA IdentifiedAside ==
  ASSUME NEW s \in State, NEW in, in.token \in Tokens
  PROVE  Bystander(s, reduceEngineSessionIdentified(s, in))
<1> DEFINE n == [s EXCEPT !.ResumeToken = in.token, !.AgentState.resumeToken = in.token]
<1>1. in.token \in Tokens \cup {None}
  OBVIOUS
<1>2. /\ [s.AgentState EXCEPT !.resumeToken = in.token] \in AgentState
      /\ [s.AgentState EXCEPT !.resumeToken = in.token].requests = s.AgentState.requests
  BY <1>1, StateFields, Zenon DEF AgentState
<1>3. n \in State /\ SamePrompts(s, n)
  BY <1>1, <1>2, Zenon DEF State, SamePrompts
<1> HIDE DEF n
<1>4. Bystander(s, schedulePersistDebounced(refreshAgentStateJSON(n)))
  BY <1>3, PublishPrompts, Zenon
<1>5. Bystander(s, Ret(s, <<>>))
  BY SeqType, RetBystander, Zenon DEF SamePrompts
<1> QED BY <1>4, <1>5, Zenon DEF reduceEngineSessionIdentified, n

\* The handlers of the persistence and of the connection.
LEMMA PersistenceAside ==
  ASSUME NEW s \in State
  PROVE  /\ \A doc \in AgentState : Bystander(s, reducePersistAgentStateImmediate(s, doc))
         /\ \A reply \in Calls : Bystander(s, reduceWaitForAgentStatePersist(s, reply))
         /\ \A in : Bystander(s, reduceAgentStatePersisted(s, in))
         /\ \A in : in.version \in Nat => Bystander(s, reduceAgentStateVersionMismatch(s, in))
         /\ Bystander(s, reduceAgentStatePersistFailed(s))
         /\ Bystander(s, reduceTimerFired(s))
         /\ Bystander(s, reduceWSConnected(s))
         /\ Bystander(s, reduceWSDisconnected(s))
<1>1. /\ <<>> \in Seq(Unrelated) /\ SamePrompts(s, s)
      /\ completeWaiters(s.PersistWaiters, "ok") \in Seq(Unrelated)
      /\ completeWaiters(s.PersistWaiters, "err") \in Seq(Unrelated)
  BY StateFields, RepliesUnrelated DEF Results, SamePrompts
<1>2. \A doc \in AgentState : Bystander(s, reducePersistAgentStateImmediate(s, doc))
  BY <1>1, PublishPrompts, Zenon DEF reducePersistAgentStateImmediate
<1>3. ASSUME NEW reply \in Calls
      PROVE  Bystander(s, reduceWaitForAgentStatePersist(s, reply))
  <2> DEFINE w == [s EXCEPT !.PersistWaiters = Append(@, reply)]
  <2>1. Append(s.PersistWaiters, reply) \in Seq(Calls)
    BY StateFields
  <2>2. w \in State /\ SamePrompts(s, w)
    BY <2>1, Zenon DEF State, SamePrompts
  <2> HIDE DEF w
  <2>3. Bystander(s, Ret(w, <<>>)) /\ Bystander(s, persistAgentStateImmediately(w))
    BY <1>1, <2>2, RetBystander, PersistPrompts, Zenon
  <2> QED BY <2>3, Zenon DEF reduceWaitForAgentStatePersist, w
<1>4. ASSUME NEW in
      PROVE  Bystander(s, reduceAgentStatePersisted(s, in))
  <2>1. SamePrompts(s, [s EXCEPT !.AgentStateVersion = IF in.version > 0 THEN in.version ELSE @,
                                 !.PersistRetryRemaining = 0, !.PersistInFlight = FALSE,
                                 !.PersistWaiters = <<>>])
    BY Zenon DEF State, SamePrompts
  <2> QED BY <1>1, <2>1, RetBystander, Zenon DEF reduceAgentStatePersisted
<1>5. ASSUME NEW in, in.version \in Nat
      PROVE  Bystander(s, reduceAgentStateVersionMismatch(s, in))
  <2> DEFINE v == IF in.version > 0 THEN in.version ELSE s.AgentStateVersion
             n == [s EXCEPT !.AgentStateVersion = v]
             m == [n EXCEPT !.PersistRetryRemaining = @ - 1,
                            !.PersistDebounceTimerArmed = FALSE,
                            !.PersistInFlight = TRUE]
  <2>1. v \in Nat
    BY <1>5, StateFields
  <2> HIDE DEF v
  <2>2. n \in State /\ SamePrompts(s, n)
    BY <2>1, Zenon DEF State, SamePrompts
  <2> HIDE DEF n
  <2>3. SamePrompts(s, m)
    BY <2>2, Zenon DEF State, SamePrompts
  <2> HIDE DEF m
  <2>4. <<persistEffect(n)>> \in Seq(Unrelated)
    BY <2>2, UnrelatedTypes, SeqType, Zenon
  <2>5. Bystander(s, Ret(n, <<>>)) /\ Bystander(s, Ret(m, <<persistEffect(n)>>))
    BY <1>1, <2>2, <2>3, <2>4, RetBystander, Zenon
  <2> QED BY <2>5, Zenon DEF reduceAgentStateVersionMismatch, v, n, m
<1>6. Bystander(s, reduceAgentStatePersistFailed(s))
  <2> DEFINE n == [s EXCEPT !.PersistInFlight = FALSE, !.PersistWaiters = <<>>]
             p == schedulePersistDebounced(n)
  <2>1. n \in State /\ SamePrompts(s, n)
    <3>1. <<>> \in Seq(Calls)
      OBVIOUS
    <3> QED BY <3>1, Zenon DEF State, SamePrompts
  <2> HIDE DEF n
  <2>2. Bystander(s, p)
    BY <2>1, PersistPrompts, Zenon
  <2> HIDE DEF p
  <2>3. /\ Bystander(s, Ret(n, completeWaiters(s.PersistWaiters, "err")))
        /\ Bystander(s, Ret(p.st, completeWaiters(s.PersistWaiters, "err") \o p.eff))
    BY <1>1, <2>1, <2>2, RetBystander, BystanderWith, Zenon
  <2> QED BY <2>3, Zenon DEF reduceAgentStatePersistFailed, n, p
<1>7. Bystander(s, reduceTimerFired(s))
  <2> DEFINE n == [s EXCEPT !.PersistDebounceTimerArmed = FALSE, !.PersistRetryRemaining = 1]
  <2>1. n \in State /\ SamePrompts(s, n)
    <3>1. 1 \in 0..1
      OBVIOUS
    <3> QED BY <3>1, Zenon DEF State, SamePrompts
  <2> HIDE DEF n
  <2>2. <<persistEffect(n)>> \in Seq(Unrelated)
    BY <2>1, UnrelatedTypes, SeqType, Zenon
  <2> QED BY <2>1, <2>2, RetBystander, Zenon DEF reduceTimerFired, n
<1>8. Bystander(s, reduceWSConnected(s)) /\ Bystander(s, reduceWSDisconnected(s))
  <2> DEFINE on == [s EXCEPT !.WSConnected = TRUE]
             off == [s EXCEPT !.WSConnected = FALSE]
  <2>1. on \in State /\ SamePrompts(s, on) /\ SamePrompts(s, off)
    BY Zenon DEF State, SamePrompts
  <2> HIDE DEF on, off
  <2> QED BY <1>1, <2>1, RetBystander, PersistPrompts, Zenon
          DEF reduceWSConnected, reduceWSDisconnected, on, off
<1> QED BY <1>2, <1>3, <1>4, <1>5, <1>6, <1>7, <1>8

----------------------------------------------------------------------------
(* The two handlers that are about permissions.                            *)

\* cmdPermissionDecision: too late for the request, or it takes the promise
\* back, the request with it, and hands the decision to the call that had the
\* promise.
LEMMA DecisionMade ==
  ASSUME NEW s \in State, NEW in, in.request \in Requests, in.verdict \in {"allow", "deny"}
  PROVE  \/ reducePermissionDecision(s, in) = Ret(s, <<>>)
         \/ \E n : \E e \in Seq(Unrelated) :
              /\ reducePermissionDecision(s, in)
                   = Ret(n, completePromise(s, in.request, in.verdict) \o e)
              /\ n.PendingPermissionPromises
                   = [s.PendingPermissionPromises EXCEPT ![in.request] = None]
              /\ n.AgentState.requests = s.AgentState.requests \ {in.request}
<1> DEFINE r == in.request
           old == s.AgentState.completedRequests
           kept == IF Cardinality({q \in Requests : old[q] # "none"}) > MaxCompleted
                   THEN [q \in Requests |-> "none"] ELSE old
           done == [kept EXCEPT ![r] = in.verdict]
           left == s.AgentState.requests \ {r}
           promises == [s.PendingPermissionPromises EXCEPT ![r] = None]
           n == [s EXCEPT !.AgentState.requests = @ \ {r},
                          !.AgentState.completedRequests = [kept EXCEPT ![r] = in.verdict],
                          !.PendingPermissionPromises = [@ EXCEPT ![r] = None]]
           p == schedulePersistDebounced(refreshAgentStateJSON(n))
<1>1. in.verdict \in Verdicts /\ "none" \in Verdicts
  BY DEF Verdicts
<1>2. kept \in [Requests -> Verdicts]
  <2>1. old \in [Requests -> Verdicts]
    BY StateFields, AgentStateFields
  <2> HIDE DEF old
  <2>2. [q \in Requests |-> "none"] \in [Requests -> Verdicts]
    BY <1>1
  <2> QED BY <2>1, <2>2, Zenon
<1> HIDE DEF kept
<1>3. done \in [Requests -> Verdicts]
  BY <1>1, <1>2
<1>4. left \in SUBSET Requests
  BY StateFields, AgentStateFields
<1>5. promises \in [Requests -> Awaits \cup {None}]
  BY StateFields
<1> HIDE DEF done, left, promises
<1>6. /\ [s.AgentState EXCEPT !.requests = left, !.completedRequests = done] \in AgentState
      /\ [s.AgentState EXCEPT !.requests = left, !.completedRequests = done].requests = left
  BY <1>3, <1>4, StateFields, Zenon DEF AgentState
<1>7. n = [s EXCEPT !.AgentState = [s.AgentState EXCEPT !.requests = left,
                                                        !.completedRequests = done],
                    !.PendingPermissionPromises = promises]
  BY Zenon DEF done, left, promises, State
<1>8. n \in State /\ n.PendingPermissionPromises = promises /\ n.AgentState.requests = left
  BY <1>5, <1>6, <1>7, Zenon DEF State
<1> HIDE DEF n
<1>9. Bystander(n, p)
  BY <1>8, PublishPrompts, Zenon DEF SamePrompts
<1>10. p.eff \in Seq(Unrelated) /\ p.st.PendingPermissionPromises = promises
       /\ p.st.AgentState.requests = left
  BY <1>8, <1>9, Zenon DEF Bystander, SamePrompts
<1>11. \/ reducePermissionDecision(s, in) = Ret(s, <<>>)
       \/ reducePermissionDecision(s, in) = Ret(p.st, completePromise(s, r, in.verdict) \o p.eff)
  BY Zenon DEF reducePermissionDecision, kept, n
<1> HIDE DEF p
<1> QED BY <1>10, <1>11, Zenon DEF left, promises

\* cmdPermissionAwait: the mode decides at once, or the call takes the promise
\* for its request over and the request is one the phone sees.
LEMMA AwaitMade ==
  ASSUME NEW s \in State, NEW in, in.await \in Awaits
  PROVE  \/ /\ autoVerdict(s) # "none"
            /\ \E n : \E e \in Seq(Unrelated) :
                 /\ reducePermissionAwait(s, in)
                      = Ret(n, e \o << effSignalAck(in.await),
                                       effCompletePermissionDecision(in.await, autoVerdict(s)) >>)
                 /\ SamePrompts(s, n)
         \/ \E n : \E e \in Seq(Unrelated) :
              /\ reducePermissionAwait(s, in) = Ret(n, e \o <<effSignalAck(in.await)>>)
              /\ n.PendingPermissionPromises
                   = [s.PendingPermissionPromises EXCEPT ![RequestOf[in.await]] = in.await]
              /\ n.AgentState.requests = s.AgentState.requests \cup {RequestOf[in.await]}
<1> DEFINE a == in.await
           r == RequestOf[a]
           auto == autoVerdict(s)
           done == [s.AgentState.completedRequests EXCEPT ![r] = auto]
           asked == s.AgentState.requests \cup {r}
           promises == [s.PendingPermissionPromises EXCEPT ![r] = a]
           finished == [s EXCEPT !.AgentState.completedRequests = [@ EXCEPT ![r] = auto]]
           promised == [s EXCEPT !.PendingPermissionPromises = [@ EXCEPT ![r] = a]]
           entered == [promised EXCEPT !.AgentState.requests = @ \cup {r}]
           resolved == persistAgentStateImmediately(refreshAgentStateJSON(finished))
           registered == schedulePersistDebounced(refreshAgentStateJSON(entered))
           decide == <<effSignalAck(a), effCompletePermissionDecision(a, auto)>>
           announce == <<effEmitPermissionRequest(r)>>
           ack == <<effSignalAck(a)>>
<1>1. a \in Awaits /\ r \in Requests /\ auto \in Verdicts
  BY ConstantsOK, AutoVerdictType
<1> HIDE DEF a, r, auto
<1>2. announce \in Seq(Unrelated)
  BY <1>1, UnrelatedTypes, SeqType, Zenon
<1>3. <<effEmitPermissionRequest(r), effSignalAck(a)>> = announce \o ack
  OBVIOUS
<1> HIDE DEF decide, announce, ack
<1>4. done \in [Requests -> Verdicts] /\ asked \in SUBSET Requests
  BY <1>1, StateFields, AgentStateFields
<1>5. promises \in [Requests -> Awaits \cup {None}]
  BY <1>1, StateFields
<1>6. promised = [s EXCEPT !.PendingPermissionPromises = promises]
  BY Zenon
<1>7. finished = [s EXCEPT !.AgentState = [s.AgentState EXCEPT !.completedRequests = done]]
  BY Zenon
<1> HIDE DEF done, promises
<1>8. /\ [s.AgentState EXCEPT !.completedRequests = done] \in AgentState
      /\ [s.AgentState EXCEPT !.completedRequests = done].requests = s.AgentState.requests
  BY <1>4, StateFields, Zenon DEF AgentState
<1>9. /\ promised \in State /\ promised.AgentState = s.AgentState
      /\ promised.PendingPermissionPromises = promises
      /\ finished \in State /\ SamePrompts(s, finished)
  BY <1>5, <1>6, <1>7, <1>8, Zenon DEF State, SamePrompts
<1> HIDE DEF promised, finished
<1>10. entered = [promised EXCEPT !.AgentState = [s.AgentState EXCEPT !.requests = asked]]
  BY <1>9, Zenon
<1> HIDE DEF asked
<1>11. /\ [s.AgentState EXCEPT !.requests = asked] \in AgentState
       /\ [s.AgentState EXCEPT !.requests = asked].requests = asked
  BY <1>4, StateFields, Zenon DEF AgentState
<1>12. entered \in State /\ entered.PendingPermissionPromises = promises
       /\ entered.AgentState.requests = asked
  BY <1>9, <1>10, <1>11, Zenon DEF State
<1> HIDE DEF entered
<1>13. Bystander(s, resolved)
  BY <1>9, PublishPrompts, Zenon
<1>14. Bystander(entered, registered)
  BY <1>12, PublishPrompts, Zenon DEF SamePrompts
<1> HIDE DEF resolved, registered
<1>15. CASE auto # "none"
  <2>1. reducePermissionAwait(s, in) = Ret(resolved.st, resolved.eff \o decide)
    BY <1>15, Zenon DEF reducePermissionAwait, a, r, auto, resolved, finished, decide
  <2> QED BY <1>13, <1>15, <2>1, Zenon DEF Bystander, a, auto, decide
<1>16. CASE auto = "none" /\ r \in s.AgentState.requests
  <2>1. reducePermissionAwait(s, in) = Ret(promised, announce \o ack)
    BY <1>3, <1>16, Zenon DEF reducePermissionAwait, a, r, auto, promised
  <2>2. s.AgentState.requests \cup {r} = s.AgentState.requests
    BY <1>16
  <2> QED BY <1>2, <1>9, <2>1, <2>2, Zenon DEF promises, a, r, ack
<1>17. CASE auto = "none" /\ r \notin s.AgentState.requests
  <2>1. reducePermissionAwait(s, in) = Ret(registered.st, announce \o registered.eff \o ack)
    BY <1>17, Zenon DEF reducePermissionAwait, a, r, auto, promised, registered, entered,
                        announce, ack
  <2>2. announce \o registered.eff \in Seq(Unrelated)
    BY <1>2, <1>14, SeqType, Zenon DEF Bystander
  <2>3. registered.st.PendingPermissionPromises = promises
        /\ registered.st.AgentState.requests = asked
    BY <1>12, <1>14, Zenon DEF Bystander, SamePrompts
  <2> QED BY <2>1, <2>2, <2>3, Zenon DEF promises, asked, a, r, ack
<1> QED BY <1>15, <1>16, <1>17

----------------------------------------------------------------------------
(* The members of a queue.                                                 *)

LEMMA Members ==
  ASSUME NEW S, NEW a \in Seq(S), NEW T, NEW b \in Seq(T)
  PROVE  /\ ToSet(a \o b) = ToSet(a) \cup ToSet(b)
         /\ \A i \in DOMAIN (a \o b) \ DOMAIN a : (a \o b)[i] \in ToSet(b)
         /\ ToSet(a) \subseteq S
<1>1. /\ \A i \in DOMAIN a : i \in DOMAIN (a \o b) /\ (a \o b)[i] = a[i]
      /\ \A i \in DOMAIN b : Len(a) + i \in DOMAIN (a \o b) /\ (a \o b)[Len(a) + i] = b[i]
  OBVIOUS
<1>2. \A i \in DOMAIN (a \o b) \ DOMAIN a :
         i - Len(a) \in DOMAIN b /\ (a \o b)[i] = b[i - Len(a)]
  OBVIOUS
<1>3. \A i \in DOMAIN (a \o b) : (a \o b)[i] \in ToSet(a) \cup ToSet(b)
  BY <1>1, <1>2, Zenon DEF ToSet
<1>4. ToSet(a \o b) \subseteq ToSet(a) \cup ToSet(b)
  BY <1>3, Zenon DEF ToSet
<1>5. ToSet(a) \cup ToSet(b) \subseteq ToSet(a \o b)
  BY <1>1 DEF ToSet
<1>6. ToSet(a) \subseteq S
  BY DEF ToSet
<1> QED BY <1>2, <1>4, <1>5, <1>6, Zenon DEF ToSet

\* Short queues.
LEMMA FewMembers ==
  /\ ToSet(<<>>) = {}
  /\ \A x : ToSet(<<x>>) = {x}
  /\ \A x, y : ToSet(<<x, y>>) = {x, y}
<1>1. ToSet(<<>>) = {}
  BY DEF ToSet
<1>2. \A x : ToSet(<<x>>) = {x}
  BY DEF ToSet
<1>3. ASSUME NEW x, NEW y PROVE ToSet(<<x, y>>) = {x, y}
  <2>1. DOMAIN <<x, y>> = {1, 2} /\ <<x, y>>[1] = x /\ <<x, y>>[2] = y
    OBVIOUS
  <2> QED BY <2>1, Zenon DEF ToSet
<1> QED BY <1>1, <1>2, <1>3

\* The head of a queue and the rest.
LEMMA HeadAndTail ==
  ASSUME NEW S, NEW q \in Seq(S), q # <<>>
  PROVE  ToSet(q) = {Head(q)} \cup ToSet(Tail(q)) /\ DOMAIN Tail(q) \subseteq DOMAIN q
<1>1. \A i \in DOMAIN q :
        /\ i = 1 => q[i] = Head(q)
        /\ i # 1 => i - 1 \in DOMAIN Tail(q) /\ q[i] = Tail(q)[i - 1]
  OBVIOUS
<1>2. \A i \in DOMAIN Tail(q) : i + 1 \in DOMAIN q /\ Tail(q)[i] = q[i + 1]
  OBVIOUS
<1>3. 1 \in DOMAIN q /\ q[1] = Head(q) /\ DOMAIN Tail(q) \subseteq DOMAIN q
  OBVIOUS
<1>4. ToSet(q) \subseteq {Head(q)} \cup ToSet(Tail(q))
  BY <1>1 DEF ToSet
<1>5. {Head(q)} \cup ToSet(Tail(q)) \subseteq ToSet(q)
  BY <1>2, <1>3 DEF ToSet
<1> QED BY <1>3, <1>4, <1>5

----------------------------------------------------------------------------
(* A turn of the loop.                                                     *)

\* What a handler has to show.
Proper(r) ==
  LET E == ToSet(r.eff)
      all == ToSet(effects) \cup E
      before == st.PendingPermissionPromises
      after == r.st.PendingPermissionPromises
  IN  /\ honest(r.st)
      /\ \A x \in E :
           x.type = "CompletePermissionDecision" =>
             /\ x.verdict # "none"
             /\ <<RequestOf[x.await], x.verdict>> \in answered \/ x.verdict = autoVerdict(st)
      /\ \A q \in Requests : attended(q, before, ToSet(effects)) => attended(q, after, all)
      /\ \A x \in E : x.type = "SignalAck" => attended(RequestOf[x.await], after, all)

\* What NoInventedVerdict says of a step.
Given ==
  \A i \in DOMAIN effects' \ DOMAIN effects :
    effects'[i].type = "CompletePermissionDecision" =>
      \/ <<RequestOf[effects'[i].await], effects'[i].verdict>> \in answered
      \/ effects'[i].verdict = autoVerdict(st)

\* Then its turn keeps the invariant.
LEMMA ProperTurn ==
  ASSUME ActorTypeOK, PermissionInv, UNCHANGED permissionVars,
         NEW t, NEW r, Handle(t, r), WellTyped(r), Proper(r)
  PROVE  PermissionInv' /\ Given
<1>1. /\ st' = r.st /\ effects' = effects \o r.eff /\ inbox' = Tail(inbox) /\ inbox # <<>>
      /\ effects \in Seq(Effect) /\ r.eff \in Seq(Publishing(r.st)) /\ inbox \in Seq(Input)
  BY DEF Handle, ActorTypeOK, WellTyped
<1>2. ToSet(effects') = ToSet(effects) \cup ToSet(r.eff)
      /\ \A i \in DOMAIN effects' \ DOMAIN effects : effects'[i] \in ToSet(r.eff)
  BY <1>1, Members
<1>3. Promised'
  BY <1>1 DEF Proper, Promised, honest
<1>4. Settled'
  BY <1>2, Zenon DEF Proper, Settled, PermissionInv
<1>5. \A q : attended(q, r.st.PendingPermissionPromises, ToSet(effects) \cup ToSet(r.eff))
               => Attended(q)'
  BY <1>1, <1>2 DEF Attended, attended, permissionVars
<1>6. ASSUME NEW a \in Awaits, Acknowledged(a)'
      PROVE  Attended(RequestOf[a])'
  <2>1. RequestOf[a] \in Requests
    BY ConstantsOK
  <2>2. CASE Acknowledged(a)
    <3>1. attended(RequestOf[a], st.PendingPermissionPromises, ToSet(effects))
      BY <2>2 DEF PermissionInv, NobodyForgotten, Attended
    <3> QED BY <1>5, <2>1, <3>1, Zenon DEF Proper
  <2>3. CASE ~Acknowledged(a)
    <3>1. PICK x \in ToSet(r.eff) : x.type = "SignalAck" /\ x.await = a
      BY <1>2, <1>6, <2>3 DEF Acknowledged, permissionVars
    <3> QED BY <1>5, <3>1, Zenon DEF Proper
  <2> QED BY <2>2, <2>3
<1>7. FromPhone'
  <2>1. ToSet(inbox') \subseteq ToSet(inbox)
    BY <1>1, HeadAndTail
  <2> QED BY <2>1 DEF FromPhone, PermissionInv, permissionVars
<1>8. Given
  BY <1>2, Zenon DEF Given, Proper
<1> QED BY <1>3, <1>4, <1>6, <1>7, <1>8 DEF PermissionInv, NobodyForgotten

\* More effects do no harm.
LEMMA StillAttended ==
  ASSUME NEW q, NEW p, NEW E, NEW F, E \subseteq F, attended(q, p, E)
  PROVE  attended(q, p, F)
BY DEF attended

\* A handler that has nothing to do with permissions is proper.
LEMMA BystanderProper ==
  ASSUME PermissionInv, NEW r, Bystander(st, r)
  PROVE  Proper(r)
<1>1. ToSet(r.eff) \subseteq Unrelated
  BY Members DEF Bystander
<1>2. \A x \in ToSet(r.eff) : x.type # "CompletePermissionDecision" /\ x.type # "SignalAck"
  BY <1>1 DEF Unrelated
<1>3. honest(r.st)
  BY Zenon DEF PermissionInv, Promised, honest, Bystander, SamePrompts
<1>4. \A q \in Requests :
         attended(q, st.PendingPermissionPromises, ToSet(effects)) =>
           attended(q, r.st.PendingPermissionPromises, ToSet(effects) \cup ToSet(r.eff))
  <2>1. r.st.PendingPermissionPromises = st.PendingPermissionPromises
    BY DEF Bystander, SamePrompts
  <2> QED BY <2>1, StillAttended
<1> QED BY <1>2, <1>3, <1>4, Zenon DEF Proper

\* cmdPermissionDecision.
LEMMA DecisionProper ==
  ASSUME ActorTypeOK, PermissionInv, inbox # <<>>, In.type = "cmdPermissionDecision"
  PROVE  Proper(reducePermissionDecision(st, In))
<1> DEFINE q == In.request
           v == In.verdict
           a == st.PendingPermissionPromises[q]
           c == completePromise(st, q, v)
<1>1. st \in State /\ q \in Requests /\ v \in {"allow", "deny"}
  BY HeadOfInbox, InputFields DEF ActorTypeOK
<1>2. st.PendingPermissionPromises \in [Requests -> Awaits \cup {None}] /\ None \notin Awaits
  BY <1>1, StateFields, ConstantsOK
<1>3. <<q, v>> \in answered
  <2>1. In \in ToSet(inbox)
    BY HeadAndTail DEF ActorTypeOK, In
  <2> QED BY <2>1, Zenon DEF PermissionInv, FromPhone
<1>4. Bystander(st, Ret(st, <<>>))
  BY SeqType, RetBystander, Zenon DEF SamePrompts
<1>5. ASSUME NEW n, NEW e \in Seq(Unrelated),
             reducePermissionDecision(st, In) = Ret(n, c \o e),
             n.PendingPermissionPromises = [st.PendingPermissionPromises EXCEPT ![q] = None],
             n.AgentState.requests = st.AgentState.requests \ {q}
      PROVE  Proper(Ret(n, c \o e))
  <2>1. \A x \in ToSet(e) : x.type # "CompletePermissionDecision" /\ x.type # "SignalAck"
    <3>1. ToSet(e) \subseteq Unrelated
      BY Members
    <3> QED BY <3>1 DEF Unrelated
  <2>2. ToSet(c) = IF a = None THEN {} ELSE {effCompletePermissionDecision(a, v)}
    BY FewMembers, Zenon DEF completePromise
  <2>3. ToSet(c \o e) = ToSet(c) \cup ToSet(e)
    <3>1. c \in Seq(Quiet)
      BY <1>1, CompletePromiseType DEF Verdicts
    <3> QED BY <3>1, Members
  <2>4. honest(n)
    BY <1>1, <1>2, <1>5 DEF honest, PermissionInv, Promised
  <2>5. ASSUME NEW x \in ToSet(c \o e)
        PROVE  /\ x.type # "SignalAck"
               /\ x.type = "CompletePermissionDecision" =>
                    x.verdict # "none" /\ <<RequestOf[x.await], x.verdict>> \in answered
    <3>1. CASE x \in ToSet(e)
      BY <2>1, <3>1
    <3>2. CASE a # None /\ x = effCompletePermissionDecision(a, v)
      <4>1. RequestOf[a] = q
        BY <1>1, <3>2 DEF PermissionInv, Promised, honest
      <4>2. x.type = "CompletePermissionDecision" /\ x.await = a /\ x.verdict = v
        BY <3>2 DEF effCompletePermissionDecision
      <4> QED BY <1>1, <1>3, <4>1, <4>2
    <3> QED BY <2>2, <2>3, <2>5, <3>1, <3>2
  <2>6. ASSUME NEW r \in Requests, attended(r, st.PendingPermissionPromises, ToSet(effects))
        PROVE  attended(r, n.PendingPermissionPromises, ToSet(effects) \cup ToSet(c \o e))
    <3>1. PICK b \in Awaits :
            /\ RequestOf[b] = r
            /\ \/ st.PendingPermissionPromises[r] = b
               \/ \E x \in ToSet(effects) : x.type = "CompletePermissionDecision" /\ x.await = b
               \/ decisions[b] # "none"
      BY <2>6 DEF attended
    <3>2. CASE st.PendingPermissionPromises[r] = b /\ r # q
      BY <1>2, <1>5, <3>1, <3>2 DEF attended
    <3>3. CASE st.PendingPermissionPromises[r] = b /\ r = q
      <4>1. a = b /\ a # None
        BY <1>2, <3>1, <3>3
      <4>2. effCompletePermissionDecision(a, v) \in ToSet(c \o e)
        BY <2>2, <2>3, <4>1
      <4>3. effCompletePermissionDecision(a, v).type = "CompletePermissionDecision"
            /\ effCompletePermissionDecision(a, v).await = b
        BY <4>1 DEF effCompletePermissionDecision
      <4> QED BY <3>1, <4>2, <4>3, Zenon DEF attended
    <3>4. CASE st.PendingPermissionPromises[r] # b
      BY <3>1, <3>4, Zenon DEF attended
    <3> QED BY <3>2, <3>3, <3>4
  <2>7. Ret(n, c \o e).st = n /\ Ret(n, c \o e).eff = c \o e
    BY Zenon DEF Ret
  <2> HIDE DEF c
  <2> QED BY <2>4, <2>5, <2>6, <2>7, Zenon DEF Proper
<1> HIDE DEF c
<1>6. \/ reducePermissionDecision(st, In) = Ret(st, <<>>)
      \/ \E n : \E e \in Seq(Unrelated) :
           /\ reducePermissionDecision(st, In) = Ret(n, c \o e)
           /\ n.PendingPermissionPromises = [st.PendingPermissionPromises EXCEPT ![q] = None]
           /\ n.AgentState.requests = st.AgentState.requests \ {q}
  BY <1>1, DecisionMade, Zenon DEF c
<1>7. Proper(Ret(st, <<>>))
  BY <1>4, BystanderProper, Zenon
<1>8. CASE reducePermissionDecision(st, In) = Ret(st, <<>>)
  BY <1>7, <1>8, Zenon
<1>9. CASE reducePermissionDecision(st, In) # Ret(st, <<>>)
  <2>1. PICK n : \E e \in Seq(Unrelated) :
          /\ reducePermissionDecision(st, In) = Ret(n, c \o e)
          /\ n.PendingPermissionPromises = [st.PendingPermissionPromises EXCEPT ![q] = None]
          /\ n.AgentState.requests = st.AgentState.requests \ {q}
    BY <1>6, <1>9, Zenon
  <2>2. PICK e \in Seq(Unrelated) :
          /\ reducePermissionDecision(st, In) = Ret(n, c \o e)
          /\ n.PendingPermissionPromises = [st.PendingPermissionPromises EXCEPT ![q] = None]
          /\ n.AgentState.requests = st.AgentState.requests \ {q}
    BY <2>1, Zenon
  <2>3. Proper(Ret(n, c \o e))
    BY <1>5, <2>2, Zenon
  <2> QED BY <2>2, <2>3, Zenon
<1> QED BY <1>8, <1>9

\* cmdPermissionAwait.
LEMMA AwaitProper ==
  ASSUME ActorTypeOK, PermissionInv, inbox # <<>>, In.type = "cmdPermissionAwait"
  PROVE  Proper(reducePermissionAwait(st, In))
<1> DEFINE a == In.await
           r == RequestOf[a]
           v == autoVerdict(st)
           decide == <<effSignalAck(a), effCompletePermissionDecision(a, v)>>
           ack == <<effSignalAck(a)>>
<1>1. st \in State /\ a \in Awaits /\ r \in Requests
  BY HeadOfInbox, InputFields, ConstantsOK DEF ActorTypeOK
<1>2. st.PendingPermissionPromises \in [Requests -> Awaits \cup {None}] /\ None \notin Awaits
  BY <1>1, StateFields, ConstantsOK
<1>3. /\ effSignalAck(a).type = "SignalAck" /\ effSignalAck(a).await = a
      /\ effCompletePermissionDecision(a, v).type = "CompletePermissionDecision"
      /\ effCompletePermissionDecision(a, v).await = a
      /\ effCompletePermissionDecision(a, v).verdict = v
  BY DEF effSignalAck, effCompletePermissionDecision
<1>4. ASSUME NEW e \in Seq(Unrelated)
      PROVE  /\ \A x \in ToSet(e) :
                  x.type # "CompletePermissionDecision" /\ x.type # "SignalAck"
             /\ ToSet(e \o decide)
                  = ToSet(e) \cup {effSignalAck(a), effCompletePermissionDecision(a, v)}
             /\ ToSet(e \o ack) = ToSet(e) \cup {effSignalAck(a)}
  <2>1. ToSet(e) \subseteq Unrelated
    BY Members
  <2>2. decide \in Seq({effSignalAck(a), effCompletePermissionDecision(a, v)})
        /\ ack \in Seq({effSignalAck(a)})
    BY SeqType
  <2>3. ToSet(e \o decide) = ToSet(e) \cup ToSet(decide)
    <3> HIDE DEF decide
    <3> QED BY <2>2, Members
  <2>4. ToSet(e \o ack) = ToSet(e) \cup ToSet(ack)
    <3> HIDE DEF ack
    <3> QED BY <2>2, Members
  <2> QED BY <2>1, <2>3, <2>4, FewMembers DEF Unrelated
<1>5. ASSUME NEW n, NEW e \in Seq(Unrelated), v # "none", SamePrompts(st, n)
      PROVE  Proper(Ret(n, e \o decide))
  <2> DEFINE all == ToSet(effects) \cup ToSet(e \o decide)
  <2>1. honest(n)
    BY <1>5, Zenon DEF PermissionInv, Promised, honest, SamePrompts
  <2>2. \A q \in Requests : attended(q, st.PendingPermissionPromises, ToSet(effects)) =>
                              attended(q, n.PendingPermissionPromises, all)
    <3>1. n.PendingPermissionPromises = st.PendingPermissionPromises
      BY <1>5 DEF SamePrompts
    <3> QED BY <3>1, StillAttended
  <2>3. attended(r, n.PendingPermissionPromises, all)
    <3>1. effCompletePermissionDecision(a, v) \in all
      BY <1>4
    <3> HIDE DEF all
    <3> QED BY <1>1, <1>3, <3>1, Zenon DEF attended
  <2>4. \A x \in ToSet(e \o decide) :
           /\ x.type = "CompletePermissionDecision" => x.verdict = v /\ x.verdict # "none"
           /\ x.type = "SignalAck" => x.await = a
    BY <1>3, <1>4, <1>5
  <2>5. Ret(n, e \o decide).st = n /\ Ret(n, e \o decide).eff = e \o decide
    BY Zenon DEF Ret
  <2> HIDE DEF decide, a
  <2> QED BY <2>1, <2>2, <2>3, <2>4, <2>5, Zenon DEF Proper
<1>6. ASSUME NEW n, NEW e \in Seq(Unrelated),
             n.PendingPermissionPromises = [st.PendingPermissionPromises EXCEPT ![r] = a],
             n.AgentState.requests = st.AgentState.requests \cup {r}
      PROVE  Proper(Ret(n, e \o ack))
  <2> DEFINE all == ToSet(effects) \cup ToSet(e \o ack)
  <2>1. honest(n)
    BY <1>1, <1>2, <1>6 DEF honest, PermissionInv, Promised
  <2>2. attended(r, n.PendingPermissionPromises, all)
    BY <1>1, <1>2, <1>6 DEF attended
  <2>3. ASSUME NEW q \in Requests, attended(q, st.PendingPermissionPromises, ToSet(effects))
        PROVE  attended(q, n.PendingPermissionPromises, all)
    <3>1. CASE q = r
      BY <2>2, <3>1
    <3>2. CASE q # r
      <4>1. n.PendingPermissionPromises[q] = st.PendingPermissionPromises[q]
        BY <1>2, <1>6, <3>2
      <4> QED BY <2>3, <4>1 DEF attended
    <3> QED BY <3>1, <3>2
  <2>4. \A x \in ToSet(e \o ack) :
           /\ x.type # "CompletePermissionDecision"
           /\ x.type = "SignalAck" => x.await = a
    BY <1>3, <1>4
  <2>5. Ret(n, e \o ack).st = n /\ Ret(n, e \o ack).eff = e \o ack
    BY Zenon DEF Ret
  <2> HIDE DEF ack
  <2> QED BY <2>1, <2>2, <2>3, <2>4, <2>5, Zenon DEF Proper
<1> HIDE DEF decide, ack
<1>7. \/ /\ v # "none"
         /\ \E n : \E e \in Seq(Unrelated) :
              reducePermissionAwait(st, In) = Ret(n, e \o decide) /\ SamePrompts(st, n)
      \/ \E n : \E e \in Seq(Unrelated) :
           /\ reducePermissionAwait(st, In) = Ret(n, e \o ack)
           /\ n.PendingPermissionPromises = [st.PendingPermissionPromises EXCEPT ![r] = a]
           /\ n.AgentState.requests = st.AgentState.requests \cup {r}
  BY <1>1, AwaitMade, Zenon DEF decide, ack
<1> HIDE DEF a, r, v
<1> QED BY <1>5, <1>6, <1>7, ZenonT(60)

\* Every turn keeps the invariant and gives no verdict that nobody gave.
LEMMA ReducePermissions ==
  ASSUME ActorTypeOK, PermissionInv, UNCHANGED permissionVars, Reduce
  PROVE  PermissionInv' /\ Given
<1> DEFINE Fine(r) == WellTyped(r) /\ (Bystander(st, r) \/ Proper(r))
<1>0. ASSUME NEW t, NEW r, Handle(t, r), Fine(r)
      PROVE  PermissionInv' /\ Given
  BY <1>0, BystanderProper, ProperTurn, Zenon
<1> USE DEF Handled, Answered
<1>1. CASE ReduceSwitchMode
  <2>1. Fine(reduceSwitchMode(st, In.target, In.reply))
    BY <1>1, HandledInput, InputFields, SwitchModeType, SwitchModeAside
       DEF ReduceSwitchMode
  <2> QED BY <1>0, <1>1, <2>1, Zenon DEF ReduceSwitchMode
<1>2. CASE ReduceDesktopTakeback
  <2>1. Fine(reduceSwitchMode(st, "local", None))
    BY <1>2, HandledInput, SwitchModeType, SwitchModeAside
       DEF ReduceDesktopTakeback, Modes
  <2> QED BY <1>0, <1>2, <2>1, Zenon DEF ReduceDesktopTakeback
<1>3. CASE ReduceRunnerReady
  <2>1. Fine(reduceRunnerReady(st, In))
    BY <1>3, HandledInput, InputFields, RunnerReadyType, RunnerReadyAside
       DEF ReduceRunnerReady
  <2> QED BY <1>0, <1>3, <2>1, Zenon DEF ReduceRunnerReady
<1>4. CASE ReduceRunnerExited
  <2>1. Fine(reduceRunnerExited(st, In))
    BY <1>4, HandledInput, InputFields, RunnerExitedType, RunnerExitedAside
       DEF ReduceRunnerExited
  <2> QED BY <1>0, <1>4, <2>1, Zenon DEF ReduceRunnerExited
<1>5. CASE ReduceShutdown
  <2>1. Fine(reduceShutdown(st))
    BY <1>5, HandledInput, ShutdownType, PlainAside
       DEF ReduceShutdown
  <2> QED BY <1>0, <1>5, <2>1, Zenon DEF ReduceShutdown
<1>6. CASE ReduceInboundUserMessage
  <2>1. Fine(reduceInboundUserMessage(st, In.msg))
    BY <1>6, HandledInput, InputFields, InboundType, InboundAside
       DEF ReduceInboundUserMessage
  <2> QED BY <1>0, <1>6, <2>1, Zenon DEF ReduceInboundUserMessage
<1>7. CASE ReduceRemoteSend
  <2>1. Fine(reduceRemoteSend(st, In.msg, In.reply))
    BY <1>7, HandledInput, InputFields, RemoteSendType, PlainAside
       DEF ReduceRemoteSend
  <2> QED BY <1>0, <1>7, <2>1, Zenon DEF ReduceRemoteSend
<1>8. CASE ReduceAbortRemote
  <2>1. Fine(reduceAbortRemote(st, In.reply))
    BY <1>8, HandledInput, InputFields, AbortType, PlainAside
       DEF ReduceAbortRemote
  <2> QED BY <1>0, <1>8, <2>1, Zenon DEF ReduceAbortRemote
<1>9. CASE ReduceEngineWorking
  <2>1. Fine(reduceEngineWorking(st, In))
    BY <1>9, HandledInput, WorkingReduced, PlainAside
       DEF ReduceEngineWorking
  <2> QED BY <1>0, <1>9, <2>1, Zenon DEF ReduceEngineWorking
<1>10. CASE ReduceEngineSessionIdentified
  <2>1. Fine(reduceEngineSessionIdentified(st, In))
    BY <1>10, HandledInput, InputFields, IdentifiedType, IdentifiedAside
       DEF ReduceEngineSessionIdentified
  <2> QED BY <1>0, <1>10, <2>1, Zenon DEF ReduceEngineSessionIdentified
<1>11. CASE ReduceSetAgentConfig
  <2>1. Fine(reduceSetAgentConfig(st, In))
    BY <1>11, HandledInput, InputFields, SetAgentConfigType, SetAgentConfigAside
       DEF ReduceSetAgentConfig
  <2> QED BY <1>0, <1>11, <2>1, Zenon DEF ReduceSetAgentConfig
<1>12. CASE ReducePermissionAwait
  <2>1. Fine(reducePermissionAwait(st, In))
    BY <1>12, HandledInput, InputFields, AwaitType, AwaitProper
       DEF ReducePermissionAwait, Handle
  <2> QED BY <1>0, <1>12, <2>1, Zenon DEF ReducePermissionAwait
<1>13. CASE ReducePermissionDecision
  <2>1. Fine(reducePermissionDecision(st, In))
    BY <1>13, HandledInput, InputFields, DecisionType, DecisionProper
       DEF ReducePermissionDecision, Handle
  <2> QED BY <1>0, <1>13, <2>1, Zenon DEF ReducePermissionDecision
<1>14. CASE ReducePersistAgentStateImmediate
  <2>1. Fine(reducePersistAgentStateImmediate(st, In.doc))
    BY <1>14, HandledInput, InputFields, ImmediateType, PersistenceAside
       DEF ReducePersistAgentStateImmediate
  <2> QED BY <1>0, <1>14, <2>1, Zenon DEF ReducePersistAgentStateImmediate
<1>15. CASE ReduceWaitForAgentStatePersist
  <2>1. Fine(reduceWaitForAgentStatePersist(st, In.reply))
    BY <1>15, HandledInput, InputFields, WaitType, PersistenceAside
       DEF ReduceWaitForAgentStatePersist
  <2> QED BY <1>0, <1>15, <2>1, Zenon DEF ReduceWaitForAgentStatePersist
<1>16. CASE ReduceAgentStatePersisted
  <2>1. Fine(reduceAgentStatePersisted(st, In))
    BY <1>16, HandledInput, InputFields, PersistedType, PersistenceAside
       DEF ReduceAgentStatePersisted
  <2> QED BY <1>0, <1>16, <2>1, Zenon DEF ReduceAgentStatePersisted
<1>17. CASE ReduceAgentStateVersionMismatch
  <2>1. Fine(reduceAgentStateVersionMismatch(st, In))
    BY <1>17, HandledInput, InputFields, MismatchType, PersistenceAside
       DEF ReduceAgentStateVersionMismatch
  <2> QED BY <1>0, <1>17, <2>1, Zenon DEF ReduceAgentStateVersionMismatch
<1>18. CASE ReduceAgentStatePersistFailed
  <2>1. Fine(reduceAgentStatePersistFailed(st))
    BY <1>18, HandledInput, FailedType, PersistenceAside
       DEF ReduceAgentStatePersistFailed
  <2> QED BY <1>0, <1>18, <2>1, Zenon DEF ReduceAgentStatePersistFailed
<1>19. CASE ReduceTimerFired
  <2>1. Fine(reduceTimerFired(st))
    BY <1>19, HandledInput, TimerFiredType, PersistenceAside
       DEF ReduceTimerFired
  <2> QED BY <1>0, <1>19, <2>1, Zenon DEF ReduceTimerFired
<1>20. CASE ReduceWSConnected
  <2>1. Fine(reduceWSConnected(st))
    BY <1>20, HandledInput, ConnectionTypes, PersistenceAside
       DEF ReduceWSConnected
  <2> QED BY <1>0, <1>20, <2>1, Zenon DEF ReduceWSConnected
<1>21. CASE ReduceWSDisconnected
  <2>1. Fine(reduceWSDisconnected(st))
    BY <1>21, HandledInput, ConnectionTypes, PersistenceAside
       DEF ReduceWSDisconnected
  <2> QED BY <1>0, <1>21, <2>1, Zenon DEF ReduceWSDisconnected
<1> QED BY <1>1, <1>2, <1>3, <1>4, <1>5, <1>6, <1>7, <1>8, <1>9, <1>10, <1>11,
           <1>12, <1>13, <1>14, <1>15, <1>16, <1>17, <1>18, <1>19, <1>20, <1>21 DEF Reduce

----------------------------------------------------------------------------
(* Steps outside the loop.                                                 *)

\* The runtime takes an effect from the queue, at most.
Shrinks == effects' = effects \/ (effects # <<>> /\ effects' = Tail(effects))

\* The phone is the only one to post decisions.
MailKept ==
  inbox' = inbox \/ \E in : in.type # "cmdPermissionDecision" /\ inbox' = Append(inbox, in)

LEMMA Posted ==
  ASSUME NEW in, in.type # "cmdPermissionDecision", Post(in)
  PROVE  MailKept
BY Zenon DEF MailKept, Post

\* No such step queues anything for an engine.
LEMMA NothingGiven ==
  ASSUME ActorTypeOK, Shrinks
  PROVE  ToSet(effects') \subseteq ToSet(effects) /\ Given
<1>1. CASE effects' = effects
  BY <1>1 DEF Given
<1>2. CASE effects # <<>> /\ effects' = Tail(effects)
  <2>1. ToSet(effects') \subseteq ToSet(effects) /\ DOMAIN effects' \subseteq DOMAIN effects
    BY <1>2, HeadAndTail DEF ActorTypeOK
  <2> QED BY <2>1 DEF Given
<1> QED BY <1>1, <1>2 DEF Shrinks

LEMMA Appended ==
  ASSUME NEW S, NEW q \in Seq(S), NEW x
  PROVE  ToSet(Append(q, x)) = ToSet(q) \cup {x}
<1> DEFINE one == <<x>>
           T == {x}
<1>1. Append(q, x) = q \o one /\ one \in Seq(T) /\ ToSet(one) = T
  BY FewMembers
<1> HIDE DEF one, T
<1>2. ToSet(q \o one) = ToSet(q) \cup ToSet(one)
  BY <1>1, Members
<1> QED BY <1>1, <1>2 DEF T

\* The mailbox keeps to what the phone has said.
LEMMA FromPhoneKept ==
  ASSUME ActorTypeOK, FromPhone, answered' = answered, MailKept
  PROVE  FromPhone'
<1>1. ASSUME NEW in, in.type # "cmdPermissionDecision", inbox' = Append(inbox, in)
      PROVE  FromPhone'
  <2>1. ToSet(inbox') = ToSet(inbox) \cup {in}
    <3>1. inbox \in Seq(Input)
      BY DEF ActorTypeOK
    <3> QED BY <1>1, <3>1, Appended
  <2> QED BY <1>1, <2>1, Zenon DEF FromPhone
<1> QED BY <1>1 DEF MailKept, FromPhone

\* The effects that are left still answer whom they answered, unless the one
\* that has been executed did.
LEMMA AttendedKept ==
  ASSUME ActorTypeOK, st' = st, Shrinks,
         \A b \in Awaits : decisions[b] # "none" => decisions'[b] # "none",
         /\ effects' # effects
         /\ Head(effects).type = "CompletePermissionDecision"
         => decisions'[Head(effects).await] # "none"
  PROVE  \A r : Attended(r) => Attended(r)'
<1> SUFFICES ASSUME NEW r, Attended(r) PROVE Attended(r)'
  OBVIOUS
<1>1. PICK b \in Awaits :
        /\ RequestOf[b] = r
        /\ \/ st.PendingPermissionPromises[r] = b
           \/ \E x \in ToSet(effects) : x.type = "CompletePermissionDecision" /\ x.await = b
           \/ decisions[b] # "none"
  BY DEF Attended, attended
<1>2. ASSUME NEW x \in ToSet(effects), x.type = "CompletePermissionDecision", x.await = b
      PROVE  x \in ToSet(effects') \/ decisions'[b] # "none"
  <2>1. CASE effects' = effects
    BY <1>2, <2>1
  <2>2. CASE effects # <<>> /\ effects' = Tail(effects) /\ effects' # effects
    <3>1. x = Head(effects) \/ x \in ToSet(effects')
      BY <1>2, <2>2, HeadAndTail DEF ActorTypeOK
    <3> QED BY <1>2, <2>2, <3>1
  <2> QED BY <2>1, <2>2 DEF Shrinks
<1> QED BY <1>1, <1>2, Zenon DEF Attended, attended

\* A step that acknowledges nobody and settles nothing anew keeps the invariant.
LEMMA OutsideKept ==
  ASSUME ActorTypeOK, PermissionInv, st' = st, Shrinks,
         \A r : Attended(r) => Attended(r)',
         \A a \in Awaits : Acknowledged(a)' => Acknowledged(a),
         FromPhone'
  PROVE  PermissionInv' /\ Given
<1>1. ToSet(effects') \subseteq ToSet(effects) /\ Given
  BY NothingGiven
<1>2. Promised'
  BY DEF PermissionInv, Promised, honest
<1>3. Settled'
  BY <1>1, Zenon DEF PermissionInv, Settled
<1>4. NobodyForgotten'
  BY Zenon DEF PermissionInv, NobodyForgotten
<1> QED BY <1>1, <1>2, <1>3, <1>4 DEF PermissionInv

\* Such are all steps that have nothing to do with permissions.
Aside ==
  /\ UNCHANGED <<st, permissionVars>>
  /\ Shrinks
  /\ effects' # effects =>
       Head(effects).type \notin {"CompletePermissionDecision", "SignalAck"}
  /\ MailKept

LEMMA AsideKept ==
  ASSUME ActorTypeOK, PermissionInv, Aside
  PROVE  PermissionInv' /\ Given
<1> USE DEF Aside, permissionVars
<1>1. ToSet(effects') \subseteq ToSet(effects)
  BY NothingGiven
<1>2. \A r : Attended(r) => Attended(r)'
  BY AttendedKept
<1>3. \A a \in Awaits : Acknowledged(a)' => Acknowledged(a)
  BY <1>1 DEF Acknowledged
<1>4. FromPhone'
  BY FromPhoneKept DEF PermissionInv
<1> QED BY <1>2, <1>3, <1>4, OutsideKept

\* The engine half of the runtime.
LEMMA RuntimeAside ==
  ASSUME IInv, UNCHANGED permissionVars,
         EngineStep \/ SendSucceeds \/ (\E x \in sending : SendFails(x)) \/ EngineStimulus
  PROVE  Aside
<1> USE DEF Aside, Shrinks, NextEffect, Effect1, Executed
<1>1. CASE StopEngineLocal \/ StopEngineRemote
  BY <1>1 DEF StopEngineLocal, StopEngineRemote, stopEngine, MailKept
<1>2. CASE StartEngine \/ \E x \in exiting : ReportExit(x)
  BY <1>2 DEF StartEngine, ReportExit, actorVars, MailKept
<1>3. CASE EngineStarted
  <2>1. effects # <<>> /\ Head(effects).type = "StartRunner"
    BY <1>3 DEF EngineStarted, IInv, StartHeld
  <2> QED BY <1>3, <2>1 DEF EngineStarted, MailKept
<1>4. CASE EngineStartFails
  <2>1. effects # <<>> /\ Head(effects).type = "StartRunner"
    BY <1>4 DEF EngineStartFails, IInv, StartHeld
  <2>2. MailKept
    BY <1>4, Posted DEF EngineStartFails
  <2> QED BY <1>4, <2>1, <2>2 DEF EngineStartFails
<1>5. CASE HandleEngineEvent
  <2> DEFINE ev == Head(engineEvents)
  <2>1. ev \in EngineEvent
    BY <1>5 DEF HandleEngineEvent, IInv, TypeOK, EngineTypeOK
  <2> HIDE DEF ev
  <2>2. inputOf(ev).type # "cmdPermissionDecision"
    BY <2>1, EngineEventFields DEF inputOf
  <2>3. MailKept
    BY <1>5, <2>2, Posted DEF HandleEngineEvent, ev
  <2> QED BY <1>5, <2>3 DEF HandleEngineEvent
<1>6. CASE EmitKey
  <2>1. MailKept
    BY <1>6, Posted DEF EmitKey
  <2> QED BY <1>6, <2>1 DEF EmitKey
<1>7. CASE EngineRemoteSend \/ EngineRemoteAbort \/ ApplyEngineConfig \/ EngineLocalSendLine
           \/ SetTakebackWatcher
  BY <1>7 DEF EngineRemoteSend, EngineRemoteAbort, ApplyEngineConfig, EngineLocalSendLine,
              SetTakebackWatcher, MailKept
<1>8. CASE SendSucceeds \/ \E x \in sends : SendBegins(x)
  BY <1>8 DEF SendSucceeds, SendBegins, actorVars, MailKept
<1>9. ASSUME NEW x \in sending, SendFails(x)
      PROVE  Aside
  <2>1. MailKept
    BY <1>9, Posted DEF SendFails, MailKept
  <2> QED BY <1>9, <2>1 DEF SendFails
<1>10. CASE \/ \E m \in Modes, err \in Results : RunExits(m, err)
            \/ \E m \in Modes, token \in Tokens : Identify(m, token)
            \/ \E m \in Modes, w \in BOOLEAN : ReportWorking(m, w)
            \/ \E k \in {"takeback", "shutdown"} : PressKey(k)
  BY <1>10 DEF RunExits, Identify, ReportWorking, ReportFromRun, PressKey, MailKept
<1> QED BY <1>1, <1>2, <1>3, <1>4, <1>5, <1>6, <1>7, <1>8, <1>9, <1>10
        DEF EngineStep, EngineStimulus

\* The persistence half and the connection.
LEMMA SyncAside ==
  ASSUME UNCHANGED permissionVars, SyncStep \/ SyncStimulus
  PROVE  Aside
<1> USE DEF Aside, Shrinks, NextEffect, Effect1, Executed
<1>1. CASE StartTimer \/ CancelTimer \/ PersistAgentState \/ TimerExpires
  BY <1>1 DEF StartTimer, CancelTimer, PersistAgentState, TimerExpires, MailKept
<1>2. CASE TimerCallback
  <2>1. MailKept
    BY <1>2, Posted DEF TimerCallback
  <2> QED BY <1>2, <2>1 DEF TimerCallback
<1>3. CASE Connect \/ Disconnect
  <2>1. MailKept
    BY <1>3, Posted DEF Connect, Disconnect
  <2> QED BY <1>3, <2>1 DEF Connect, Disconnect
<1>4. ASSUME NEW i \in DOMAIN updates, UpdateArrives(i) \/ UpdateReturns(i) \/ UpdateTimesOut(i)
      PROVE  Aside
  <2>1. answerOf(updates[i]).type # "cmdPermissionDecision"
    BY DEF answerOf
  <2>2. MailKept
    BY <1>4, <2>1, Posted DEF UpdateArrives, UpdateReturns, UpdateTimesOut, MailKept, actorVars
  <2> QED BY <1>4, <2>2 DEF UpdateArrives, UpdateReturns, UpdateTimesOut, actorVars
<1>5. CASE \E o \in orphans : OrphanArrives(o)
  BY <1>5 DEF OrphanArrives, actorVars, MailKept
<1> QED BY <1>1, <1>2, <1>3, <1>4, <1>5 DEF SyncStep, SyncStimulus

\* The Manager.
LEMMA ManagerAside ==
  ASSUME UNCHANGED permissionVars, ManagerStep \/ ManagerStimulus
  PROVE  Aside
<1> USE DEF Aside, Shrinks, NextEffect, Effect1, Executed
<1>1. CASE CompleteReply \/ \E c \in Calls : ConfigTimesOut(c)
  BY <1>1 DEF CompleteReply, ConfigTimesOut, MailKept
<1>2. CASE StartReadsState
  BY <1>2 DEF StartReadsState, MailKept
<1>3. ASSUME NEW c \in Calls, AwaitConfigPersisted(c)
      PROVE  Aside
  <2>1. MailKept
    BY <1>3, Posted DEF AwaitConfigPersisted
  <2> QED BY <1>3, <2>1 DEF AwaitConfigPersisted
<1>4. ASSUME NEW doc \in snapshot, StartPersistsState(doc)
      PROVE  Aside
  <2>1. MailKept
    BY <1>4, Posted DEF StartPersistsState
  <2> QED BY <1>4, <2>1 DEF StartPersistsState
<1>5. CASE SendUserMessage \/ AbortRemote \/ InboundUserMessage
  <2>1. MailKept
    BY <1>5, Posted DEF SendUserMessage, AbortRemote, InboundUserMessage, begin
  <2> QED BY <1>5, <2>1 DEF SendUserMessage, AbortRemote, InboundUserMessage, begin
<1>6. ASSUME NEW target \in Modes, SwitchMode(target)
      PROVE  Aside
  <2>1. MailKept
    BY <1>6, Posted DEF SwitchMode, begin
  <2> QED BY <1>6, <2>1 DEF SwitchMode, begin
<1>7. ASSUME NEW req \in ConfigRequests, SetAgentConfig(req)
      PROVE  Aside
  <2>1. MailKept
    BY <1>7, Posted DEF SetAgentConfig, begin
  <2> QED BY <1>7, <2>1 DEF SetAgentConfig, begin
<1> QED BY <1>1, <1>2, <1>3, <1>4, <1>5, <1>6, <1>7 DEF ManagerStep, ManagerStimulus

\* What the callers of AwaitPermission do.
LEMMA CallerKept ==
  ASSUME ActorTypeOK, PermissionTypeOK, PermissionInv, NEW a \in Awaits,
         \/ AwaitAcknowledged(a) \/ AwaitDecided(a) \/ AwaitRetries(a) \/ AwaitCancelled(a)
         \/ \E k : AwaitPermission(a, k)
  PROVE  PermissionInv' /\ Given
<1>1. /\ st' = st /\ effects' = effects /\ decisions' = decisions /\ answered' = answered
      /\ MailKept
  <2>1. CASE AwaitAcknowledged(a) \/ AwaitDecided(a) \/ AwaitCancelled(a)
    BY <2>1 DEF AwaitAcknowledged, AwaitDecided, AwaitCancelled, MailKept, actorVars
  <2>2. CASE AwaitRetries(a) \/ \E k : AwaitPermission(a, k)
    <3>1. MailKept
      BY <2>2, Posted DEF AwaitRetries, AwaitPermission
    <3> QED BY <2>2, <3>1 DEF AwaitRetries, AwaitPermission, permissionVars
  <2> QED BY <2>1, <2>2
<1>2. \A r : Attended(r) => Attended(r)'
  BY <1>1, Zenon DEF Attended, attended
<1>3. FromPhone'
  BY <1>1, FromPhoneKept DEF PermissionInv
<1>4. ASSUME NEW b \in Awaits, Acknowledged(b)'
      PROVE  Acknowledged(b)
  <2>1. awaits'[b] = "waiting" => awaits[b] = "waiting" \/ acks[b]
    BY DEF AwaitAcknowledged, AwaitDecided, AwaitRetries, AwaitCancelled, AwaitPermission,
           PermissionTypeOK, permissionVars, Verdicts
  <2>2. acks'[b] => acks[b]
    BY DEF AwaitAcknowledged, AwaitDecided, AwaitRetries, AwaitCancelled, AwaitPermission,
           PermissionTypeOK, permissionVars
  <2> QED BY <1>1, <1>4, <2>1, <2>2, Zenon DEF Acknowledged
<1> QED BY <1>1, <1>2, <1>3, <1>4, OutsideKept DEF Shrinks

\* What the runtime does with the three effects.
LEMMA AnswerKept ==
  ASSUME ActorTypeOK, PermissionTypeOK, PermissionInv,
         SignalAck \/ CompletePermissionDecision \/ EmitPermissionRequest
  PROVE  PermissionInv' /\ Given
<1>1. /\ st' = st /\ inbox' = inbox /\ awaits' = awaits /\ answered' = answered
      /\ effects # <<>> /\ effects' = Tail(effects) /\ Effect1 = Head(effects)
  BY DEF SignalAck, CompletePermissionDecision, EmitPermissionRequest, NextEffect, Executed,
         Effect1
<1>2. Effect1 \in Effect /\ Effect1 \in ToSet(effects)
      /\ ToSet(effects') \subseteq ToSet(effects)
  BY <1>1, HeadOfEffects, HeadAndTail DEF ActorTypeOK
<1>3. Shrinks /\ FromPhone'
  BY <1>1 DEF Shrinks, PermissionInv, FromPhone
<1>4. CASE EmitPermissionRequest
  <2>1. Effect1.type = "EmitPermissionRequest" /\ decisions' = decisions /\ acks' = acks
    BY <1>4 DEF EmitPermissionRequest, NextEffect
  <2>2. \A r : Attended(r) => Attended(r)'
    BY <1>1, <1>3, <2>1, AttendedKept
  <2>3. \A b \in Awaits : Acknowledged(b)' => Acknowledged(b)
    BY <1>1, <1>2, <2>1, Zenon DEF Acknowledged
  <2> QED BY <1>1, <1>3, <2>2, <2>3, OutsideKept
<1>5. CASE SignalAck
  <2>1. Effect1.type = "SignalAck" /\ decisions' = decisions
        /\ acks' = [acks EXCEPT ![Effect1.await] = TRUE]
    BY <1>5 DEF SignalAck, NextEffect
  <2>2. \A r : Attended(r) => Attended(r)'
    BY <1>1, <1>3, <2>1, AttendedKept
  <2>3. \A b \in Awaits : acks'[b] => acks[b] \/ b = Effect1.await
    BY <2>1 DEF PermissionTypeOK
  <2>4. \A b \in Awaits : Acknowledged(b)' => Acknowledged(b)
    BY <1>1, <1>2, <2>1, <2>3, Zenon DEF Acknowledged
  <2> QED BY <1>1, <1>3, <2>2, <2>4, OutsideKept
<1>6. CASE CompletePermissionDecision
  <2> DEFINE c == Effect1.await
             v == Effect1.verdict
  <2>1. Effect1.type = "CompletePermissionDecision" /\ acks' = acks
        /\ decisions' = [decisions EXCEPT ![c] = IF @ = "none" THEN v ELSE @]
    BY <1>6 DEF CompletePermissionDecision, NextEffect
  <2>2. c \in Awaits /\ v \in Verdicts /\ v # "none"
    BY <1>2, <2>1, EffectFields DEF PermissionInv, Settled
  <2> HIDE DEF c, v
  <2>3. decisions'[c] # "none"
        /\ \A b \in Awaits : decisions[b] # "none" => decisions'[b] # "none"
    BY <2>1, <2>2 DEF PermissionTypeOK
  <2>4. \A r : Attended(r) => Attended(r)'
    BY <1>1, <1>3, <2>3, AttendedKept DEF c
  <2>5. \A b \in Awaits : Acknowledged(b)' => Acknowledged(b)
    BY <1>1, <1>2, <2>1, Zenon DEF Acknowledged
  <2> QED BY <1>1, <1>3, <2>4, <2>5, OutsideKept
<1> QED BY <1>4, <1>5, <1>6

\* The phone.
LEMMA PhoneKept ==
  ASSUME ActorTypeOK, PermissionInv, NEW q, NEW v, NEW known, PhoneDecides(q, v, known)
  PROVE  PermissionInv' /\ Given
<1> DEFINE in == [type |-> "cmdPermissionDecision", request |-> q, verdict |-> v]
<1>1. /\ st' = st /\ effects' = effects /\ awaits' = awaits /\ acks' = acks
      /\ decisions' = decisions /\ answered' = answered \cup {<<q, v>>}
      /\ inbox' = Append(inbox, in)
  BY DEF PhoneDecides, Post
<1>2. in.request = q /\ in.verdict = v
  OBVIOUS
<1> HIDE DEF in
<1>3. FromPhone'
  <2>1. ToSet(inbox') = ToSet(inbox) \cup {in}
    BY <1>1, Appended DEF ActorTypeOK
  <2> QED BY <1>1, <1>2, <2>1 DEF FromPhone, PermissionInv
<1>4. \A r : Attended(r) => Attended(r)'
  BY <1>1, Zenon DEF Attended, attended
<1>5. \A b \in Awaits : Acknowledged(b)' => Acknowledged(b)
  BY <1>1, Zenon DEF Acknowledged
<1> QED BY <1>1, <1>3, <1>4, <1>5, OutsideKept DEF Shrinks

----------------------------------------------------------------------------
(* The theorems.                                                           *)

LEMMA PermissionInvInit == Init => PermissionInv
<1> SUFFICES ASSUME Init PROVE PermissionInv
  OBVIOUS
<1>1. st.PendingPermissionPromises = [r \in Requests |-> None] /\ effects = <<>> /\ inbox = <<>>
  BY DEF Init, ActorInit, InitialState
<1>2. awaits = [a \in Awaits |-> "idle"] /\ acks = [a \in Awaits |-> FALSE]
  BY DEF Init, PermissionInit
<1>3. ToSet(effects) = {} /\ ToSet(inbox) = {}
  BY <1>1, FewMembers
<1> QED BY <1>1, <1>2, <1>3
        DEF PermissionInv, Promised, honest, Settled, NobodyForgotten, Acknowledged, FromPhone

LEMMA PermissionInvNext ==
  ASSUME IInv, PermissionInv, [Next]_vars
  PROVE  PermissionInv' /\ Given
<1>1. ActorTypeOK /\ PermissionTypeOK
  BY DEF IInv, TypeOK
<1>2. CASE Aside
  BY <1>1, <1>2, AsideKept
<1>3. CASE LoopStep
  BY <1>1, <1>3, ReducePermissions DEF LoopStep
<1>4. CASE RuntimeStep \/ (EngineStimulus /\ engineOnly)
  <2>1. UNCHANGED permissionVars
    BY <1>4 DEF RuntimeStep, engineOnly
  <2> QED BY <1>2, <1>4, <2>1, RuntimeAside DEF RuntimeStep
<1>5. CASE (SyncStep \/ SyncStimulus) /\ syncOnly
  <2>1. UNCHANGED permissionVars
    BY <1>5 DEF syncOnly
  <2> QED BY <1>2, <1>5, <2>1, SyncAside
<1>6. CASE PermissionStep
  BY <1>1, <1>6, CallerKept, AnswerKept DEF PermissionStep
<1>7. CASE PermissionStimulus
  BY <1>1, <1>7, CallerKept DEF PermissionStimulus
<1>8. CASE \E r \in Requests, v \in {"allow", "deny"} : \E known : PhoneDecides(r, v, known)
  BY <1>1, <1>8, PhoneKept
<1>9. CASE (ManagerStep \/ ManagerStimulus) /\ managerOnly
  <2>1. UNCHANGED permissionVars
    BY <1>9 DEF managerOnly
  <2> QED BY <1>2, <1>9, <2>1, ManagerAside
<1>10. CASE SendResumes
  BY <1>2, <1>10 DEF SendResumes, actorVars, Aside, Shrinks, MailKept
<1>11. CASE \E a \in Awaits : EngineAsks(a) \/ SendAsks(a)
  BY <1>1, <1>11, CallerKept DEF EngineAsks, SendAsks
<1>12. CASE UNCHANGED vars
  BY <1>2, <1>12 DEF vars, actorVars, Aside, Shrinks, MailKept
<1> QED BY <1>3, <1>4, <1>5, <1>6, <1>7, <1>8, <1>9, <1>10, <1>11, <1>12
        DEF Next, Internal, Stimulus

\* What the invariant is for.
LEMMA PermissionInvSuffices ==
  ASSUME ActorTypeOK, PermissionInv
  PROVE  NoHungPermission
<1> SUFFICES ASSUME NEW a \in Awaits, awaits[a] = "waiting", decisions[a] = "none"
             PROVE  \/ /\ RequestOf[a] \in st.AgentState.requests
                       /\ st.PendingPermissionPromises[RequestOf[a]] = a
                    \/ decisionsFor(a) # {}
                    \/ \E b \in Awaits \ {a} :
                         /\ RequestOf[b] = RequestOf[a]
                         /\ \/ st.PendingPermissionPromises[RequestOf[a]] = b
                            \/ decisionsFor(b) # {}
                            \/ decisions[b] # "none"
  BY DEF NoHungPermission
<1> DEFINE r == RequestOf[a]
           p == st.PendingPermissionPromises
<1>1. PICK b \in Awaits :
        /\ RequestOf[b] = r
        /\ \/ p[r] = b
           \/ \E x \in ToSet(effects) : x.type = "CompletePermissionDecision" /\ x.await = b
           \/ decisions[b] # "none"
  BY DEF PermissionInv, NobodyForgotten, Acknowledged, Attended, attended
<1>2. (\E x \in ToSet(effects) : x.type = "CompletePermissionDecision" /\ x.await = b)
        => decisionsFor(b) # {}
  BY DEF ToSet, decisionsFor
<1>3. p[r] = a => r \in st.AgentState.requests
  BY ConstantsOK DEF PermissionInv, Promised, honest
<1>4. CASE b = a
  BY <1>1, <1>2, <1>3, <1>4
<1>5. CASE b # a
  BY <1>1, <1>2, <1>5
<1> QED BY <1>4, <1>5

\* An engine blocked in AwaitPermission can still be answered: in every
\* interleaving of retries, late acknowledgements, decisions for the same
\* request id and mode changes, the phone sees its request and holds its
\* promise, or an answer is queued or given, to it or to a later call that took
\* the request over.
THEOREM DecisionReachable == Spec => []NoHungPermission
<1>1. IInv /\ PermissionInv /\ [Next]_vars => IInv' /\ PermissionInv'
  BY NextType, PermissionInvNext
<1>2. IInv /\ PermissionInv => NoHungPermission
  BY PermissionInvSuffices DEF IInv, TypeOK
<1> QED BY <1>1, <1>2, InitType, PermissionInvInit, PTL DEF Spec

\* A tool is allowed or denied only because somebody said so: no step of the
\* reducer hands an engine a verdict that the phone has not given for this very
\* request, unless the permission mode of the moment prescribes it.
THEOREM VerdictGiven == Spec => NoInventedVerdict
<1>1. IInv /\ PermissionInv /\ [Next]_vars => IInv' /\ PermissionInv' /\ Given
  BY NextType, PermissionInvNext
<1>2. Given <=>
        (\A i \in DOMAIN effects' \ DOMAIN effects :
           effects'[i].type = "CompletePermissionDecision" =>
             \/ <<RequestOf[effects'[i].await], effects'[i].verdict>> \in answered
             \/ effects'[i].verdict = autoVerdict(st))
  BY DEF Given
<1> QED BY <1>1, <1>2, InitType, PermissionInvInit, PTL DEF Spec, NoInventedVerdict

----------------------------------------------------------------------------
(* The calls of the Manager: where a reply channel is.                     *)

\* In state s, among the effects e, or as the reply x of an input.
heldAt(c, s, e, x, k, i) ==
  \/ k = "input" /\ i = 0 /\ x = c
  \/ k = "effect" /\ i \in DOMAIN e /\ e[i].type = "CompleteReply" /\ e[i].call = c
  \/ k = "waiter" /\ i \in DOMAIN s.PersistWaiters /\ s.PersistWaiters[i] = c
  \/ k = "switch" /\ i = 0 /\ s.PendingSwitchReply = c

Present(c, s, e, x) == \E k, i : heldAt(c, s, e, x, k, i)
Alone(c, s, e, x) ==
  \A k, l, i, j : heldAt(c, s, e, x, k, i) /\ heldAt(c, s, e, x, l, j) => k = l /\ i = j

Held(c, k, i) ==
  \/ k = "mail" /\ i \in DOMAIN inbox /\ "reply" \in DOMAIN inbox[i] /\ inbox[i].reply = c
  \/ heldAt(c, st, effects, None, k, i)

Once(c) == \A k, l, i, j : Held(c, k, i) /\ Held(c, l, j) => k = l /\ i = j
Somewhere(c) == \E k, i : Held(c, k, i)

CallsInv ==
  \A c \in Calls : Once(c) /\ (calls[c].phase \in {"idle", "accepted", "ok"} => ~Somewhere(c))

\* What a handler has to show: of the reply channel of a call it makes no
\* second one, and none where there was none.
Passes(s, r, x) ==
  \A c \in Calls :
    /\ Present(c, r.st, r.eff, None) => Present(c, s, <<>>, x)
    /\ Alone(c, s, <<>>, x) => Alone(c, r.st, r.eff, None)

SameHolders(s, n) ==
  n.PersistWaiters = s.PersistWaiters /\ n.PendingSwitchReply = s.PendingSwitchReply

\* At most one effect replies, to x.
Tells(e, x) ==
  \A i \in DOMAIN e : e[i].type = "CompleteReply" =>
    /\ e[i].call = x
    /\ \A j \in DOMAIN e : e[j].type = "CompleteReply" => j = i

\* A handler that answers its input, or nobody.
LEMMA AnswersInput ==
  ASSUME NEW s, NEW n, SameHolders(s, n), NEW x, NEW e, Tells(e, x)
  PROVE  Passes(s, Ret(n, e), x)
<1>1. ASSUME NEW c \in Calls, NEW k, NEW i, heldAt(c, n, e, None, k, i)
      PROVE  \/ k = "effect" /\ i \in DOMAIN e /\ e[i].type = "CompleteReply" /\ x = c
                /\ heldAt(c, s, <<>>, x, "input", 0)
             \/ k # "effect" /\ heldAt(c, s, <<>>, x, k, i) /\ k # "input"
  BY <1>1, ConstantsOK DEF heldAt, SameHolders, Tells
<1>2. ASSUME NEW c \in Calls, Alone(c, s, <<>>, x)
      PROVE  Alone(c, n, e, None)
  <2> SUFFICES ASSUME NEW k, NEW l, NEW i, NEW j,
                      heldAt(c, n, e, None, k, i), heldAt(c, n, e, None, l, j)
               PROVE  k = l /\ i = j
    BY Zenon DEF Alone
  <2>0. \A k1, l1, i1, j1 : heldAt(c, s, <<>>, x, k1, i1) /\ heldAt(c, s, <<>>, x, l1, j1)
                             => k1 = l1 /\ i1 = j1
    BY <1>2, Zenon DEF Alone
  <2>1. CASE k = "effect" /\ l = "effect"
    BY <1>1, <2>0, <2>1 DEF Tells
  <2>2. CASE k # "effect" /\ l # "effect"
    BY <1>1, <2>0, <2>2
  <2>3. CASE (k = "effect" /\ l # "effect") \/ (k # "effect" /\ l = "effect")
    BY <1>1, <2>0, <2>3
  <2> QED BY <2>1, <2>2, <2>3
<1>3. Ret(n, e).st = n /\ Ret(n, e).eff = e
  BY DEF Ret
<1>4. ASSUME NEW c \in Calls, NEW k, NEW i, heldAt(c, n, e, None, k, i)
      PROVE  \E l, j : heldAt(c, s, <<>>, x, l, j)
  BY <1>1, <1>4, Zenon
<1> QED BY <1>2, <1>3, <1>4, Zenon DEF Passes, Present

\* A switch that begins keeps the reply channel of its input, and drops the
\* one of a switch it replaces.
LEMMA SwitchTaken ==
  ASSUME NEW s, NEW n, NEW x, NEW e, Tells(e, None),
         n.PersistWaiters = s.PersistWaiters, n.PendingSwitchReply = x
  PROVE  Passes(s, Ret(n, e), x)
<1>1. ASSUME NEW c \in Calls, NEW k, NEW i, heldAt(c, n, e, None, k, i)
      PROVE  \/ k = "switch" /\ i = 0 /\ heldAt(c, s, <<>>, x, "input", 0)
             \/ k = "waiter" /\ heldAt(c, s, <<>>, x, k, i)
  BY <1>1, ConstantsOK DEF heldAt, Tells
<1>2. ASSUME NEW c \in Calls, Alone(c, s, <<>>, x)
      PROVE  Alone(c, n, e, None)
  <2> SUFFICES ASSUME NEW k, NEW l, NEW i, NEW j,
                      heldAt(c, n, e, None, k, i), heldAt(c, n, e, None, l, j)
               PROVE  k = l /\ i = j
    BY Zenon DEF Alone
  <2>0. \A k1, l1, i1, j1 : heldAt(c, s, <<>>, x, k1, i1) /\ heldAt(c, s, <<>>, x, l1, j1)
                             => k1 = l1 /\ i1 = j1
    BY <1>2, Zenon DEF Alone
  <2>1. CASE k = "switch" /\ l = "switch"
    BY <1>1, <2>0, <2>1
  <2>2. CASE k = "waiter" /\ l = "waiter"
    BY <1>1, <2>0, <2>2
  <2>3. CASE k # l
    BY <1>1, <2>0, <2>3
  <2> QED BY <1>1, <2>1, <2>2, <2>3
<1>3. Ret(n, e).st = n /\ Ret(n, e).eff = e
  BY DEF Ret
<1>4. ASSUME NEW c \in Calls, NEW k, NEW i, heldAt(c, n, e, None, k, i)
      PROVE  \E l, j : heldAt(c, s, <<>>, x, l, j)
  BY <1>1, <1>4, Zenon
<1> QED BY <1>2, <1>3, <1>4, Zenon DEF Passes, Present

\* A switch that ends is answered.
LEMMA SwitchEnds ==
  ASSUME NEW s, NEW n, NEW e, Tells(e, s.PendingSwitchReply),
         n.PersistWaiters = s.PersistWaiters, n.PendingSwitchReply = None
  PROVE  Passes(s, Ret(n, e), None)
<1>1. ASSUME NEW c \in Calls, NEW k, NEW i, heldAt(c, n, e, None, k, i)
      PROVE  \/ k = "effect" /\ i \in DOMAIN e /\ e[i].type = "CompleteReply"
                /\ heldAt(c, s, <<>>, None, "switch", 0)
             \/ k = "waiter" /\ heldAt(c, s, <<>>, None, k, i)
  BY <1>1, ConstantsOK DEF heldAt, Tells
<1>2. ASSUME NEW c \in Calls, Alone(c, s, <<>>, None)
      PROVE  Alone(c, n, e, None)
  <2> SUFFICES ASSUME NEW k, NEW l, NEW i, NEW j,
                      heldAt(c, n, e, None, k, i), heldAt(c, n, e, None, l, j)
               PROVE  k = l /\ i = j
    BY Zenon DEF Alone
  <2>0. \A k1, l1, i1, j1 : heldAt(c, s, <<>>, None, k1, i1) /\ heldAt(c, s, <<>>, None, l1, j1)
                             => k1 = l1 /\ i1 = j1
    BY <1>2, Zenon DEF Alone
  <2>1. CASE k = "effect" /\ l = "effect"
    BY <1>1, <2>0, <2>1 DEF Tells
  <2>2. CASE k = "waiter" /\ l = "waiter"
    BY <1>1, <2>0, <2>2
  <2>3. CASE k # l
    BY <1>1, <2>0, <2>3
  <2> QED BY <1>1, <2>1, <2>2, <2>3
<1>3. Ret(n, e).st = n /\ Ret(n, e).eff = e
  BY DEF Ret
<1>4. ASSUME NEW c \in Calls, NEW k, NEW i, heldAt(c, n, e, None, k, i)
      PROVE  \E l, j : heldAt(c, s, <<>>, None, l, j)
  BY <1>1, <1>4, Zenon
<1> QED BY <1>2, <1>3, <1>4, Zenon DEF Passes, Present

\* Someone waits for the persistence.
LEMMA WaiterAdded ==
  ASSUME NEW s, NEW n, NEW x, NEW e, Tells(e, None), s.PersistWaiters \in Seq(Calls),
         n.PersistWaiters = Append(s.PersistWaiters, x),
         n.PendingSwitchReply = s.PendingSwitchReply
  PROVE  Passes(s, Ret(n, e), x)
<1> DEFINE last == Len(s.PersistWaiters) + 1
<1>0. /\ \A i \in DOMAIN n.PersistWaiters : i # last => i \in DOMAIN s.PersistWaiters
      /\ \A i \in DOMAIN s.PersistWaiters : n.PersistWaiters[i] = s.PersistWaiters[i]
      /\ n.PersistWaiters[last] = x
  OBVIOUS
<1> HIDE DEF last
<1>1. ASSUME NEW c \in Calls, NEW k, NEW i, heldAt(c, n, e, None, k, i)
      PROVE  \/ k = "waiter" /\ i = last /\ heldAt(c, s, <<>>, x, "input", 0)
             \/ k = "waiter" /\ i # last /\ heldAt(c, s, <<>>, x, k, i)
             \/ k = "switch" /\ heldAt(c, s, <<>>, x, k, i)
  <2>1. CASE k = "waiter" /\ i \in DOMAIN n.PersistWaiters /\ n.PersistWaiters[i] = c
    BY <1>0, <2>1 DEF heldAt
  <2>2. CASE k = "switch"
    BY <1>1, <2>2 DEF heldAt
  <2> QED BY <1>1, <2>1, <2>2, ConstantsOK DEF heldAt, Tells
<1>2. ASSUME NEW c \in Calls, Alone(c, s, <<>>, x)
      PROVE  Alone(c, n, e, None)
  <2> SUFFICES ASSUME NEW k, NEW l, NEW i, NEW j,
                      heldAt(c, n, e, None, k, i), heldAt(c, n, e, None, l, j)
               PROVE  k = l /\ i = j
    BY Zenon DEF Alone
  <2>0. \A k1, l1, i1, j1 : heldAt(c, s, <<>>, x, k1, i1) /\ heldAt(c, s, <<>>, x, l1, j1)
                             => k1 = l1 /\ i1 = j1
    BY <1>2, Zenon DEF Alone
  <2>1. CASE k = "waiter" /\ l = "waiter" /\ i = last /\ j = last
    BY <2>1
  <2>2. CASE k = "waiter" /\ i = last /\ (l # "waiter" \/ j # last)
    BY <1>1, <2>0, <2>2
  <2>3. CASE l = "waiter" /\ j = last /\ (k # "waiter" \/ i # last)
    BY <1>1, <2>0, <2>3
  <2>4. CASE (k # "waiter" \/ i # last) /\ (l # "waiter" \/ j # last)
    BY <1>1, <2>0, <2>4
  <2> QED BY <2>1, <2>2, <2>3, <2>4
<1>3. Ret(n, e).st = n /\ Ret(n, e).eff = e
  BY DEF Ret
<1>4. ASSUME NEW c \in Calls, NEW k, NEW i, heldAt(c, n, e, None, k, i)
      PROVE  \E l, j : heldAt(c, s, <<>>, x, l, j)
  BY <1>1, <1>4, Zenon
<1> QED BY <1>2, <1>3, <1>4, Zenon DEF Passes, Present

\* The effects reply to the waiters ws, in their order.
TellsAll(e, ws) ==
  \A i \in DOMAIN e :
    e[i].type = "CompleteReply" => i \in DOMAIN ws /\ e[i].call = ws[i]

\* All who wait are answered.
LEMMA WaitersAnswered ==
  ASSUME NEW s, NEW n, NEW e, TellsAll(e, s.PersistWaiters),
         n.PersistWaiters = <<>>, n.PendingSwitchReply = s.PendingSwitchReply
  PROVE  Passes(s, Ret(n, e), None)
<1>1. ASSUME NEW c \in Calls, NEW k, NEW i, heldAt(c, n, e, None, k, i)
      PROVE  \/ k = "effect" /\ heldAt(c, s, <<>>, None, "waiter", i)
             \/ k = "switch" /\ heldAt(c, s, <<>>, None, k, i)
  BY <1>1, ConstantsOK DEF heldAt, TellsAll
<1>2. ASSUME NEW c \in Calls, Alone(c, s, <<>>, None)
      PROVE  Alone(c, n, e, None)
  <2> SUFFICES ASSUME NEW k, NEW l, NEW i, NEW j,
                      heldAt(c, n, e, None, k, i), heldAt(c, n, e, None, l, j)
               PROVE  k = l /\ i = j
    BY Zenon DEF Alone
  <2>0. \A k1, l1, i1, j1 : heldAt(c, s, <<>>, None, k1, i1) /\ heldAt(c, s, <<>>, None, l1, j1)
                             => k1 = l1 /\ i1 = j1
    BY <1>2, Zenon DEF Alone
  <2>1. CASE k = l
    BY <1>1, <2>0, <2>1
  <2>2. CASE k # l
    BY <1>1, <2>0, <2>2
  <2> QED BY <2>1, <2>2
<1>3. Ret(n, e).st = n /\ Ret(n, e).eff = e
  BY DEF Ret
<1>4. ASSUME NEW c \in Calls, NEW k, NEW i, heldAt(c, n, e, None, k, i)
      PROVE  \E l, j : heldAt(c, s, <<>>, None, l, j)
  BY <1>1, <1>4, Zenon
<1> QED BY <1>2, <1>3, <1>4, Zenon DEF Passes, Present

----------------------------------------------------------------------------
(* Handlers that answer nobody.                                            *)

Silent == {e \in Effect : e.type # "CompleteReply"}

Mute(s, r) == SameHolders(s, r.st) /\ r.eff \in Seq(Silent)

\* All constructors but one make effects that answer no call.
LEMMA SilentTypes ==
  /\ \A g \in Nat : /\ effStopLocalRunner(g) \in Silent
                    /\ effStopRemoteRunner(g) \in Silent
                    /\ effRemoteAbort(g) \in Silent
  /\ \A m \in Modes, g \in Nat, cfg \in AgentConfig : effStartRunner(m, g, cfg) \in Silent
  /\ \A g \in Nat, m \in Messages : /\ effLocalSendLine(g, m) \in Silent
                                    /\ effRemoteSend(g, m) \in Silent
  /\ \A g \in Nat, cfg \in AgentConfig : effApplyEngineConfig(g, cfg) \in Silent
  /\ \A n \in State : persistEffect(n) \in Silent
  /\ effStartTimer \in Silent /\ effCancelTimer \in Silent
  /\ \A on \in BOOLEAN : effTakebackWatcher(on) \in Silent
  /\ \A a \in Awaits, v \in Verdicts : effCompletePermissionDecision(a, v) \in Silent
  /\ \A a \in Awaits : effSignalAck(a) \in Silent
  /\ \A r \in Requests : effEmitPermissionRequest(r) \in Silent
<1>1. \A n \in State : persistEffect(n) \in Silent
  <2> TAKE n \in State
  <2>1. persistEffect(n) \in Effect
    BY PublishingType, Zenon
  <2> QED BY <2>1 DEF Silent, persistEffect, effPersistAgentState
<1> QED BY <1>1, EffectTypes DEF Silent, Quiet, effStopLocalRunner,
       effStopRemoteRunner, effRemoteAbort, effStartRunner, effLocalSendLine, effRemoteSend,
       effApplyEngineConfig, effTakebackWatcher, effStartTimer, effCancelTimer,
       effEmitPermissionRequest, effCompletePermissionDecision, effSignalAck

\* The buffered messages are no answers,
LEMMA SendsSilent ==
  ASSUME NEW s \in State
  PROVE  remoteSends(s) \in Seq(Silent) /\ localSendLines(s) \in Seq(Silent)
<1>1. Len(s.PendingRemoteSends) \in Nat
      /\ \A i \in 1..Len(s.PendingRemoteSends) : s.PendingRemoteSends[i] \in Messages
  BY StateFields
<1>2. \A i \in 1..Len(s.PendingRemoteSends) :
         /\ effRemoteSend(s.RunnerGen, s.PendingRemoteSends[i]) \in Silent
         /\ effLocalSendLine(s.RunnerGen, s.PendingRemoteSends[i]) \in Silent
  BY <1>1, StateFields, SilentTypes
<1> QED BY <1>1, <1>2 DEF remoteSends, localSendLines

\* and neither is what restarts a runner.
LEMMA RestartSilent ==
  ASSUME NEW n \in State, n.RunnerGen - 1 \in Nat
  PROVE  restartEffects(n) \in Seq(Silent)
<1>1. n.RunnerGen \in Nat /\ n.Mode \in Modes /\ n.AgentState.config \in AgentConfig
  BY StateFields, AgentStateFields
<1> QED BY <1>1, SilentTypes, SeqType, Zenon DEF restartEffects

\* Ret pairs a state with its effects.
LEMMA RetMute ==
  ASSUME NEW s, NEW n, SameHolders(s, n), NEW eff \in Seq(Silent)
  PROVE  Mute(s, Ret(n, eff))
BY Zenon DEF Mute, Ret

\* Publishing a document moves no reply channel.
LEMMA RevisionHolders ==
  ASSUME NEW s, NEW n \in State, SameHolders(s, n), NEW doc \in AgentState
  PROVE  /\ setAgentStateJSON(n, doc) \in State /\ SameHolders(s, setAgentStateJSON(n, doc))
         /\ refreshAgentStateJSON(n) \in State /\ SameHolders(s, refreshAgentStateJSON(n))
<1>1. setAgentStateJSON(n, doc) \in State /\ refreshAgentStateJSON(n) \in State
  BY RevisionType, Zenon DEF Keeps
<1>2. \A json : /\ [n EXCEPT !.AgentStateJSON = json].PersistWaiters = n.PersistWaiters
                /\ [n EXCEPT !.AgentStateJSON = json].PendingSwitchReply = n.PendingSwitchReply
  BY Zenon DEF State
<1> QED BY <1>1, <1>2, Zenon DEF SameHolders, setAgentStateJSON, refreshAgentStateJSON

\* Neither do the two ways to persist it.
LEMMA PersistHolders ==
  ASSUME NEW s, NEW n \in State, SameHolders(s, n)
  PROVE  /\ Mute(s, persistAgentStateImmediately(n))
         /\ Mute(s, schedulePersistDebounced(n))
<1> DEFINE now == [n EXCEPT !.PersistRetryRemaining = 1, !.PersistDebounceTimerArmed = FALSE,
                            !.PersistInFlight = TRUE]
           later == [n EXCEPT !.PersistRetryRemaining = 1, !.PersistDebounceTimerArmed = TRUE,
                              !.PersistInFlight = FALSE]
<1>1. SameHolders(n, now) /\ SameHolders(n, later)
  BY Zenon DEF State, SameHolders
<1> HIDE DEF now, later
<1>2. SameHolders(s, now) /\ SameHolders(s, later)
  BY <1>1, Zenon DEF SameHolders
<1>3. /\ <<effCancelTimer, persistEffect(n)>> \in Seq(Silent)
      /\ <<effCancelTimer, effStartTimer>> \in Seq(Silent)
  BY SilentTypes, SeqType, Zenon
<1> QED BY <1>2, <1>3, RetMute, Zenon
        DEF persistAgentStateImmediately, schedulePersistDebounced, now, later

\* Nor do both together.
LEMMA PublishHolders ==
  ASSUME NEW s, NEW n \in State, SameHolders(s, n)
  PROVE  /\ Mute(s, persistAgentStateImmediately(refreshAgentStateJSON(n)))
         /\ Mute(s, schedulePersistDebounced(refreshAgentStateJSON(n)))
         /\ \A doc \in AgentState :
              Mute(s, persistAgentStateImmediately(setAgentStateJSON(n, doc)))
<1>1. n.AgentState \in AgentState
  BY StateFields
<1> QED BY <1>1, RevisionHolders, PersistHolders, Zenon

\* More effects of that kind make no difference.
LEMMA MuteWith ==
  ASSUME NEW s, NEW r, Mute(s, r), NEW p \in Seq(Silent), NEW q \in Seq(Silent)
  PROVE  /\ Mute(s, Ret(r.st, p \o r.eff))
         /\ Mute(s, Ret(r.st, p \o r.eff \o q))
         /\ Mute(s, Ret(r.st, r.eff \o p \o q))
BY SeqType, RetMute, Zenon DEF Mute

\* They tell nobody anything.
LEMMA TellsNobody ==
  ASSUME NEW x, NEW e \in Seq(Silent)
  PROVE  Tells(e, x)
BY DEF Tells, Silent

\* The places in a queue that has y in the middle.
LEMMA Between ==
  ASSUME NEW T, NEW p \in Seq(T), NEW q \in Seq(T), NEW y \in T
  PROVE  /\ Len(p) + 1 \in DOMAIN (p \o <<y>> \o q)
         /\ (p \o <<y>> \o q)[Len(p) + 1] = y
         /\ \A i \in DOMAIN (p \o <<y>> \o q) :
              \/ i = Len(p) + 1
              \/ i \in DOMAIN p /\ (p \o <<y>> \o q)[i] = p[i]
              \/ i - (Len(p) + 1) \in DOMAIN q
                 /\ (p \o <<y>> \o q)[i] = q[i - (Len(p) + 1)]
<1> DEFINE a == p \o <<y>>
           e == a \o q
<1>1. /\ a \in Seq(T) /\ Len(a) = Len(p) + 1 /\ a[Len(p) + 1] = y
      /\ \A i \in DOMAIN p : a[i] = p[i]
      /\ \A i \in DOMAIN a : i = Len(p) + 1 \/ i \in DOMAIN p
  OBVIOUS
<1> HIDE DEF a
<1>2. /\ \A i \in DOMAIN e : i \in DOMAIN a \/ i - Len(a) \in DOMAIN q
      /\ \A i \in DOMAIN a : i \in DOMAIN e /\ e[i] = a[i]
      /\ \A i \in DOMAIN e : i - Len(a) \in DOMAIN q => e[i] = q[i - Len(a)]
  BY <1>1
<1>3. Len(p) + 1 \in DOMAIN a
  BY <1>1
<1> HIDE DEF e
<1>4. /\ Len(p) + 1 \in DOMAIN e /\ e[Len(p) + 1] = y
      /\ \A i \in DOMAIN e : \/ i = Len(p) + 1
                             \/ i \in DOMAIN p /\ e[i] = p[i]
                             \/ i - (Len(p) + 1) \in DOMAIN q
                                /\ e[i] = q[i - (Len(p) + 1)]
  <2> SUFFICES ASSUME NEW i \in DOMAIN e
               PROVE  \/ i = Len(p) + 1
                      \/ i \in DOMAIN p /\ e[i] = p[i]
                      \/ i - (Len(p) + 1) \in DOMAIN q /\ e[i] = q[i - (Len(p) + 1)]
    BY <1>1, <1>2, <1>3
  <2>1. CASE i \in DOMAIN a
    BY <1>1, <1>2, <2>1, Zenon
  <2>2. CASE i \notin DOMAIN a
    BY <1>1, <1>2, <2>2, Zenon
  <2> QED BY <2>1, <2>2
<1> QED BY <1>4, Zenon DEF e, a

\* The reply among effects that are none.
LEMMA TellsOne ==
  ASSUME NEW x \in Calls \cup {None}, NEW k, NEW p \in Seq(Silent), NEW q \in Seq(Silent)
  PROVE  Tells(p \o replyTo(x, k) \o q, x)
<1>1. \A i \in DOMAIN p : p[i].type # "CompleteReply"
  BY DEF Silent
<1>2. \A i \in DOMAIN q : q[i].type # "CompleteReply"
  BY DEF Silent
<1>3. CASE x = None
  <2>1. replyTo(x, k) \in Seq(Silent)
    BY <1>3, SeqType, Zenon DEF replyTo
  <2>2. p \o replyTo(x, k) \o q \in Seq(Silent)
    BY <2>1, SeqType, Zenon
  <2> QED BY <2>2, TellsNobody, Zenon
<1>4. CASE x # None
  <2> DEFINE y == effCompleteReply(x, k)
             e == p \o <<y>> \o q
             m == Len(p) + 1
  <2>1. y.call = x
    BY DEF effCompleteReply
  <2> HIDE DEF y
  <2>2. /\ \A i \in DOMAIN e : \/ i = m
                               \/ i \in DOMAIN p /\ e[i] = p[i]
                               \/ i - m \in DOMAIN q /\ e[i] = q[i - m]
        /\ e[m] = y
    <3> DEFINE T == Silent \cup {y}
    <3>1. p \in Seq(T) /\ q \in Seq(T) /\ y \in T
      OBVIOUS
    <3> HIDE DEF T
    <3> QED BY <3>1, Between
  <2> HIDE DEF e, m
  <2>3. \A i \in DOMAIN e : e[i].type = "CompleteReply" => i = m
    BY <1>1, <1>2, <2>2
  <2> QED BY <1>4, <2>1, <2>2, <2>3, Zenon DEF Tells, replyTo, e, y
<1> QED BY <1>3, <1>4

\* Handlers that answer nobody pass on what there is.
LEMMA MutePasses ==
  ASSUME NEW s, NEW r, Mute(s, r), NEW x
  PROVE  Passes(s, r, x)
<1>1. Passes(s, Ret(r.st, r.eff), x)
  BY TellsNobody, AnswersInput, Zenon DEF Mute
<1>2. Ret(r.st, r.eff).st = r.st /\ Ret(r.st, r.eff).eff = r.eff
  BY DEF Ret
<1> QED BY <1>1, <1>2, Zenon DEF Passes

\* The same with nothing before it or after it.
LEMMA TellsReply ==
  ASSUME NEW x \in Calls \cup {None}, NEW k \in Results, NEW p \in Seq(Silent),
         NEW q \in Seq(Silent)
  PROVE  /\ Tells(replyTo(x, k), x)
         /\ Tells(p \o replyTo(x, k), x)
         /\ Tells(replyTo(x, k) \o p, x)
         /\ Tells(replyTo(x, k) \o p \o q, x)
         /\ Tells(p \o q \o replyTo(x, k), x)
<1>1. replyTo(x, k) \in Seq(Effect)
  <2>1. \A c \in Calls : effCompleteReply(c, k) \in Effect
    BY EffectTypes, Zenon DEF Quiet
  <2> QED BY <2>1, SeqType, Zenon DEF replyTo
<1> DEFINE r == replyTo(x, k)
<1>2. p \in Seq(Effect) /\ q \in Seq(Effect) /\ <<>> \in Seq(Effect)
  BY DEF Silent
<1>3. <<>> \in Seq(Silent) /\ p \o q \in Seq(Silent)
  BY SeqType, Zenon
<1>4. /\ Tells(<<>> \o r \o <<>>, x) /\ Tells(p \o r \o <<>>, x) /\ Tells(<<>> \o r \o p, x)
      /\ Tells(<<>> \o r \o (p \o q), x) /\ Tells((p \o q) \o r \o <<>>, x)
  BY <1>3, TellsOne, Zenon
<1> HIDE DEF r
<1>5. r \in Seq(Effect)
  BY <1>1 DEF r
<1>6. /\ <<>> \o r \o <<>> = r /\ p \o r \o <<>> = p \o r /\ <<>> \o r \o p = r \o p
      /\ (p \o q) \o r \o <<>> = p \o q \o r
  BY <1>2, <1>5
<1>7. <<>> \o r \o (p \o q) = r \o p \o q
  <2>1. <<>> \o r = r
    BY <1>5
  <2>2. r \o (p \o q) = (r \o p) \o q
    BY <1>2, <1>5
  <2> QED BY <2>1, <2>2
<1> QED BY <1>4, <1>6, <1>7, Zenon DEF r

\* The pair is all that counts.
LEMMA PassesRet ==
  ASSUME NEW s, NEW r, NEW x, Passes(s, Ret(r.st, r.eff), x)
  PROVE  Passes(s, r, x)
<1>1. Ret(r.st, r.eff).st = r.st /\ Ret(r.st, r.eff).eff = r.eff
  BY DEF Ret
<1> QED BY <1>1, Zenon DEF Passes

----------------------------------------------------------------------------
(* What each handler does with the channels.                               *)

\* cmdSwitchMode and the takeback: nothing to do, or the channel is kept.
LEMMA SwitchModeCalls ==
  ASSUME NEW s \in State, NEW target \in Modes, NEW reply \in Calls \cup {None}
  PROVE  \/ reduceSwitchMode(s, target, reply) = Ret(s, replyTo(reply, "ok"))
         \/ \E n \in State, e \in Seq(Silent) :
              /\ reduceSwitchMode(s, target, reply) = Ret(n, e)
              /\ n.PersistWaiters = s.PersistWaiters
              /\ n.PendingSwitchReply = reply
<1> DEFINE n == switchedTo(s, target, reply)
           e == restartEffects(n) \o <<effCancelTimer, persistEffect(n)>>
<1>1. n \in State /\ n.RunnerGen = s.RunnerGen + 1
  BY SwitchedType
<1>2. n.PersistWaiters = s.PersistWaiters /\ n.PendingSwitchReply = reply
  BY Zenon DEF switchedTo, refreshAgentStateJSON, setAgentStateJSON, State
<1> HIDE DEF n
<1>3. e \in Seq(Silent)
  <2>1. n.RunnerGen - 1 \in Nat
    BY <1>1, StateFields
  <2> QED BY <1>1, <2>1, RestartSilent, SilentTypes, SeqType, Zenon
<1> HIDE DEF e
<1>4. \/ reduceSwitchMode(s, target, reply) = Ret(s, replyTo(reply, "ok"))
      \/ reduceSwitchMode(s, target, reply) = Ret(n, e)
  BY Zenon DEF reduceSwitchMode, n, e
<1> QED BY <1>1, <1>2, <1>3, <1>4, Zenon

\* Both pass the channel on.
LEMMA SwitchModePasses ==
  ASSUME NEW s \in State, NEW target \in Modes, NEW reply \in Calls \cup {None}
  PROVE  Passes(s, reduceSwitchMode(s, target, reply), reply)
<1>1. Passes(s, Ret(s, replyTo(reply, "ok")), reply)
  <2>1. Tells(replyTo(reply, "ok"), reply)
    BY TellsReply, SeqType DEF Results
  <2> QED BY <2>1, AnswersInput, Zenon DEF SameHolders
<1>2. ASSUME NEW n \in State, NEW e \in Seq(Silent), n.PersistWaiters = s.PersistWaiters,
             n.PendingSwitchReply = reply
      PROVE  Passes(s, Ret(n, e), reply)
  BY <1>2, TellsNobody, SwitchTaken, Zenon
<1> QED BY <1>1, <1>2, SwitchModeCalls, ZenonT(60)

\* evRunnerReady.
LEMMA RunnerReadyPasses ==
  ASSUME NEW s \in State, NEW in
  PROVE  Passes(s, reduceRunnerReady(s, in), None)
<1> DEFINE handle == [gen |-> in.gen, running |-> TRUE]
           reply == replyTo(s.PendingSwitchReply, "ok")
           l == [s EXCEPT !.FSM = "LocalRunning", !.LocalRunner = handle,
                          !.PendingSwitchReply = None]
           r == [s EXCEPT !.FSM = "RemoteRunning", !.RemoteRunner = handle,
                          !.PendingSwitchReply = None, !.PendingRemoteSends = <<>>]
<1>1. remoteReadyEffects(s) \in Seq(Silent)
  <2>1. s.RunnerGen \in Nat /\ s.AgentState.config \in AgentConfig
    BY StateFields, AgentStateFields
  <2>2. /\ effTakebackWatcher(TRUE) \in Silent
        /\ effApplyEngineConfig(s.RunnerGen, s.AgentState.config) \in Silent
    BY <2>1, SilentTypes, Zenon
  <2> QED BY <2>2, SendsSilent, SeqType, Zenon DEF remoteReadyEffects
<1>2. /\ Tells(reply, s.PendingSwitchReply)
      /\ Tells(reply \o remoteReadyEffects(s), s.PendingSwitchReply)
  <2>1. s.PendingSwitchReply \in Calls \cup {None}
    BY StateFields
  <2> QED BY <1>1, <2>1, TellsReply DEF Results
<1>3. /\ l.PersistWaiters = s.PersistWaiters /\ l.PendingSwitchReply = None
      /\ r.PersistWaiters = s.PersistWaiters /\ r.PendingSwitchReply = None
  BY Zenon DEF State
<1>4. Passes(s, Ret(s, <<>>), None)
  BY RetMute, MutePasses, SeqType, Zenon DEF SameHolders
<1> HIDE DEF reply, l, r
<1>5. /\ Passes(s, Ret(l, reply), None)
      /\ Passes(s, Ret(r, reply \o remoteReadyEffects(s)), None)
  BY <1>2, <1>3, SwitchEnds, Zenon
<1> QED BY <1>4, <1>5, Zenon DEF reduceRunnerReady, reply, l, r


\* evRunnerExited, with the failed start and the fall back to local.
LEMMA RunnerExitedPasses ==
  ASSUME NEW s \in State, NEW in, in.err \in Results
  PROVE  Passes(s, reduceRunnerExited(s, in), None)
<1> DEFINE n == recordExit(s, in)
           failed == backToLocal(n)
           idle == [failed EXCEPT !.Working = FALSE]
           closed == [n EXCEPT !.FSM = "Closed"]
           reply == replyTo(n.PendingSwitchReply, in.err)
<1>1. n \in State /\ SameHolders(s, n)
  <2>1. n \in State
    BY RecordExitType, Zenon
  <2>2. SameHolders(s, n)
    BY Zenon DEF recordExit, State, SameHolders
  <2> QED BY <2>1, <2>2
<1> HIDE DEF n
<1>2. /\ SameHolders(s, closed)
      /\ idle.PersistWaiters = s.PersistWaiters /\ idle.PendingSwitchReply = None
  BY <1>1, Zenon DEF backToLocal, State, SameHolders
<1>3. /\ n.PendingSwitchReply = s.PendingSwitchReply
      /\ n.PendingSwitchReply \in Calls \cup {None}
      /\ localSendLines(n) \in Seq(Silent)
  BY <1>1, StateFields, SendsSilent DEF SameHolders
<1>4. Passes(s, failStart(n, in.err), None)
  <2> DEFINE d == [failed EXCEPT !.PendingRemoteSends = <<>>, !.AgentState.controlledByUser = TRUE]
             p == schedulePersistDebounced(refreshAgentStateJSON(d))
  <2>1. d \in State /\ d.PersistWaiters = s.PersistWaiters /\ d.PendingSwitchReply = None
    <3>1. "LocalRunning" \in FSMState /\ "local" \in Modes /\ <<>> \in Seq(Messages)
      BY DEF FSMState, Running, Modes
    <3>2. /\ failed \in State /\ failed.PersistWaiters = s.PersistWaiters
          /\ failed.PendingSwitchReply = None
      BY <1>1, <3>1, Zenon DEF backToLocal, State, SameHolders
    <3> HIDE DEF failed
    <3>3. [failed.AgentState EXCEPT !.controlledByUser = TRUE] \in AgentState
      BY <3>2, StateFields, Zenon DEF AgentState
    <3> QED BY <3>1, <3>2, <3>3, Zenon DEF State
  <2> HIDE DEF d
  <2>2. Mute(d, p)
    BY <2>1, PublishHolders, Zenon DEF SameHolders
  <2> HIDE DEF p
  <2>3. /\ p.eff \in Seq(Silent)
        /\ p.st.PersistWaiters = s.PersistWaiters /\ p.st.PendingSwitchReply = None
    BY <2>1, <2>2, Zenon DEF Mute, SameHolders
  <2>4. /\ Tells(reply, s.PendingSwitchReply)
        /\ Tells(reply \o localSendLines(n) \o p.eff, s.PendingSwitchReply)
    BY <1>3, <2>3, TellsReply, Zenon
  <2>5. /\ Passes(s, Ret(p.st, reply \o localSendLines(n) \o p.eff), None)
        /\ Passes(s, Ret(idle, reply), None)
    BY <1>2, <2>3, <2>4, SwitchEnds, Zenon
  <2> QED BY <2>5, Zenon DEF failStart, d, p
<1>5. Passes(s, fallBackToLocal(n), None)
  <2> DEFINE gen == n.RunnerGen + 1
             handle == [gen |-> gen, running |-> FALSE]
             d == [n EXCEPT !.RunnerGen = gen, !.Mode = "local", !.FSM = "LocalStarting",
                            !.Working = FALSE, !.LocalRunner = handle,
                            !.AgentState.controlledByUser = TRUE]
             p == schedulePersistDebounced(refreshAgentStateJSON(d))
  <2>1. gen \in Nat /\ gen - 1 \in Nat /\ handle \in runnerHandle
    BY <1>1, StateFields DEF runnerHandle
  <2>2. gen = n.RunnerGen + 1
    OBVIOUS
  <2> HIDE DEF gen, handle
  <2>3. d \in State /\ d.RunnerGen = gen /\ SameHolders(s, d)
    <3>1. "LocalStarting" \in FSMState /\ "local" \in Modes
      BY DEF FSMState, Starting, Modes
    <3>2. [n.AgentState EXCEPT !.controlledByUser = TRUE] \in AgentState
      BY <1>1, StateFields, Zenon DEF AgentState
    <3> QED BY <1>1, <2>1, <3>1, <3>2, Zenon DEF State, SameHolders
  <2> HIDE DEF d
  <2>4. Mute(s, p)
    BY <2>3, PublishHolders, Zenon
  <2>5. p.st \in State /\ p.st.RunnerGen = gen
    <3>1. refreshAgentStateJSON(d) \in State /\ refreshAgentStateJSON(d).RunnerGen = gen
      <4>1. refreshAgentStateJSON(d).RunnerGen = gen
        BY <2>3, Zenon DEF refreshAgentStateJSON, setAgentStateJSON, State
      <4> QED BY <2>3, <4>1, RevisionHolders, StateFields
    <3>2. p.st \in State
      BY <3>1, DebounceType, Zenon DEF Keeps, Follows, Handled, WellTyped
    <3>3. p.st.RunnerGen = gen
      BY <3>1, Zenon DEF schedulePersistDebounced, Ret, State
    <3> QED BY <3>2, <3>3
  <2> HIDE DEF p
  <2>6. restartEffects(p.st) \in Seq(Silent)
    BY <2>1, <2>5, RestartSilent, Zenon
  <2>7. Mute(s, Ret(p.st, restartEffects(p.st) \o p.eff))
    BY <2>4, <2>6, MuteWith, Zenon
  <2> QED BY <2>7, MutePasses, Zenon DEF fallBackToLocal, p, d, gen, handle
<1>6. Passes(s, Ret(s, <<>>), None) /\ Passes(s, Ret(closed, <<>>), None)
  BY <1>2, RetMute, MutePasses, SeqType, Zenon DEF SameHolders
<1>7. \/ reduceRunnerExited(s, in) = Ret(s, <<>>)
      \/ reduceRunnerExited(s, in) = failStart(n, in.err)
      \/ reduceRunnerExited(s, in) = fallBackToLocal(n)
      \/ reduceRunnerExited(s, in) = Ret(closed, <<>>)
  BY DEF reduceRunnerExited, n
<1> QED BY <1>4, <1>5, <1>6, <1>7, Zenon

\* Handlers that answer their input.
LEMMA AnswerPasses ==
  ASSUME NEW s, NEW n, SameHolders(s, n), NEW x \in Calls \cup {None}, NEW k \in Results,
         NEW p \in Seq(Silent), NEW q \in Seq(Silent)
  PROVE  /\ Passes(s, Ret(n, replyTo(x, k)), x)
         /\ Passes(s, Ret(n, p \o replyTo(x, k)), x)
         /\ Passes(s, Ret(n, p \o q \o replyTo(x, k)), x)
BY TellsReply, AnswersInput

\* cmdShutdown, cmdRemoteSend, cmdAbortRemote and evEngineWorking.
LEMMA PlainPasses ==
  ASSUME NEW s \in State
  PROVE  /\ Passes(s, reduceShutdown(s), None)
         /\ \A msg \in Messages, reply \in Calls \cup {None} :
              Passes(s, reduceRemoteSend(s, msg, reply), reply)
         /\ \A reply \in Calls \cup {None} : Passes(s, reduceAbortRemote(s, reply), reply)
         /\ \A in : Passes(s, reduceEngineWorking(s, in), None)
<1>1. /\ s.RunnerGen \in Nat /\ <<>> \in Seq(Silent) /\ SameHolders(s, s)
      /\ "ok" \in Results /\ "err" \in Results
  BY StateFields DEF SameHolders, Results
<1>2. Passes(s, reduceShutdown(s), None)
  <2>1. SameHolders(s, [s EXCEPT !.FSM = "Closing"])
    BY Zenon DEF State, SameHolders
  <2>2. <<effStopLocalRunner(s.RunnerGen), effStopRemoteRunner(s.RunnerGen),
          effTakebackWatcher(FALSE)>> \in Seq(Silent)
    BY <1>1, SilentTypes, SeqType, Zenon
  <2> QED BY <2>1, <2>2, RetMute, MutePasses, Zenon DEF reduceShutdown
<1>3. ASSUME NEW msg \in Messages, NEW reply \in Calls \cup {None}
      PROVE  Passes(s, reduceRemoteSend(s, msg, reply), reply)
  <2>1. <<effRemoteSend(s.RunnerGen, msg)>> \in Seq(Silent)
    BY <1>1, SilentTypes, SeqType, Zenon
  <2>2. SameHolders(s, maybeStartTurn(s))
    BY Zenon DEF maybeStartTurn, State, SameHolders
  <2> QED BY <1>1, <2>1, <2>2, AnswerPasses, Zenon DEF reduceRemoteSend
<1>4. ASSUME NEW reply \in Calls \cup {None}
      PROVE  Passes(s, reduceAbortRemote(s, reply), reply)
  <2>1. <<effRemoteAbort(s.RunnerGen)>> \in Seq(Silent)
    BY <1>1, SilentTypes, SeqType, Zenon
  <2> QED BY <1>1, <2>1, AnswerPasses, Zenon DEF reduceAbortRemote
<1>5. ASSUME NEW in
      PROVE  Passes(s, reduceEngineWorking(s, in), None)
  <2>1. SameHolders(s, [s EXCEPT !.Working = in.working])
    BY Zenon DEF State, SameHolders
  <2> QED BY <1>1, <2>1, RetMute, MutePasses, Zenon DEF reduceEngineWorking
<1> QED BY <1>2, <1>3, <1>4, <1>5

\* cmdInboundUserMessage, with the switch it may cause.
LEMMA InboundPasses ==
  ASSUME NEW s \in State, NEW msg \in Messages
  PROVE  Passes(s, reduceInboundUserMessage(s, msg), None)
<1> DEFINE buffered == [s EXCEPT !.PendingRemoteSends = Append(@, msg)]
           r == reduceSwitchMode(buffered, "remote", None)
<1>0. \A n \in State : SameHolders(n, maybeStartTurn(n))
  BY Zenon DEF maybeStartTurn, State, SameHolders
<1>1. buffered \in State /\ SameHolders(s, buffered)
  <2>1. Append(s.PendingRemoteSends, msg) \in Seq(Messages)
    BY StateFields
  <2> QED BY <2>1, Zenon DEF State, SameHolders
<1> HIDE DEF buffered, r
<1>2. Passes(s, Ret(maybeStartTurn(r.st), r.eff), None)
  <2>1. CASE r = Ret(buffered, replyTo(None, "ok"))
    <3>1. r.st = buffered /\ r.eff = <<>>
      BY <2>1 DEF Ret, replyTo
    <3>2. SameHolders(s, maybeStartTurn(buffered))
      BY <1>0, <1>1, Zenon DEF SameHolders
    <3> QED BY <3>1, <3>2, RetMute, MutePasses, SeqType, Zenon
  <2>2. ASSUME NEW n \in State, NEW e \in Seq(Silent), r = Ret(n, e),
               n.PersistWaiters = buffered.PersistWaiters, n.PendingSwitchReply = None
        PROVE  Passes(s, Ret(maybeStartTurn(r.st), r.eff), None)
    <3>1. r.st = n /\ r.eff = e
      BY <2>2 DEF Ret
    <3>2. /\ maybeStartTurn(n).PersistWaiters = s.PersistWaiters
          /\ maybeStartTurn(n).PendingSwitchReply = None
      BY <1>0, <1>1, <2>2, Zenon DEF SameHolders
    <3>3. Tells(e, None)
      BY TellsNobody, Zenon
    <3>4. Passes(s, Ret(maybeStartTurn(n), e), None)
      BY <3>2, <3>3, SwitchTaken, Zenon
    <3> QED BY <3>1, <3>4, Zenon
  <2>3. \/ r = Ret(buffered, replyTo(None, "ok"))
        \/ \E n \in State, e \in Seq(Silent) :
             /\ r = Ret(n, e)
             /\ n.PersistWaiters = buffered.PersistWaiters
             /\ n.PendingSwitchReply = None
    BY <1>1, SwitchModeCalls DEF r, Modes
  <2> QED BY <2>1, <2>2, <2>3, Zenon
<1>3. SameHolders(s, maybeStartTurn(s)) /\ SameHolders(s, maybeStartTurn(buffered))
  BY <1>0, <1>1, Zenon DEF SameHolders
<1>4. <<effRemoteSend(s.RunnerGen, msg)>> \in Seq(Silent) /\ <<>> \in Seq(Silent)
  BY StateFields, SilentTypes, SeqType, Zenon
<1>5. /\ Passes(s, Ret(maybeStartTurn(s), <<effRemoteSend(s.RunnerGen, msg)>>), None)
      /\ Passes(s, Ret(maybeStartTurn(buffered), <<>>), None)
  BY <1>3, <1>4, RetMute, MutePasses, Zenon
<1> QED BY <1>2, <1>5, Zenon DEF reduceInboundUserMessage, buffered, r


\* cmdSetAgentConfig.
LEMMA SetAgentConfigPasses ==
  ASSUME NEW s \in State, NEW in, in.model \in Models \cup {None},
         in.permissionMode \in PermissionModes \cup {None}, in.reply \in Calls \cup {None}
  PROVE  Passes(s, reduceSetAgentConfig(s, in), in.reply)
<1> DEFINE keep(new, old) == IF new = None THEN old ELSE new
           cfg == [model |-> keep(in.model, s.AgentState.config.model),
                   permissionMode |-> keep(in.permissionMode,
                                           s.AgentState.config.permissionMode)]
           n == [s EXCEPT !.AgentState.config = cfg]
           p == persistAgentStateImmediately(refreshAgentStateJSON(n))
           apply == IF s.FSM = "RemoteRunning"
                    THEN <<effApplyEngineConfig(s.RunnerGen, cfg)>> ELSE <<>>
<1>1. cfg \in AgentConfig
  <2>1. s.AgentState.config.model \in Models
        /\ s.AgentState.config.permissionMode \in PermissionModes
    BY StateFields, AgentStateFields
  <2>2. keep(in.model, s.AgentState.config.model) \in Models
        /\ keep(in.permissionMode, s.AgentState.config.permissionMode) \in PermissionModes
    BY <2>1
  <2> QED BY <2>2, Zenon DEF AgentConfig
<1> HIDE DEF cfg
<1>2. n \in State /\ SameHolders(s, n)
  <2>1. [s.AgentState EXCEPT !.config = cfg] \in AgentState
    BY <1>1, StateFields, Zenon DEF AgentState
  <2> QED BY <2>1, Zenon DEF State, SameHolders
<1> HIDE DEF n
<1>3. Mute(s, p)
  BY <1>2, PublishHolders, Zenon
<1> HIDE DEF p
<1>4. apply \in Seq(Silent) /\ p.eff \in Seq(Silent) /\ SameHolders(s, p.st)
  BY <1>1, <1>3, StateFields, SilentTypes, SeqType, Zenon DEF Mute
<1> HIDE DEF apply
<1>5. "ok" \in Results /\ "err" \in Results /\ SameHolders(s, s) /\ <<>> \in Seq(Silent)
  BY SeqType DEF Results, SameHolders
<1>6. Passes(s, Ret(p.st, p.eff \o apply \o replyTo(in.reply, "ok")), in.reply)
  BY <1>4, <1>5, AnswerPasses, Zenon
<1>7. /\ Passes(s, Ret(s, replyTo(in.reply, "err")), in.reply)
      /\ Passes(s, Ret(s, replyTo(in.reply, "ok")), in.reply)
  BY <1>5, AnswerPasses, Zenon
<1>8. \/ reduceSetAgentConfig(s, in) = Ret(s, replyTo(in.reply, "err"))
      \/ reduceSetAgentConfig(s, in) = Ret(s, replyTo(in.reply, "ok"))
      \/ reduceSetAgentConfig(s, in) = Ret(p.st, p.eff \o apply \o replyTo(in.reply, "ok"))
  <2>1. CASE s.Mode # "remote" \/ s.AgentState.controlledByUser
    BY <2>1, Zenon DEF reduceSetAgentConfig
  <2>2. CASE /\ ~(s.Mode # "remote" \/ s.AgentState.controlledByUser)
             /\ cfg = s.AgentState.config
    BY <2>2, Zenon DEF reduceSetAgentConfig, cfg
  <2>3. CASE /\ ~(s.Mode # "remote" \/ s.AgentState.controlledByUser)
             /\ cfg # s.AgentState.config
    BY <2>3, Zenon DEF reduceSetAgentConfig, cfg, n, p, apply
  <2> QED BY <2>1, <2>2, <2>3
<1> QED BY <1>6, <1>7, <1>8, Zenon

\* evEngineSessionIdentified.
LEMMA IdentifiedMute ==
  ASSUME NEW s \in State, NEW in, in.token \in Tokens
  PROVE  Mute(s, reduceEngineSessionIdentified(s, in))
<1> DEFINE n == [s EXCEPT !.ResumeToken = in.token, !.AgentState.resumeToken = in.token]
<1>1. in.token \in Tokens \cup {None}
  OBVIOUS
<1>2. [s.AgentState EXCEPT !.resumeToken = in.token] \in AgentState
  BY <1>1, StateFields, Zenon DEF AgentState
<1>3. n \in State /\ SameHolders(s, n)
  BY <1>1, <1>2, Zenon DEF State, SameHolders
<1> HIDE DEF n
<1>4. Mute(s, schedulePersistDebounced(refreshAgentStateJSON(n)))
  BY <1>3, PublishHolders, Zenon
<1>5. Mute(s, Ret(s, <<>>))
  BY SeqType, RetMute, Zenon DEF SameHolders
<1> QED BY <1>4, <1>5, Zenon DEF reduceEngineSessionIdentified, n

\* The answers to those who wait for the persistence.
LEMMA TellsWaiters ==
  ASSUME NEW ws \in Seq(Calls), NEW k, NEW q \in Seq(Silent)
  PROVE  TellsAll(completeWaiters(ws, k), ws) /\ TellsAll(completeWaiters(ws, k) \o q, ws)
<1> DEFINE n == Len(ws)
           e == completeWaiters(ws, k)
           c == e \o q
<1>1. n \in Nat /\ DOMAIN ws = 1..n
  OBVIOUS
<1>2. e = [i \in 1..n |-> effCompleteReply(ws[i], k)]
  BY DEF completeWaiters
<1>3. \A i \in 1..n : e[i].call = ws[i]
  BY <1>2 DEF effCompleteReply
<1>4. DOMAIN e = 1..n
  BY <1>2
<1>5. /\ \A i \in DOMAIN c : i \in 1..n \/ i - n \in DOMAIN q
      /\ \A i \in 1..n : c[i] = e[i]
      /\ \A i \in DOMAIN c : i \notin 1..n => c[i] = q[i - n]
  <2>1. e \in Seq({effCompleteReply(ws[i], k) : i \in 1..n}) /\ Len(e) = n
    BY <1>1, <1>2
  <2> HIDE DEF n, e
  <2>2. /\ Len(c) = n + Len(q) /\ DOMAIN c = 1..(n + Len(q)) /\ DOMAIN q = 1..Len(q)
        /\ Len(q) \in Nat
        /\ \A i \in 1..(n + Len(q)) : c[i] = IF i <= n THEN e[i] ELSE q[i - n]
    BY SMTT(40), <1>1, <2>1
  <2> QED BY <1>1, <2>2
<1> HIDE DEF n, e, c
<1>6. \A i \in DOMAIN q : q[i].type # "CompleteReply"
  BY DEF Silent
<1>7. /\ \A i \in DOMAIN e : i \in DOMAIN ws /\ e[i].call = ws[i]
      /\ \A i \in DOMAIN c : c[i].type = "CompleteReply" => i \in DOMAIN ws /\ c[i].call = ws[i]
  BY <1>1, <1>3, <1>4, <1>5, <1>6, Zenon
<1> QED BY <1>7, Zenon DEF e, c, TellsAll

\* The handlers of the persistence and of the connection.
LEMMA PersistencePasses ==
  ASSUME NEW s \in State
  PROVE  /\ \A doc \in AgentState : Passes(s, reducePersistAgentStateImmediate(s, doc), None)
         /\ \A reply \in Calls : Passes(s, reduceWaitForAgentStatePersist(s, reply), reply)
         /\ \A in : Passes(s, reduceAgentStatePersisted(s, in), None)
         /\ \A in : in.version \in Nat =>
              Passes(s, reduceAgentStateVersionMismatch(s, in), None)
         /\ Passes(s, reduceAgentStatePersistFailed(s), None)
         /\ Passes(s, reduceTimerFired(s), None)
         /\ Passes(s, reduceWSConnected(s), None)
         /\ Passes(s, reduceWSDisconnected(s), None)
<1>1. <<>> \in Seq(Silent) /\ SameHolders(s, s) /\ s.PersistWaiters \in Seq(Calls)
  BY StateFields DEF SameHolders
<1>2. \A doc \in AgentState : Passes(s, reducePersistAgentStateImmediate(s, doc), None)
  BY <1>1, PublishHolders, MutePasses, Zenon DEF reducePersistAgentStateImmediate
<1>3. ASSUME NEW reply \in Calls
      PROVE  Passes(s, reduceWaitForAgentStatePersist(s, reply), reply)
  <2> DEFINE w == [s EXCEPT !.PersistWaiters = Append(@, reply)]
  <2>1. Append(s.PersistWaiters, reply) \in Seq(Calls)
    BY StateFields
  <2>2. /\ w \in State /\ w.PersistWaiters = Append(s.PersistWaiters, reply)
        /\ w.PendingSwitchReply = s.PendingSwitchReply
    BY <2>1, Zenon DEF State
  <2> HIDE DEF w
  <2>3. ASSUME NEW r, Mute(w, r) PROVE Passes(s, r, reply)
    <3>1. /\ r.st.PersistWaiters = Append(s.PersistWaiters, reply)
          /\ r.st.PendingSwitchReply = s.PendingSwitchReply /\ Tells(r.eff, None)
      BY <2>2, <2>3, TellsNobody, Zenon DEF Mute, SameHolders
    <3>2. Passes(s, Ret(r.st, r.eff), reply)
      BY <1>1, <3>1, WaiterAdded, Zenon
    <3> QED BY <3>2, PassesRet, Zenon
  <2>4. Mute(w, Ret(w, <<>>)) /\ Mute(w, persistAgentStateImmediately(w))
    BY <1>1, <2>2, RetMute, PersistHolders, Zenon DEF SameHolders
  <2> QED BY <2>3, <2>4, Zenon DEF reduceWaitForAgentStatePersist, w
<1>4. ASSUME NEW in
      PROVE  Passes(s, reduceAgentStatePersisted(s, in), None)
  <2> DEFINE n == [s EXCEPT !.AgentStateVersion = IF in.version > 0 THEN in.version ELSE @,
                            !.PersistRetryRemaining = 0, !.PersistInFlight = FALSE,
                            !.PersistWaiters = <<>>]
  <2>1. n.PersistWaiters = <<>> /\ n.PendingSwitchReply = s.PendingSwitchReply
    BY Zenon DEF State
  <2> HIDE DEF n
  <2>2. Passes(s, Ret(n, completeWaiters(s.PersistWaiters, "ok")), None)
    BY <1>1, <2>1, TellsWaiters, WaitersAnswered, Zenon
  <2> QED BY <2>2, Zenon DEF reduceAgentStatePersisted, n
<1>5. ASSUME NEW in, in.version \in Nat
      PROVE  Passes(s, reduceAgentStateVersionMismatch(s, in), None)
  <2> DEFINE v == IF in.version > 0 THEN in.version ELSE s.AgentStateVersion
             n == [s EXCEPT !.AgentStateVersion = v]
             m == [n EXCEPT !.PersistRetryRemaining = @ - 1,
                            !.PersistDebounceTimerArmed = FALSE,
                            !.PersistInFlight = TRUE]
  <2>1. v \in Nat
    BY <1>5, StateFields
  <2> HIDE DEF v
  <2>2. n \in State /\ SameHolders(s, n)
    BY <2>1, Zenon DEF State, SameHolders
  <2> HIDE DEF n
  <2>3. SameHolders(s, m)
    BY <2>2, Zenon DEF State, SameHolders
  <2> HIDE DEF m
  <2>4. <<persistEffect(n)>> \in Seq(Silent)
    BY <2>2, SilentTypes, SeqType, Zenon
  <2>5. Mute(s, Ret(n, <<>>)) /\ Mute(s, Ret(m, <<persistEffect(n)>>))
    BY <1>1, <2>2, <2>3, <2>4, RetMute, Zenon
  <2> QED BY <2>5, MutePasses, Zenon DEF reduceAgentStateVersionMismatch, v, n, m
<1>6. Passes(s, reduceAgentStatePersistFailed(s), None)
  <2> DEFINE n == [s EXCEPT !.PersistInFlight = FALSE, !.PersistWaiters = <<>>]
             p == schedulePersistDebounced(n)
             failed == completeWaiters(s.PersistWaiters, "err")
  <2>1. /\ n \in State /\ n.PersistWaiters = <<>>
        /\ n.PendingSwitchReply = s.PendingSwitchReply
    <3>1. <<>> \in Seq(Calls)
      OBVIOUS
    <3> QED BY <3>1, Zenon DEF State
  <2> HIDE DEF n
  <2>2. Mute(n, p)
    BY <2>1, PersistHolders, Zenon DEF SameHolders
  <2> HIDE DEF p
  <2>3. /\ p.eff \in Seq(Silent) /\ p.st.PersistWaiters = <<>>
        /\ p.st.PendingSwitchReply = s.PendingSwitchReply
    BY <2>1, <2>2, Zenon DEF Mute, SameHolders
  <2>4. Passes(s, Ret(n, failed), None)
    BY <1>1, <2>1, TellsWaiters, WaitersAnswered, Zenon
  <2>5. Passes(s, Ret(p.st, failed \o p.eff), None)
    BY <1>1, <2>3, TellsWaiters, WaitersAnswered, Zenon
  <2> QED BY <2>4, <2>5, Zenon DEF reduceAgentStatePersistFailed, n, p
<1>7. Passes(s, reduceTimerFired(s), None)
  <2> DEFINE n == [s EXCEPT !.PersistDebounceTimerArmed = FALSE, !.PersistRetryRemaining = 1]
  <2>1. n \in State /\ SameHolders(s, n)
    <3>1. 1 \in 0..1
      OBVIOUS
    <3> QED BY <3>1, Zenon DEF State, SameHolders
  <2> HIDE DEF n
  <2>2. <<persistEffect(n)>> \in Seq(Silent)
    BY <2>1, SilentTypes, SeqType, Zenon
  <2> QED BY <2>1, <2>2, RetMute, MutePasses, Zenon DEF reduceTimerFired, n
<1>8. Passes(s, reduceWSConnected(s), None) /\ Passes(s, reduceWSDisconnected(s), None)
  <2> DEFINE on == [s EXCEPT !.WSConnected = TRUE]
             off == [s EXCEPT !.WSConnected = FALSE]
  <2>1. on \in State /\ SameHolders(s, on) /\ SameHolders(s, off)
    BY Zenon DEF State, SameHolders
  <2> HIDE DEF on, off
  <2> QED BY <1>1, <2>1, RetMute, PersistHolders, MutePasses, Zenon
          DEF reduceWSConnected, reduceWSDisconnected, on, off
<1> QED BY <1>2, <1>3, <1>4, <1>5, <1>6, <1>7, <1>8


\* cmdPermissionDecision.
LEMMA DecisionMute ==
  ASSUME NEW s \in State, NEW in, in.request \in Requests, in.verdict \in {"allow", "deny"}
  PROVE  Mute(s, reducePermissionDecision(s, in))
<1> DEFINE r == in.request
           old == s.AgentState.completedRequests
           kept == IF Cardinality({q \in Requests : old[q] # "none"}) > MaxCompleted
                   THEN [q \in Requests |-> "none"] ELSE old
           done == [kept EXCEPT ![r] = in.verdict]
           left == s.AgentState.requests \ {r}
           promises == [s.PendingPermissionPromises EXCEPT ![r] = None]
           n == [s EXCEPT !.AgentState.requests = @ \ {r},
                          !.AgentState.completedRequests = [kept EXCEPT ![r] = in.verdict],
                          !.PendingPermissionPromises = [@ EXCEPT ![r] = None]]
           p == schedulePersistDebounced(refreshAgentStateJSON(n))
<1>1. in.verdict \in Verdicts /\ "none" \in Verdicts
  BY DEF Verdicts
<1>2. kept \in [Requests -> Verdicts]
  <2>1. old \in [Requests -> Verdicts]
    BY StateFields, AgentStateFields
  <2> HIDE DEF old
  <2>2. [q \in Requests |-> "none"] \in [Requests -> Verdicts]
    BY <1>1
  <2> QED BY <2>1, <2>2, Zenon
<1> HIDE DEF kept
<1>3. done \in [Requests -> Verdicts]
  BY <1>1, <1>2
<1>4. left \in SUBSET Requests
  BY StateFields, AgentStateFields
<1>5. promises \in [Requests -> Awaits \cup {None}]
  BY StateFields
<1> HIDE DEF done, left, promises
<1>6. [s.AgentState EXCEPT !.requests = left, !.completedRequests = done] \in AgentState
  BY <1>3, <1>4, StateFields, Zenon DEF AgentState
<1>7. n = [s EXCEPT !.AgentState = [s.AgentState EXCEPT !.requests = left,
                                                        !.completedRequests = done],
                    !.PendingPermissionPromises = promises]
  BY Zenon DEF done, left, promises, State
<1>8. n \in State /\ SameHolders(s, n)
  BY <1>5, <1>6, <1>7, Zenon DEF State, SameHolders
<1> HIDE DEF n
<1>9. Mute(s, p)
  BY <1>8, PublishHolders, Zenon
<1> HIDE DEF p
<1>10. Mute(s, Ret(s, <<>>)) /\ Mute(s, Ret(p.st, completePromise(s, r, in.verdict) \o p.eff))
  <2>1. completePromise(s, r, in.verdict) \in Seq(Silent)
    <3>1. s.PendingPermissionPromises[r] \in Awaits \cup {None}
      BY StateFields
    <3> QED BY <1>1, <3>1, SilentTypes, SeqType DEF completePromise
  <2> QED BY <1>9, <2>1, MuteWith, RetMute, SeqType, Zenon DEF SameHolders
<1>11. \/ reducePermissionDecision(s, in) = Ret(s, <<>>)
       \/ reducePermissionDecision(s, in) = Ret(p.st, completePromise(s, r, in.verdict) \o p.eff)
  BY Zenon DEF reducePermissionDecision, kept, n, p
<1> QED BY <1>10, <1>11, Zenon

\* cmdPermissionAwait.
LEMMA AwaitMute ==
  ASSUME NEW s \in State, NEW in, in.await \in Awaits
  PROVE  Mute(s, reducePermissionAwait(s, in))
<1> DEFINE a == in.await
           r == RequestOf[a]
           auto == autoVerdict(s)
           done == [s.AgentState.completedRequests EXCEPT ![r] = auto]
           asked == s.AgentState.requests \cup {r}
           promises == [s.PendingPermissionPromises EXCEPT ![r] = a]
           finished == [s EXCEPT !.AgentState.completedRequests = [@ EXCEPT ![r] = auto]]
           promised == [s EXCEPT !.PendingPermissionPromises = [@ EXCEPT ![r] = a]]
           entered == [promised EXCEPT !.AgentState.requests = @ \cup {r}]
           resolved == persistAgentStateImmediately(refreshAgentStateJSON(finished))
           registered == schedulePersistDebounced(refreshAgentStateJSON(entered))
           decide == <<effSignalAck(a), effCompletePermissionDecision(a, auto)>>
           announce == <<effEmitPermissionRequest(r)>>
           ack == <<effSignalAck(a)>>
<1>1. a \in Awaits /\ r \in Requests /\ auto \in Verdicts
  BY ConstantsOK, AutoVerdictType
<1> HIDE DEF a, r, auto
<1>2. announce \in Seq(Silent) /\ ack \in Seq(Silent) /\ decide \in Seq(Silent)
      /\ <<effEmitPermissionRequest(r), effSignalAck(a)>> \in Seq(Silent)
  BY <1>1, SilentTypes, SeqType, Zenon
<1> HIDE DEF decide, announce, ack
<1>4. done \in [Requests -> Verdicts] /\ asked \in SUBSET Requests
  BY <1>1, StateFields, AgentStateFields
<1>5. promises \in [Requests -> Awaits \cup {None}]
  BY <1>1, StateFields
<1>6. promised = [s EXCEPT !.PendingPermissionPromises = promises]
  BY Zenon
<1>7. finished = [s EXCEPT !.AgentState = [s.AgentState EXCEPT !.completedRequests = done]]
  BY Zenon
<1> HIDE DEF done, promises
<1>8. [s.AgentState EXCEPT !.completedRequests = done] \in AgentState
  BY <1>4, StateFields, Zenon DEF AgentState
<1>9. /\ promised \in State /\ promised.AgentState = s.AgentState
      /\ SameHolders(s, promised)
      /\ finished \in State /\ SameHolders(s, finished)
  BY <1>5, <1>6, <1>7, <1>8, Zenon DEF State, SameHolders
<1> HIDE DEF promised, finished
<1>10. entered = [promised EXCEPT !.AgentState = [s.AgentState EXCEPT !.requests = asked]]
  BY <1>9, Zenon
<1> HIDE DEF asked
<1>11. [s.AgentState EXCEPT !.requests = asked] \in AgentState
  BY <1>4, StateFields, Zenon DEF AgentState
<1>12. entered \in State /\ SameHolders(s, entered)
  BY <1>9, <1>10, <1>11, Zenon DEF State, SameHolders
<1> HIDE DEF entered
<1>13. Mute(s, resolved) /\ Mute(s, registered)
  BY <1>9, <1>12, PublishHolders, Zenon
<1> HIDE DEF resolved, registered
<1>14. /\ Mute(s, Ret(resolved.st, resolved.eff \o decide))
       /\ Mute(s, Ret(promised, <<effEmitPermissionRequest(r), effSignalAck(a)>>))
       /\ Mute(s, Ret(registered.st, announce \o registered.eff \o ack))
  <2>1. resolved.eff \o decide \in Seq(Silent)
    BY <1>2, <1>13, SeqType, Zenon DEF Mute
  <2> QED BY <1>2, <1>9, <1>13, <2>1, MuteWith, RetMute, Zenon DEF Mute
<1>15. \/ reducePermissionAwait(s, in) = Ret(resolved.st, resolved.eff \o decide)
       \/ reducePermissionAwait(s, in)
            = Ret(promised, <<effEmitPermissionRequest(r), effSignalAck(a)>>)
       \/ reducePermissionAwait(s, in) = Ret(registered.st, announce \o registered.eff \o ack)
  <2>1. CASE auto # "none"
    BY <2>1, Zenon DEF reducePermissionAwait, a, r, auto, resolved, finished, decide
  <2>2. CASE auto = "none" /\ r \in s.AgentState.requests
    BY <2>2, Zenon DEF reducePermissionAwait, a, r, auto, promised
  <2>3. CASE auto = "none" /\ r \notin s.AgentState.requests
    BY <2>3, Zenon DEF reducePermissionAwait, a, r, auto, promised, registered, entered,
                       announce, ack
  <2> QED BY <2>1, <2>2, <2>3
<1> QED BY <1>14, <1>15, Zenon

----------------------------------------------------------------------------
(* A turn of the loop.                                                     *)

\* No reply channel is duplicated, and none turns up.
NoneMade ==
  \A c \in Calls : /\ Once(c) => Once(c)'
                   /\ Somewhere(c)' => Somewhere(c)

\* The reply channel an input carries.
repliesTo(in, x) == IF "reply" \in DOMAIN in THEN x = in.reply ELSE x = None

\* The turn of a handler that passes the channels on makes none.
LEMMA PassesTurn ==
  ASSUME ActorTypeOK, NEW t, NEW r, NEW x, Handle(t, r), WellTyped(r), repliesTo(In, x),
         Passes(st, r, x)
  PROVE  NoneMade
<1> DEFINE n == Len(effects)
<1>1. /\ st' = r.st /\ effects' = effects \o r.eff /\ inbox' = Tail(inbox) /\ inbox # <<>>
      /\ effects \in Seq(Effect) /\ r.eff \in Seq(Publishing(r.st)) /\ inbox \in Seq(Input)
      /\ In = inbox[1]
  BY DEF Handle, ActorTypeOK, WellTyped, In
<1>2. /\ n \in Nat
      /\ \A i \in DOMAIN effects' : \/ i \in DOMAIN effects /\ effects'[i] = effects[i]
                                    \/ i > n /\ i - n \in DOMAIN r.eff /\ effects'[i] = r.eff[i - n]
      /\ \A i \in DOMAIN effects' : i \in Nat
      /\ \A i \in DOMAIN effects : i <= n
  BY <1>1
<1>3. /\ \A i \in DOMAIN inbox' : i \in Nat \ {0} /\ i + 1 \in DOMAIN inbox /\ inbox'[i] = inbox[i + 1]
      /\ 1 \in DOMAIN inbox
  BY <1>1
<1> HIDE DEF n
\* Where a channel is found after the turn, and where it was before.
<1>4. ASSUME NEW c \in Calls, NEW k, NEW i, Held(c, k, i)'
      PROVE  \/ k = "mail" /\ i \in Nat \ {0} /\ Held(c, "mail", i + 1)
             \/ k = "effect" /\ i <= n /\ i \in Nat /\ Held(c, "effect", i)
             \/ k = "effect" /\ i > n /\ i \in Nat /\ heldAt(c, r.st, r.eff, None, "effect", i - n)
             \/ k \in {"waiter", "switch"} /\ heldAt(c, r.st, r.eff, None, k, i)
  <2>1. CASE k = "mail"
    BY <1>3, <1>4, <2>1 DEF Held, heldAt
  <2>2. CASE k = "effect"
    BY <1>2, <1>4, <2>2 DEF Held, heldAt
  <2>3. CASE k # "mail" /\ k # "effect"
    BY <1>1, <1>4, <2>3, ConstantsOK DEF Held, heldAt
  <2> QED BY <2>1, <2>2, <2>3
\* What the handler starts from was there before.
<1>5. ASSUME NEW c \in Calls, NEW k, NEW i, heldAt(c, st, <<>>, x, k, i)
      PROVE  \/ k = "input" /\ i = 0 /\ Held(c, "mail", 1)
             \/ k \in {"waiter", "switch"} /\ Held(c, k, i)
  <2>1. CASE k = "input"
    BY <1>1, <1>3, <1>5, <2>1, ConstantsOK DEF Held, heldAt, repliesTo
  <2>2. CASE k # "input"
    BY <1>5, <2>2 DEF Held, heldAt
  <2> QED BY <2>1, <2>2
<1>6. ASSUME NEW c \in Calls, Present(c, r.st, r.eff, None)
      PROVE  \E k, i : Held(c, k, i) /\ (k = "mail" => i = 1) /\ k # "effect"
  <2>1. Present(c, st, <<>>, x)
    BY <1>6, Zenon DEF Passes
  <2>2. PICK k : \E i : heldAt(c, st, <<>>, x, k, i)
    BY <2>1, Zenon DEF Present
  <2>3. PICK i : heldAt(c, st, <<>>, x, k, i)
    BY <2>2, Zenon
  <2>4. CASE Held(c, "mail", 1)
    BY <2>4
  <2>5. CASE k \in {"waiter", "switch"} /\ Held(c, k, i)
    BY <2>5
  <2> QED BY <1>5, <2>3, <2>4, <2>5
<1>7. ASSUME NEW c \in Calls, NEW k, NEW i, heldAt(c, r.st, r.eff, None, k, i)
      PROVE  Present(c, r.st, r.eff, None)
  BY <1>7, Zenon DEF Present
<1>8. ASSUME NEW c \in Calls, Once(c)
      PROVE  Alone(c, r.st, r.eff, None)
  <2>1. ASSUME NEW k, NEW l, NEW i, NEW j,
               heldAt(c, st, <<>>, x, k, i), heldAt(c, st, <<>>, x, l, j)
        PROVE  k = l /\ i = j
    <3>1. \A k1, l1, i1, j1 : Held(c, k1, i1) /\ Held(c, l1, j1) => k1 = l1 /\ i1 = j1
      BY <1>8, Zenon DEF Once
    <3>2. /\ \/ k = "input" /\ i = 0 /\ Held(c, "mail", 1)
             \/ k \in {"waiter", "switch"} /\ Held(c, k, i)
          /\ \/ l = "input" /\ j = 0 /\ Held(c, "mail", 1)
             \/ l \in {"waiter", "switch"} /\ Held(c, l, j)
      BY <1>5, <2>1
    <3> QED BY <3>1, <3>2
  <2>2. Alone(c, st, <<>>, x)
    BY <2>1, Zenon DEF Alone
  <2> QED BY <2>2, Zenon DEF Passes
<1>9. ASSUME NEW c \in Calls, Somewhere(c)'
      PROVE  Somewhere(c)
  <2>1. PICK k : \E i : Held(c, k, i)'
    BY <1>9, Zenon DEF Somewhere
  <2>2. PICK i : Held(c, k, i)'
    BY <2>1, Zenon
  <2>3. (\E j : Held(c, "mail", j)) \/ (\E j : Held(c, "effect", j)) \/ Present(c, r.st, r.eff, None)
    BY <1>4, <1>7, <2>2
  <2> QED BY <1>6, <2>3, Zenon DEF Somewhere
<1>10. ASSUME NEW c \in Calls, Once(c)
       PROVE  Once(c)'
  <2> SUFFICES ASSUME NEW k, NEW l, NEW i, NEW j, Held(c, k, i)', Held(c, l, j)'
               PROVE  k = l /\ i = j
    BY Zenon DEF Once
  <2>0. \A k1, l1, i1, j1 : Held(c, k1, i1) /\ Held(c, l1, j1) => k1 = l1 /\ i1 = j1
    BY <1>10, Zenon DEF Once
  <2>1. \A k1, l1, i1, j1 : heldAt(c, r.st, r.eff, None, k1, i1)
                             /\ heldAt(c, r.st, r.eff, None, l1, j1) => k1 = l1 /\ i1 = j1
    BY <1>8, <1>10, Zenon DEF Alone
  <2> DEFINE Stays(a, u) ==
        \/ a = "mail" /\ u \in Nat \ {0} /\ Held(c, "mail", u + 1)
        \/ a = "effect" /\ u <= n /\ u \in Nat /\ Held(c, "effect", u)
             Comes(a, u) ==
        \/ a = "effect" /\ u > n /\ u \in Nat /\ heldAt(c, r.st, r.eff, None, "effect", u - n)
        \/ a \in {"waiter", "switch"} /\ heldAt(c, r.st, r.eff, None, a, u)
  <2>2. (Stays(k, i) \/ Comes(k, i)) /\ (Stays(l, j) \/ Comes(l, j))
    BY <1>4
  <2>3. CASE Stays(k, i) /\ Stays(l, j)
    BY <2>0, <2>3
  <2>4. CASE Comes(k, i) /\ Comes(l, j)
    BY <1>2, <2>1, <2>4
  <2>5. ASSUME NEW a, NEW u, NEW b, NEW v, Stays(a, u), Comes(b, v)
        PROVE  FALSE
    <3>1. Present(c, r.st, r.eff, None)
      BY <1>7, <2>5, Zenon
    <3>2. PICK k1 : \E i1 : Held(c, k1, i1) /\ (k1 = "mail" => i1 = 1) /\ k1 # "effect"
      BY <1>6, <3>1, Zenon
    <3>3. PICK i1 : Held(c, k1, i1) /\ (k1 = "mail" => i1 = 1) /\ k1 # "effect"
      BY <3>2, Zenon
    <3> QED BY <2>0, <2>5, <3>3
  <2> HIDE DEF Stays, Comes
  <2> QED BY <2>2, <2>3, <2>4, <2>5, Zenon
<1> QED BY <1>9, <1>10, Zenon DEF NoneMade


\* The inputs that carry a reply channel.
Expecting == {"cmdSwitchMode", "cmdRemoteSend", "cmdAbortRemote", "cmdSetAgentConfig",
              "cmdWaitForAgentStatePersist"}

\* They are the ones with that field.
LEMMA WithReply ==
  ASSUME ActorTypeOK, inbox # <<>>
  PROVE  "reply" \in DOMAIN In <=> In.type \in Expecting
<1>1. In \in Input
  BY HeadOfInbox
<1> QED BY <1>1 DEF Input, Expecting

\* Every turn of the loop leaves the channels as they are, or moves them.
LEMMA ReduceCalls ==
  ASSUME ActorTypeOK, Reduce
  PROVE  NoneMade
<1> DEFINE Asked(r) == WellTyped(r) /\ Passes(st, r, In.reply)
           Unasked(r) == WellTyped(r) /\ (Mute(st, r) \/ Passes(st, r, None))
<1>a. ASSUME NEW t \in Expecting, NEW r, Handle(t, r), Asked(r)
      PROVE  NoneMade
  <2>1. inbox # <<>> /\ In.type = t
    BY <1>a DEF Handle
  <2>2. repliesTo(In, In.reply)
    BY <2>1, WithReply DEF repliesTo
  <2> QED BY <1>a, <2>2, PassesTurn, Zenon
<1>b. ASSUME NEW t, t \notin Expecting, NEW r, Handle(t, r), Unasked(r)
      PROVE  NoneMade
  <2>1. inbox # <<>> /\ In.type = t
    BY <1>b DEF Handle
  <2>2. repliesTo(In, None)
    BY <1>b, <2>1, WithReply DEF repliesTo
  <2> QED BY <1>b, <2>2, PassesTurn, MutePasses, Zenon
<1> USE DEF Handled, Answered
<1>1. CASE ReduceSwitchMode
  <2>1. Asked(reduceSwitchMode(st, In.target, In.reply))
    BY <1>1, HandledInput, InputFields, SwitchModeType, SwitchModePasses
       DEF ReduceSwitchMode
  <2>2. "cmdSwitchMode" \in Expecting
    BY DEF Expecting
  <2> QED BY <1>a, <1>1, <2>1, <2>2, Zenon DEF ReduceSwitchMode
<1>2. CASE ReduceDesktopTakeback
  <2>1. Unasked(reduceSwitchMode(st, "local", None))
    BY <1>2, HandledInput, InputFields, SwitchModeType, SwitchModePasses
       DEF ReduceDesktopTakeback, Modes
  <2>2. "evDesktopTakeback" \notin Expecting
    BY DEF Expecting
  <2> QED BY <1>b, <1>2, <2>1, <2>2, Zenon DEF ReduceDesktopTakeback
<1>3. CASE ReduceRunnerReady
  <2>1. Unasked(reduceRunnerReady(st, In))
    BY <1>3, HandledInput, InputFields, RunnerReadyType, RunnerReadyPasses
       DEF ReduceRunnerReady
  <2>2. "evRunnerReady" \notin Expecting
    BY DEF Expecting
  <2> QED BY <1>b, <1>3, <2>1, <2>2, Zenon DEF ReduceRunnerReady
<1>4. CASE ReduceRunnerExited
  <2>1. Unasked(reduceRunnerExited(st, In))
    BY <1>4, HandledInput, InputFields, RunnerExitedType, RunnerExitedPasses
       DEF ReduceRunnerExited
  <2>2. "evRunnerExited" \notin Expecting
    BY DEF Expecting
  <2> QED BY <1>b, <1>4, <2>1, <2>2, Zenon DEF ReduceRunnerExited
<1>5. CASE ReduceShutdown
  <2>1. Unasked(reduceShutdown(st))
    BY <1>5, HandledInput, InputFields, ShutdownType, PlainPasses
       DEF ReduceShutdown
  <2>2. "cmdShutdown" \notin Expecting
    BY DEF Expecting
  <2> QED BY <1>b, <1>5, <2>1, <2>2, Zenon DEF ReduceShutdown
<1>6. CASE ReduceInboundUserMessage
  <2>1. Unasked(reduceInboundUserMessage(st, In.msg))
    BY <1>6, HandledInput, InputFields, InboundType, InboundPasses
       DEF ReduceInboundUserMessage
  <2>2. "cmdInboundUserMessage" \notin Expecting
    BY DEF Expecting
  <2> QED BY <1>b, <1>6, <2>1, <2>2, Zenon DEF ReduceInboundUserMessage
<1>7. CASE ReduceRemoteSend
  <2>1. Asked(reduceRemoteSend(st, In.msg, In.reply))
    BY <1>7, HandledInput, InputFields, RemoteSendType, PlainPasses
       DEF ReduceRemoteSend
  <2>2. "cmdRemoteSend" \in Expecting
    BY DEF Expecting
  <2> QED BY <1>a, <1>7, <2>1, <2>2, Zenon DEF ReduceRemoteSend
<1>8. CASE ReduceAbortRemote
  <2>1. Asked(reduceAbortRemote(st, In.reply))
    BY <1>8, HandledInput, InputFields, AbortType, PlainPasses
       DEF ReduceAbortRemote
  <2>2. "cmdAbortRemote" \in Expecting
    BY DEF Expecting
  <2> QED BY <1>a, <1>8, <2>1, <2>2, Zenon DEF ReduceAbortRemote
<1>9. CASE ReduceEngineWorking
  <2>1. Unasked(reduceEngineWorking(st, In))
    BY <1>9, HandledInput, InputFields, WorkingReduced, PlainPasses
       DEF ReduceEngineWorking
  <2>2. "evEngineWorking" \notin Expecting
    BY DEF Expecting
  <2> QED BY <1>b, <1>9, <2>1, <2>2, Zenon DEF ReduceEngineWorking
<1>10. CASE ReduceEngineSessionIdentified
  <2>1. Unasked(reduceEngineSessionIdentified(st, In))
    BY <1>10, HandledInput, InputFields, IdentifiedType, IdentifiedMute
       DEF ReduceEngineSessionIdentified
  <2>2. "evEngineSessionIdentified" \notin Expecting
    BY DEF Expecting
  <2> QED BY <1>b, <1>10, <2>1, <2>2, Zenon DEF ReduceEngineSessionIdentified
<1>11. CASE ReduceSetAgentConfig
  <2>1. Asked(reduceSetAgentConfig(st, In))
    BY <1>11, HandledInput, InputFields, SetAgentConfigType, SetAgentConfigPasses
       DEF ReduceSetAgentConfig
  <2>2. "cmdSetAgentConfig" \in Expecting
    BY DEF Expecting
  <2> QED BY <1>a, <1>11, <2>1, <2>2, Zenon DEF ReduceSetAgentConfig
<1>12. CASE ReducePermissionAwait
  <2>1. Unasked(reducePermissionAwait(st, In))
    BY <1>12, HandledInput, InputFields, AwaitType, AwaitMute
       DEF ReducePermissionAwait, Handle
  <2>2. "cmdPermissionAwait" \notin Expecting
    BY DEF Expecting
  <2> QED BY <1>b, <1>12, <2>1, <2>2, Zenon DEF ReducePermissionAwait
<1>13. CASE ReducePermissionDecision
  <2>1. Unasked(reducePermissionDecision(st, In))
    BY <1>13, HandledInput, InputFields, DecisionType, DecisionMute
       DEF ReducePermissionDecision, Handle
  <2>2. "cmdPermissionDecision" \notin Expecting
    BY DEF Expecting
  <2> QED BY <1>b, <1>13, <2>1, <2>2, Zenon DEF ReducePermissionDecision
<1>14. CASE ReducePersistAgentStateImmediate
  <2>1. Unasked(reducePersistAgentStateImmediate(st, In.doc))
    BY <1>14, HandledInput, InputFields, ImmediateType, PersistencePasses
       DEF ReducePersistAgentStateImmediate
  <2>2. "cmdPersistAgentStateImmediate" \notin Expecting
    BY DEF Expecting
  <2> QED BY <1>b, <1>14, <2>1, <2>2, Zenon DEF ReducePersistAgentStateImmediate
<1>15. CASE ReduceWaitForAgentStatePersist
  <2>1. Asked(reduceWaitForAgentStatePersist(st, In.reply))
    BY <1>15, HandledInput, InputFields, WaitType, PersistencePasses
       DEF ReduceWaitForAgentStatePersist
  <2>2. "cmdWaitForAgentStatePersist" \in Expecting
    BY DEF Expecting
  <2> QED BY <1>a, <1>15, <2>1, <2>2, Zenon DEF ReduceWaitForAgentStatePersist
<1>16. CASE ReduceAgentStatePersisted
  <2>1. Unasked(reduceAgentStatePersisted(st, In))
    BY <1>16, HandledInput, InputFields, PersistedType, PersistencePasses
       DEF ReduceAgentStatePersisted
  <2>2. "EvAgentStatePersisted" \notin Expecting
    BY DEF Expecting
  <2> QED BY <1>b, <1>16, <2>1, <2>2, Zenon DEF ReduceAgentStatePersisted
<1>17. CASE ReduceAgentStateVersionMismatch
  <2>1. Unasked(reduceAgentStateVersionMismatch(st, In))
    BY <1>17, HandledInput, InputFields, MismatchType, PersistencePasses
       DEF ReduceAgentStateVersionMismatch
  <2>2. "EvAgentStateVersionMismatch" \notin Expecting
    BY DEF Expecting
  <2> QED BY <1>b, <1>17, <2>1, <2>2, Zenon DEF ReduceAgentStateVersionMismatch
<1>18. CASE ReduceAgentStatePersistFailed
  <2>1. Unasked(reduceAgentStatePersistFailed(st))
    BY <1>18, HandledInput, InputFields, FailedType, PersistencePasses
       DEF ReduceAgentStatePersistFailed
  <2>2. "EvAgentStatePersistFailed" \notin Expecting
    BY DEF Expecting
  <2> QED BY <1>b, <1>18, <2>1, <2>2, Zenon DEF ReduceAgentStatePersistFailed
<1>19. CASE ReduceTimerFired
  <2>1. Unasked(reduceTimerFired(st))
    BY <1>19, HandledInput, InputFields, TimerFiredType, PersistencePasses
       DEF ReduceTimerFired
  <2>2. "evTimerFired" \notin Expecting
    BY DEF Expecting
  <2> QED BY <1>b, <1>19, <2>1, <2>2, Zenon DEF ReduceTimerFired
<1>20. CASE ReduceWSConnected
  <2>1. Unasked(reduceWSConnected(st))
    BY <1>20, HandledInput, InputFields, ConnectionTypes, PersistencePasses
       DEF ReduceWSConnected
  <2>2. "evWSConnected" \notin Expecting
    BY DEF Expecting
  <2> QED BY <1>b, <1>20, <2>1, <2>2, Zenon DEF ReduceWSConnected
<1>21. CASE ReduceWSDisconnected
  <2>1. Unasked(reduceWSDisconnected(st))
    BY <1>21, HandledInput, InputFields, ConnectionTypes, PersistencePasses
       DEF ReduceWSDisconnected
  <2>2. "evWSDisconnected" \notin Expecting
    BY DEF Expecting
  <2> QED BY <1>b, <1>21, <2>1, <2>2, Zenon DEF ReduceWSDisconnected
<1> QED BY <1>1, <1>2, <1>3, <1>4, <1>5, <1>6, <1>7, <1>8, <1>9, <1>10, <1>11,
           <1>12, <1>13, <1>14, <1>15, <1>16, <1>17, <1>18, <1>19, <1>20, <1>21 DEF Reduce


----------------------------------------------------------------------------
(* Steps outside the loop: they leave the channels in the reducer alone,    *)
(* execute one effect at most, and post one input at most, in which they    *)
(* may put the reply channel d.                                            *)

Outside(d) ==
  /\ st' = st
  /\ Shrinks
  /\ inbox' = inbox \/ \E in : repliesTo(in, d) /\ inbox' = Append(inbox, in)

\* Enqueue is such a step.
LEMMA Puts ==
  ASSUME NEW d, NEW in, repliesTo(in, d), Post(in), st' = st, Shrinks
  PROVE  Outside(d)
BY Zenon DEF Outside, Post

\* Where a channel is found after such a step, and where it was before.
shift == IF effects' = effects THEN 0 ELSE 1

\* A channel was in the same place before, one effect further back, or is new.
LEMMA OutsideHeld ==
  ASSUME ActorTypeOK, NEW d, Outside(d), NEW c \in Calls, NEW k, NEW i, Held(c, k, i)'
  PROVE  \/ k # "effect" /\ Held(c, k, i) /\ (k = "mail" => i # Len(inbox) + 1)
         \/ k = "effect" /\ i \in Nat \ {0} /\ Held(c, k, i + shift)
         \/ k = "mail" /\ i = Len(inbox) + 1 /\ c = d
<1>1. CASE k \notin {"mail", "effect"}
  BY <1>1 DEF Held, heldAt, Outside
<1>2. CASE k = "effect"
  <2>1. effects \in Seq(Effect)
    BY DEF ActorTypeOK
  <2>2. \A n \in DOMAIN effects' :
          n \in Nat \ {0} /\ n + shift \in DOMAIN effects /\ effects'[n] = effects[n + shift]
    BY <2>1 DEF Outside, Shrinks, shift
  <2> QED BY <1>2, <2>2, ConstantsOK DEF Held, heldAt
<1>3. CASE k = "mail"
  <2>1. inbox \in Seq(Input) /\ Len(inbox) \in Nat /\ Len(inbox) + 1 \notin DOMAIN inbox
    BY DEF ActorTypeOK
  <2>2. i \in DOMAIN inbox' /\ "reply" \in DOMAIN inbox'[i] /\ inbox'[i].reply = c
    BY <1>3 DEF Held, heldAt
  <2>3. CASE inbox' = inbox
    BY <1>3, <2>1, <2>2, <2>3 DEF Held
  <2>4. ASSUME NEW in, repliesTo(in, d), inbox' = Append(inbox, in)
        PROVE  \/ Held(c, k, i) /\ i # Len(inbox) + 1
               \/ i = Len(inbox) + 1 /\ c = d
    <3>1. \/ i \in DOMAIN inbox /\ inbox'[i] = inbox[i]
          \/ i = Len(inbox) + 1 /\ inbox'[i] = in
      BY <2>1, <2>2, <2>4
    <3> QED BY <1>3, <2>1, <2>2, <2>4, <3>1 DEF Held, repliesTo
  <2> QED BY <1>3, <2>3, <2>4 DEF Outside
<1> QED BY <1>1, <1>2, <1>3

\* Such a step moves at most the channel it posts.
LEMMA OutsideKeeps ==
  ASSUME ActorTypeOK, NEW d, Outside(d)
  PROVE  /\ \A c \in Calls : c # d => (Once(c) => Once(c)') /\ (Somewhere(c)' => Somewhere(c))
         /\ d \in Calls /\ ~Somewhere(d) => Once(d)'
<1>0. shift \in {0, 1}
  BY DEF shift
<1>1. ASSUME NEW c \in Calls, c # d, Once(c)
      PROVE  Once(c)'
  <2> SUFFICES ASSUME NEW k, NEW l, NEW i, NEW j, Held(c, k, i)', Held(c, l, j)'
               PROVE  k = l /\ i = j
    BY Zenon DEF Once
  <2>0. \A k1, l1, i1, j1 : Held(c, k1, i1) /\ Held(c, l1, j1) => k1 = l1 /\ i1 = j1
    BY <1>1, Zenon DEF Once
  <2>1. /\ \/ k # "effect" /\ Held(c, k, i)
           \/ k = "effect" /\ i \in Nat \ {0} /\ Held(c, k, i + shift)
        /\ \/ l # "effect" /\ Held(c, l, j)
           \/ l = "effect" /\ j \in Nat \ {0} /\ Held(c, l, j + shift)
    BY <1>1, OutsideHeld
  <2> QED BY <1>0, <2>0, <2>1
<1>2. ASSUME NEW c \in Calls, c # d, Somewhere(c)'
      PROVE  Somewhere(c)
  <2>1. PICK k : \E i : Held(c, k, i)'
    BY <1>2, Zenon DEF Somewhere
  <2>2. PICK i : Held(c, k, i)'
    BY <2>1, Zenon
  <2>3. Held(c, k, i) \/ Held(c, k, i + shift)
    BY <1>2, <2>2, OutsideHeld
  <2> QED BY <2>3, Zenon DEF Somewhere
<1>3. ASSUME d \in Calls, ~Somewhere(d)
      PROVE  Once(d)'
  <2> SUFFICES ASSUME NEW k, NEW l, NEW i, NEW j, Held(d, k, i)', Held(d, l, j)'
               PROVE  k = l /\ i = j
    BY Zenon DEF Once
  <2>0. \A k1, i1 : ~Held(d, k1, i1)
    BY <1>3, Zenon DEF Somewhere
  <2> QED BY <1>3, <2>0, OutsideHeld
<1> QED BY <1>1, <1>2, <1>3

\* Without a channel it makes none.
LEMMA OutsideNoneMade ==
  ASSUME ActorTypeOK, Outside(None)
  PROVE  NoneMade
BY OutsideKeeps, ConstantsOK DEF NoneMade

\* The answer to a call is the last that is heard of its channel.
LEMMA AnsweredGone ==
  ASSUME ActorTypeOK, NextEffect("CompleteReply"), Executed, st' = st, inbox' = inbox,
         NEW c \in Calls, c = Effect1.call, Once(c)
  PROVE  ~Somewhere(c)'
<1>1. effects # <<>> /\ effects \in Seq(Effect) /\ effects' = Tail(effects)
      /\ Effect1 = effects[1] /\ effects[1].type = "CompleteReply"
  BY DEF NextEffect, Executed, ActorTypeOK, Effect1
<1>2. Held(c, "effect", 1)
  BY <1>1 DEF Held, heldAt
<1>3. shift = 1
  BY <1>1 DEF shift
<1>4. Outside(None)
  BY <1>1 DEF Outside, Shrinks
<1> SUFFICES ASSUME Somewhere(c)' PROVE FALSE
  OBVIOUS
<1>5. \A k1, l1, i1, j1 : Held(c, k1, i1) /\ Held(c, l1, j1) => k1 = l1 /\ i1 = j1
  BY Zenon DEF Once
<1>6. PICK k : \E i : Held(c, k, i)'
  BY Zenon DEF Somewhere
<1>7. PICK i : Held(c, k, i)'
  BY <1>6, Zenon
<1>8. \/ k # "effect" /\ Held(c, k, i)
      \/ k = "effect" /\ i \in Nat \ {0} /\ Held(c, k, i + 1)
  BY <1>3, <1>4, <1>7, OutsideHeld, ConstantsOK
<1> QED BY <1>2, <1>5, <1>8


\* The engine half of the runtime.
LEMMA RuntimeOutside ==
  ASSUME IInv,
         EngineStep \/ SendSucceeds \/ (\E x \in sending : SendFails(x)) \/ EngineStimulus
  PROVE  Outside(None)
<1> USE DEF Shrinks, NextEffect, Effect1, Executed
<1>1. CASE StopEngineLocal \/ StopEngineRemote
  BY <1>1 DEF StopEngineLocal, StopEngineRemote, stopEngine, Outside
<1>2. CASE StartEngine \/ \E x \in exiting : ReportExit(x)
  BY <1>2 DEF StartEngine, ReportExit, actorVars, Outside
<1>3. CASE EngineStarted
  <2>1. effects # <<>>
    BY <1>3 DEF EngineStarted, IInv, StartHeld
  <2> QED BY <1>3, <2>1 DEF EngineStarted, Outside
<1>4. CASE EngineStartFails
  <2> DEFINE in == [type |-> "evRunnerExited", mode |-> Effect1.mode, gen |-> Effect1.gen,
                    err |-> "err", run |-> Effect1.gen]
  <2>1. effects # <<>>
    BY <1>4 DEF EngineStartFails, IInv, StartHeld
  <2>2. repliesTo(in, None)
    BY DEF repliesTo
  <2>3. Post(in) /\ st' = st /\ Shrinks
    BY <1>4, <2>1 DEF EngineStartFails
  <2> HIDE DEF in
  <2> QED BY <2>2, <2>3, Puts, Zenon
<1>5. CASE HandleEngineEvent
  <2> DEFINE ev == Head(engineEvents)
  <2>1. ev \in EngineEvent
    BY <1>5 DEF HandleEngineEvent, IInv, TypeOK, EngineTypeOK
  <2> HIDE DEF ev
  <2>2. repliesTo(inputOf(ev), None)
    BY <2>1, EngineEventFields DEF inputOf, repliesTo
  <2>3. Post(inputOf(ev)) /\ st' = st /\ Shrinks
    BY <1>5 DEF HandleEngineEvent, ev
  <2> QED BY <2>2, <2>3, Puts, Zenon
<1>6. CASE EmitKey
  <2> DEFINE in == [type |-> IF pressed = "takeback" THEN "evDesktopTakeback" ELSE "cmdShutdown"]
  <2>1. repliesTo(in, None)
    BY DEF repliesTo
  <2>2. Post(in) /\ st' = st /\ Shrinks
    BY <1>6 DEF EmitKey
  <2> HIDE DEF in
  <2> QED BY <2>1, <2>2, Puts, Zenon
<1>7. CASE EngineRemoteSend \/ EngineRemoteAbort \/ ApplyEngineConfig \/ EngineLocalSendLine
           \/ SetTakebackWatcher
  BY <1>7 DEF EngineRemoteSend, EngineRemoteAbort, ApplyEngineConfig, EngineLocalSendLine,
              SetTakebackWatcher, Outside
<1>8. CASE SendSucceeds \/ \E x \in sends : SendBegins(x)
  BY <1>8 DEF SendSucceeds, SendBegins, actorVars, Outside
<1>9. ASSUME NEW x \in sending, SendFails(x)
      PROVE  Outside(None)
  <2> DEFINE in == [type |-> "evRunnerExited", mode |-> "remote", gen |-> x.gen,
                    err |-> "err", run |-> x.gen]
  <2>1. repliesTo(in, None)
    BY DEF repliesTo
  <2>2. (Post(in) \/ inbox' = inbox) /\ st' = st /\ effects' = effects
    BY <1>9 DEF SendFails
  <2> HIDE DEF in
  <2> QED BY <2>1, <2>2, Puts, Zenon DEF Outside
<1>10. CASE \/ \E m \in Modes, err \in Results : RunExits(m, err)
            \/ \E m \in Modes, token \in Tokens : Identify(m, token)
            \/ \E m \in Modes, w \in BOOLEAN : ReportWorking(m, w)
            \/ \E k \in {"takeback", "shutdown"} : PressKey(k)
  BY <1>10 DEF RunExits, Identify, ReportWorking, ReportFromRun, PressKey, Outside
<1> QED BY <1>1, <1>2, <1>3, <1>4, <1>5, <1>6, <1>7, <1>8, <1>9, <1>10
        DEF EngineStep, EngineStimulus

\* The persistence half and the connection.
LEMMA SyncOutside ==
  ASSUME SyncStep \/ SyncStimulus
  PROVE  Outside(None)
<1> USE DEF Shrinks, NextEffect, Effect1, Executed
<1>1. CASE StartTimer \/ CancelTimer \/ PersistAgentState \/ TimerExpires
  BY <1>1 DEF StartTimer, CancelTimer, PersistAgentState, TimerExpires, Outside
<1>2. /\ repliesTo([type |-> "evTimerFired"], None)
      /\ repliesTo([type |-> "evWSConnected"], None)
      /\ repliesTo([type |-> "evWSDisconnected"], None)
      /\ repliesTo([type |-> "EvAgentStatePersistFailed"], None)
      /\ \A u : repliesTo(answerOf(u), None)
  BY DEF repliesTo, answerOf
<1>3. ASSUME NEW in, repliesTo(in, None), Post(in), st' = st, effects' = effects
      PROVE  Outside(None)
  BY <1>3, Puts, Zenon
<1>4. CASE TimerCallback
  BY <1>2, <1>3, <1>4 DEF TimerCallback
<1>5. CASE Connect \/ Disconnect
  BY <1>2, <1>3, <1>5 DEF Connect, Disconnect
<1>6. ASSUME NEW i \in DOMAIN updates, UpdateArrives(i) \/ UpdateReturns(i) \/ UpdateTimesOut(i)
      PROVE  Outside(None)
  <2>1. CASE UpdateArrives(i)
    BY <2>1 DEF UpdateArrives, actorVars, Outside
  <2>2. CASE UpdateReturns(i) \/ UpdateTimesOut(i)
    BY <1>2, <1>3, <2>2 DEF UpdateReturns, UpdateTimesOut
  <2> QED BY <1>6, <2>1, <2>2
<1>7. CASE \E o \in orphans : OrphanArrives(o)
  BY <1>7 DEF OrphanArrives, actorVars, Outside
<1> QED BY <1>1, <1>4, <1>5, <1>6, <1>7 DEF SyncStep, SyncStimulus

\* AwaitPermission, its effects and the phone.
LEMMA PermissionOutside ==
  ASSUME \/ PermissionStep \/ PermissionStimulus
         \/ \E a, k : AwaitPermission(a, k)
         \/ \E r, v, known : PhoneDecides(r, v, known)
  PROVE  Outside(None)
<1> USE DEF Shrinks, NextEffect, Effect1, Executed
<1>1. CASE SignalAck \/ CompletePermissionDecision \/ EmitPermissionRequest
  BY <1>1 DEF SignalAck, CompletePermissionDecision, EmitPermissionRequest, Outside
<1>2. ASSUME NEW a, AwaitAcknowledged(a) \/ AwaitDecided(a) \/ AwaitCancelled(a)
      PROVE  Outside(None)
  BY <1>2 DEF AwaitAcknowledged, AwaitDecided, AwaitCancelled, actorVars, Outside
<1>3. ASSUME NEW in, repliesTo(in, None), Post(in), st' = st, effects' = effects
      PROVE  Outside(None)
  BY <1>3, Puts, Zenon
<1>4. ASSUME NEW a, AwaitRetries(a) \/ \E k : AwaitPermission(a, k)
      PROVE  Outside(None)
  <2>1. repliesTo([type |-> "cmdPermissionAwait", await |-> a], None)
    BY DEF repliesTo
  <2> QED BY <1>3, <1>4, <2>1 DEF AwaitRetries, AwaitPermission
<1>5. ASSUME NEW r, NEW v, NEW known, PhoneDecides(r, v, known)
      PROVE  Outside(None)
  <2>1. repliesTo([type |-> "cmdPermissionDecision", request |-> r, verdict |-> v], None)
    BY DEF repliesTo
  <2> QED BY <1>3, <1>5, <2>1 DEF PhoneDecides
<1> QED BY <1>1, <1>2, <1>4, <1>5 DEF PermissionStep, PermissionStimulus

----------------------------------------------------------------------------
(* The Manager.                                                            *)

Quietened == {"idle", "accepted", "ok"}

\* Steps that make no channel leave the invariant alone, whatever becomes of a
\* call that is over.
LEMMA CallsKept ==
  ASSUME CallsInv, NoneMade,
         \A c \in Calls : calls'[c].phase \in Quietened => calls[c].phase \in Quietened
  PROVE  CallsInv'
BY Zenon DEF CallsInv, NoneMade, Quietened

\* A call that is in nobody's hands is made, or goes on to its second wait.
LEMMA CallPosted ==
  ASSUME ActorTypeOK, CallsInv, NEW d \in Calls, Outside(d),
         calls[d].phase \in Quietened, calls'[d].phase \notin Quietened,
         \A c \in Calls : c # d => calls'[c] = calls[c]
  PROVE  CallsInv'
<1>1. ~Somewhere(d)
  BY DEF CallsInv, Quietened
<1>2. /\ Once(d)'
      /\ \A c \in Calls : c # d => (Once(c) => Once(c)') /\ (Somewhere(c)' => Somewhere(c))
  BY <1>1, OutsideKeeps
<1>3. ASSUME NEW c \in Calls
      PROVE  Once(c)' /\ (calls'[c].phase \in Quietened => ~Somewhere(c)')
  <2>1. CASE c = d
    BY <1>2, <2>1
  <2>2. CASE c # d
    BY <1>2, <2>2, Zenon DEF CallsInv, Quietened
  <2> QED BY <2>1, <2>2
<1> QED BY <1>3, Zenon DEF CallsInv, Quietened

\* A new call has a channel of its own.
LEMMA BeginKeeps ==
  ASSUME ActorTypeOK, ManagerTypeOK, CallsInv, NEW k, NEW op, NEW model, NEW in,
         begin(k, op, model, in), "reply" \in DOMAIN in, in.reply = newCall
  PROVE  CallsInv'
<1>1. PICK d \in Calls : d = newCall /\ calls[d].phase = "idle"
  BY DEF begin, idleCalls, newCall
<1>2. Outside(d)
  <2>1. repliesTo(in, d)
    BY <1>1 DEF repliesTo
  <2>2. Post(in) /\ st' = st /\ effects' = effects
    BY DEF begin
  <2> QED BY <2>1, <2>2, Puts, Zenon DEF Shrinks
<1>3. /\ calls'[d] = [op |-> op, phase |-> "waiting", model |-> model]
      /\ \A c \in Calls : c # d => calls'[c] = calls[c]
  BY <1>1 DEF begin, ManagerTypeOK
<1>4. calls[d].phase \in Quietened /\ calls'[d].phase \notin Quietened
  BY <1>1, <1>3 DEF Quietened
<1> QED BY <1>2, <1>3, <1>4, CallPosted

\* The Manager and those who call it.
LEMMA ManagerKeeps ==
  ASSUME ActorTypeOK, ManagerTypeOK, CallsInv, ManagerStep \/ ManagerStimulus
  PROVE  CallsInv'
<1>1. ASSUME NEW target \in Modes, SwitchMode(target)
      PROVE  CallsInv'
  BY <1>1, BeginKeeps DEF SwitchMode
<1>2. CASE SendUserMessage
  BY <1>2, BeginKeeps DEF SendUserMessage
<1>3. CASE AbortRemote
  BY <1>3, BeginKeeps DEF AbortRemote
<1>4. ASSUME NEW req \in ConfigRequests, SetAgentConfig(req)
      PROVE  CallsInv'
  BY <1>4, BeginKeeps DEF SetAgentConfig
<1>5. ASSUME NEW c \in Calls, AwaitConfigPersisted(c)
      PROVE  CallsInv'
  <2> DEFINE in == [type |-> "cmdWaitForAgentStatePersist", reply |-> c]
  <2>1. Outside(c)
    <3>1. repliesTo(in, c)
      BY DEF repliesTo
    <3>2. Post(in) /\ st' = st /\ effects' = effects
      BY <1>5 DEF AwaitConfigPersisted
    <3> HIDE DEF in
    <3> QED BY <3>1, <3>2, Puts, Zenon DEF Shrinks
  <2>2. /\ calls[c].phase = "accepted" /\ calls'[c].phase = "persisting"
        /\ \A b \in Calls : b # c => calls'[b] = calls[b]
    BY <1>5 DEF AwaitConfigPersisted, ManagerTypeOK, Call
  <2>3. calls[c].phase \in Quietened /\ calls'[c].phase \notin Quietened
    BY <2>2 DEF Quietened
  <2> QED BY <2>1, <2>2, <2>3, CallPosted
<1>6. ASSUME NEW c \in Calls, ConfigTimesOut(c)
      PROVE  CallsInv'
  <2>1. Outside(None)
    BY <1>6 DEF ConfigTimesOut, Outside, Shrinks
  <2>2. \A b \in Calls : calls'[b].phase \in Quietened => calls[b].phase \in Quietened
    BY <1>6 DEF ConfigTimesOut, ManagerTypeOK, Call, Quietened
  <2> QED BY <2>1, <2>2, OutsideNoneMade, CallsKept, Zenon
<1>7. CASE CompleteReply
  <2> DEFINE e == Effect1.call
  <2>1. Outside(None) /\ st' = st /\ inbox' = inbox
    BY <1>7 DEF CompleteReply, NextEffect, Executed, Outside, Shrinks
  <2>2. NoneMade
    BY <2>1, OutsideNoneMade
  <2>3. \A c \in Calls : c # e => calls'[c] = calls[c]
    BY <1>7 DEF CompleteReply, ManagerTypeOK
  <2>4. ASSUME NEW c \in Calls
        PROVE  Once(c)' /\ (calls'[c].phase \in Quietened => ~Somewhere(c)')
    <3>1. CASE c = e
      <4>1. ~Somewhere(c)'
        BY <1>7, <2>1, <3>1, AnsweredGone DEF CompleteReply, CallsInv
      <4> QED BY <2>2, <4>1, Zenon DEF NoneMade, CallsInv
    <3>2. CASE c # e
      BY <2>2, <2>3, <3>2, Zenon DEF NoneMade, CallsInv, Quietened
    <3> QED BY <3>1, <3>2
  <2> QED BY <2>4, Zenon DEF CallsInv, Quietened
<1>8. ASSUME Outside(None), calls' = calls
      PROVE  CallsInv'
  BY <1>8, OutsideNoneMade, CallsKept
<1>9. ASSUME NEW in, repliesTo(in, None), Post(in), st' = st, effects' = effects
      PROVE  Outside(None)
  BY <1>9, Puts, Zenon DEF Shrinks
<1>10. CASE InboundUserMessage
  <2>1. repliesTo([type |-> "cmdInboundUserMessage", msg |-> newMessage], None)
    BY DEF repliesTo
  <2> QED BY <1>8, <1>9, <1>10, <2>1 DEF InboundUserMessage
<1>11. CASE StartReadsState
  BY <1>8, <1>11 DEF StartReadsState, Outside, Shrinks
<1>12. ASSUME NEW doc \in snapshot, StartPersistsState(doc)
       PROVE  CallsInv'
  <2>1. repliesTo([type |-> "cmdPersistAgentStateImmediate", doc |-> doc], None)
    BY DEF repliesTo
  <2> QED BY <1>8, <1>9, <1>12, <2>1 DEF StartPersistsState
<1> QED BY <1>1, <1>2, <1>3, <1>4, <1>5, <1>6, <1>7, <1>10, <1>11, <1>12
        DEF ManagerStep, ManagerStimulus


----------------------------------------------------------------------------
(* The theorem.                                                            *)

\* Nobody has called yet.
LEMMA CallsInvInit == Init => CallsInv
<1> SUFFICES ASSUME Init, NEW c \in Calls PROVE Once(c) /\ ~Somewhere(c)
  BY DEF CallsInv
<1>1. /\ inbox = <<>> /\ effects = <<>>
      /\ st.PersistWaiters = <<>> /\ st.PendingSwitchReply = None
  BY DEF Init, ActorInit, InitialState
<1>2. \A k, i : ~Held(c, k, i)
  BY <1>1, ConstantsOK DEF Held, heldAt
<1> QED BY <1>2, Zenon DEF Once, Somewhere

\* Every step keeps the invariant.
LEMMA CallsInvNext ==
  ASSUME IInv, CallsInv, [Next]_vars
  PROVE  CallsInv'
<1>1. ActorTypeOK /\ ManagerTypeOK
  BY DEF IInv, TypeOK
<1>2. ASSUME NoneMade, calls' = calls
      PROVE  CallsInv'
  BY <1>2, CallsKept
<1>3. ASSUME Outside(None), calls' = calls
      PROVE  CallsInv'
  BY <1>1, <1>2, <1>3, OutsideNoneMade
<1>4. CASE LoopStep
  BY <1>1, <1>2, <1>4, ReduceCalls DEF LoopStep, managerVars
<1>5. CASE RuntimeStep \/ (EngineStimulus /\ engineOnly)
  BY <1>3, <1>5, RuntimeOutside DEF RuntimeStep, engineOnly, managerVars
<1>6. CASE (SyncStep \/ SyncStimulus) /\ syncOnly
  BY <1>3, <1>6, SyncOutside DEF syncOnly, managerVars
<1>7. CASE (PermissionStep \/ PermissionStimulus) /\ permissionOnly
  BY <1>3, <1>7, PermissionOutside DEF permissionOnly, managerVars
<1>8. CASE \E r \in Requests, v \in {"allow", "deny"} :
             PhoneDecides(r, v, server.json.doc.requests) /\ permissionOnly
  BY <1>3, <1>8, PermissionOutside, Zenon DEF permissionOnly, managerVars
<1>9. CASE (ManagerStep \/ ManagerStimulus) /\ managerOnly
  BY <1>1, <1>9, ManagerKeeps
<1>10. CASE SendResumes
  BY <1>3, <1>10 DEF SendResumes, actorVars, Outside, Shrinks
<1>11. CASE \E a \in Awaits : EngineAsks(a) \/ SendAsks(a)
  <2>1. \E a, k : AwaitPermission(a, k)
    BY <1>11 DEF EngineAsks, SendAsks
  <2>2. calls' = calls
    BY <1>11 DEF EngineAsks, SendAsks, managerVars
  <2> QED BY <1>3, <2>1, <2>2, PermissionOutside
<1>12. CASE UNCHANGED vars
  BY <1>3, <1>12 DEF vars, actorVars, managerVars, Outside, Shrinks
<1> QED BY <1>4, <1>5, <1>6, <1>7, <1>8, <1>9, <1>10, <1>11, <1>12
        DEF Next, Internal, Stimulus

\* A set all of whose members are equal has one at most.
LEMMA OneAtMost ==
  ASSUME NEW S, \A i, j \in S : i = j
  PROVE  Cardinality(S) \in {0, 1} /\ (Cardinality(S) = 1 => S # {})
<1>1. CASE S = {}
  BY <1>1, FS_EmptySet
<1>2. CASE S # {}
  <2>1. PICK x : S = {x}
    BY <1>2
  <2> QED BY <1>2, <2>1, FS_Singleton
<1> QED BY <1>1, <1>2

\* What the invariant is for: the channel is counted where it is held.
LEMMA CallsInvSuffices ==
  ASSUME CallsInv
  PROVE  AnsweredOnce
<1> SUFFICES ASSUME NEW c \in Calls
             PROVE  /\ occurrences(c) <= 1
                    /\ calls[c].phase \in {"idle", "accepted", "ok"} => occurrences(c) = 0
  BY DEF AnsweredOnce
<1> DEFINE M == {i \in DOMAIN inbox : "reply" \in DOMAIN inbox[i] /\ inbox[i].reply = c}
           E == {i \in DOMAIN effects : effects[i].type = "CompleteReply" /\ effects[i].call = c}
           W == {i \in DOMAIN st.PersistWaiters : st.PersistWaiters[i] = c}
           s == IF st.PendingSwitchReply = c THEN 1 ELSE 0
<1>1. /\ \A i \in M : Held(c, "mail", i)
      /\ \A i \in E : Held(c, "effect", i)
      /\ \A i \in W : Held(c, "waiter", i)
      /\ s = 1 => Held(c, "switch", 0)
  BY DEF Held, heldAt
<1>2. occurrences(c) = Cardinality(M) + Cardinality(E) + Cardinality(W) + s /\ s \in {0, 1}
  BY DEF occurrences
<1> HIDE DEF M, E, W, s
<1>3. \A k, l, i, j : Held(c, k, i) /\ Held(c, l, j) => k = l /\ i = j
  BY Zenon DEF CallsInv, Once
<1>4. /\ \A i, j \in M : i = j
      /\ \A i, j \in E : i = j
      /\ \A i, j \in W : i = j
  BY <1>1, <1>3, Zenon
<1>5. /\ Cardinality(M) \in {0, 1} /\ (Cardinality(M) = 1 => \E i : Held(c, "mail", i))
      /\ Cardinality(E) \in {0, 1} /\ (Cardinality(E) = 1 => \E i : Held(c, "effect", i))
      /\ Cardinality(W) \in {0, 1} /\ (Cardinality(W) = 1 => \E i : Held(c, "waiter", i))
  <2>1. Cardinality(M) \in {0, 1} /\ (Cardinality(M) = 1 => M # {})
    BY <1>4, OneAtMost
  <2>2. Cardinality(E) \in {0, 1} /\ (Cardinality(E) = 1 => E # {})
    BY <1>4, OneAtMost
  <2>3. Cardinality(W) \in {0, 1} /\ (Cardinality(W) = 1 => W # {})
    BY <1>4, OneAtMost
  <2> QED BY <1>1, <2>1, <2>2, <2>3
\* No two of the four terms are 1.
<1>6. ASSUME NEW k, NEW l, \E i : Held(c, k, i), \E j : Held(c, l, j)
      PROVE  k = l
  BY <1>3, <1>6, Zenon
<1>7. occurrences(c) <= 1
  <2>1. /\ Cardinality(M) = 0 \/ Cardinality(E) = 0
        /\ Cardinality(M) = 0 \/ Cardinality(W) = 0
        /\ Cardinality(M) = 0 \/ s = 0
        /\ Cardinality(E) = 0 \/ Cardinality(W) = 0
        /\ Cardinality(E) = 0 \/ s = 0
        /\ Cardinality(W) = 0 \/ s = 0
    <3>1. "mail" # "effect" /\ "mail" # "waiter" /\ "mail" # "switch" /\ "effect" # "waiter"
          /\ "effect" # "switch" /\ "waiter" # "switch"
      OBVIOUS
    <3>2. s = 1 => \E i : Held(c, "switch", i)
      BY <1>1
    <3> QED BY <1>2, <1>5, <1>6, <3>1, <3>2
  <2> QED BY <1>2, <1>5, <2>1
<1>8. ASSUME calls[c].phase \in {"idle", "accepted", "ok"}
      PROVE  occurrences(c) = 0
  <2>1. \A k, i : ~Held(c, k, i)
    BY <1>8, Zenon DEF CallsInv, Somewhere
  <2> QED BY <1>1, <1>2, <1>5, <2>1
<1> QED BY <1>7, <1>8

\* A caller of the Manager gets one answer at most: its reply channel is in one
\* place at a time, from the mailbox through a pending switch or the queue of
\* those that wait for the persistence to the effect that fills it, and in none
\* once the caller knows of its success.
THEOREM RepliesOnce == Spec => []AnsweredOnce
<1>1. IInv /\ CallsInv /\ [Next]_vars => IInv' /\ CallsInv'
  BY NextType, CallsInvNext
<1>2. CallsInv => AnsweredOnce
  BY CallsInvSuffices
<1> QED BY <1>1, <1>2, InitType, CallsInvInit, PTL DEF Spec
================================================================================
