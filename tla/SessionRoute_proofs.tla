------------------------- MODULE SessionRoute_proofs -------------------------
(***************************************************************************)
(* Proofs about SessionRoute, for any bounds on calls, failures and users:  *)
(* the types of the route, and that it delivers to the panel nothing but    *)
(* what the host of some document sent, so that what RuntimeStream_proofs    *)
(* proves of every delivery holds of the real one.                          *)
(***************************************************************************)
EXTENDS SessionRoute, RuntimeStream_proofs

-----------------------------------------------------------------------------
(* The inductive invariant *)

\* What may be in a queue to the panel: answers, and what the host has sent.
Sendable ==
  AnswerType \cup hellos \cup UNION {{Envelope(ep, n) : n \in DOMAIN sent[ep]} : ep \in Epochs}

OffscreenTyped ==
  /\ up \in BOOLEAN
  /\ run \in [active : BOOLEAN, call : CallIds, stopping : BOOLEAN]
  /\ calls \in SUBSET CallType
  /\ wire \in Seq(Sendable)

\* The worker caches no hello but one that was sent.
WorkerTyped ==
  /\ worker \in [phase : {"cold", "greeting", "recovering", "ready"}, hello : hellos \cup {NoHello}]
  /\ accepted \in BOOLEAN
  /\ replies \in SUBSET AnswerType

PortTyped ==
  /\ port \in [state : {"closed", "opened", "binding", "bound"}, busy : CallIds,
               greeted : SUBSET Epochs, seen : [Epochs -> Nat]]
  /\ toWorker \in Seq(CallType)
  /\ toPanel \in Seq(Sendable)
  /\ port.state = "closed" => port = ClosedPort /\ toWorker = <<>> /\ toPanel = <<>>
  /\ port.busy # NoCall => port.state = "bound"

ClientTyped ==
  /\ attached \in {NoEpoch} \cup Epochs
  /\ presence \in [epoch : {NoEpoch} \cup Epochs, present : BOOLEAN, prior : BOOLEAN]
  /\ recovery \in CycleType /\ resync \in CycleType
  /\ prompt \in [id : CallIds, abort : CallIds, active : {"none", "queued", "running"}]

SpentTyped ==
  /\ spent \in [DOMAIN Budget -> Nat]
  /\ \A kind \in DOMAIN Budget : spent[kind] <= Budget[kind]

RouteInv ==
  StreamInv /\ OffscreenTyped /\ WorkerTyped /\ PortTyped /\ ClientTyped /\ SpentTyped

-----------------------------------------------------------------------------
(* The route is a delivery of RuntimeStream *)

\* What is no answer comes from the host.
LEMMA SentByHost ==
  ASSUME StreamInv, NEW m \in Sendable, ~IsAnswer(m)
  PROVE  /\ m.type = "hello" => m \in hellos
         /\ m.type # "hello" => \E ep \in Epochs : \E n \in DOMAIN sent[ep] : m = Envelope(ep, n)
<1>1. m \notin AnswerType BY DEF IsAnswer, AnswerType
<1>2. CASE m \in hellos
  BY <1>2 DEF StreamInv, TypeOK, HelloType
<1>3. CASE \E ep \in Epochs : \E n \in DOMAIN sent[ep] : m = Envelope(ep, n)
  <2>1. PICK ep \in Epochs : \E n \in DOMAIN sent[ep] : m = Envelope(ep, n) BY <1>3
  <2>2. PICK n \in DOMAIN sent[ep] : m = Envelope(ep, n) BY <2>1
  <2>3. m.type \in Types BY <2>2, EnvelopeTyped DEF StreamInv, EntryType
  <2> QED BY <1>3, <2>3 DEF Types
<1> QED BY <1>1, <1>2, <1>3 DEF Sendable

\* Whatever request it handles, the host takes one of its own steps or none.
LEMMA HandleCallSteps ==
  ASSUME HandleCall
  PROVE  [Next]_vars
<1>1. PICK c \in calls :
        HandleConnect(c) \/ HandleRead(c) \/ HandleCreate(c) \/ HandlePrompt(c) \/ HandleAbort(c)
        \/ Refuse(c)
  BY DEF HandleCall
<1>2. EmitHello \/ SendSnapshot \/ Open(0) \/ Open(1) \/ AnnounceExecution(1) \/ UNCHANGED vars
  BY <1>1 DEF HandleConnect, HandleRead, HandleCreate, HandlePrompt, HandleAbort, Refuse
<1> QED BY <1>2 DEF Next, HostNext

\* Every step of the route is one of RuntimeStream or none.
LEMMA RouteSteps ==
  ASSUME RouteInv, [RouteNext]_routeVars
  PROVE  [Next]_vars
<1>1. CASE UNCHANGED routeVars BY <1>1 DEF routeVars
<1>2. CASE AgentAnnounces \/ SaveCheckpoint
  BY <1>2 DEF AgentAnnounces, SaveCheckpoint, Next, HostNext
<1>3. CASE HandleCall BY <1>3, HandleCallSteps
<1>4. CASE PromptSucceeds \/ PromptStops
  <2>1. \E raised \in {0, 1} : EndExecution(raised)
    BY <1>4 DEF PromptSucceeds, PromptStops, FinishPrompt
  <2> QED BY <2>1 DEF Next, HostNext
<1>5. CASE OffscreenDies \/ RouteStream \/ PortDrops \/ WorkerDies \/ Reconnect
           \/ RecoveryTimeout \/ ResyncTimeout \/ EnsureConnected \/ SendPrompt \/ AbortActive
  BY <1>5 DEF OffscreenDies, RouteStream, PortDrops, WorkerDies, Reconnect,
     RecoveryTimeout, ResyncTimeout, EnsureConnected, SendPrompt, AbortActive
<1>6. CASE WorkerStarts
  <2>1. Restart \/ UNCHANGED vars
    BY <1>6 DEF WorkerStarts, Initialize, RecoverAccepted, FinishRecovery
  <2> QED BY <2>1 DEF Next, HostNext
<1>7. CASE WorkerServes
  BY <1>7 DEF WorkerServes, BindRoute, FinishBind, ForwardRequest, Respond
<1>8. CASE ReopenPanel BY <1>8 DEF ReopenPanel, Next, PanelNext
<1>9. CASE PanelReceivesHello
  <2>1. Head(toPanel) \in Sendable BY <1>9 DEF PanelReceivesHello, RouteInv, PortTyped
  <2>2. Head(toPanel) \in hellos
    BY <1>9, <2>1, SentByHost DEF PanelReceivesHello, RouteInv, IsAnswer
  <2> QED BY <1>9, <2>2 DEF PanelReceivesHello, Next, PanelNext
<1>10. CASE PanelReceivesEnvelope
  <2>1. toPanel # <<>> /\ ~IsAnswer(Head(toPanel)) /\ Head(toPanel).type # "hello"
        /\ Receive(Head(toPanel))
    BY <1>10 DEF PanelReceivesEnvelope
  <2>2. Head(toPanel) \in Sendable BY <2>1 DEF RouteInv, PortTyped
  <2>3. \E ep \in Epochs : \E n \in DOMAIN sent[ep] : Head(toPanel) = Envelope(ep, n)
    BY <2>1, <2>2, SentByHost DEF RouteInv
  <2> QED BY <2>1, <2>3 DEF Next, PanelNext
<1>11. CASE PanelReceivesAnswer BY <1>11 DEF PanelReceivesAnswer
<1> QED
  BY <1>1, <1>2, <1>3, <1>4, <1>5, <1>6, <1>7, <1>8, <1>9, <1>10, <1>11
     DEF RouteNext, PanelReceives

-----------------------------------------------------------------------------
(* Queues *)

\* The host never takes back what it sent.
LEMMA StreamStep ==
  ASSUME StreamInv, [Next]_vars
  PROVE  Grows /\ hellos \subseteq hellos' /\ StreamInv'
<1>1. TypeOK BY DEF StreamInv
<1>2. StreamInv' BY StreamInvKept
<1>3. CASE HostNext
  <2>1. Grows BY <1>3, HostSteps DEF HostEffect
  <2>2. hellos \subseteq hellos'
    BY <1>3 DEF HostNext, Open, EmitHello, Announce, EmitQueued, BeginMutation, FailMutation,
       FinishMutation, SendSnapshot, AnnounceExecution, EndExecution, Checkpoint, Restart
  <2> QED BY <1>2, <2>1, <2>2
<1>4. CASE ~HostNext
  <2>1. sent' = sent /\ hellos' = hellos
    BY <1>4 DEF Next, PanelNext, ReceiveHello, Receive, Reopen, vars
  <2> QED BY <1>1, <1>2, <2>1, QuietGrows
<1> QED BY <1>3, <1>4

\* What could be sent once can be sent for ever.
LEMMA SendableKept ==
  ASSUME StreamInv, [Next]_vars
  PROVE  Sendable \subseteq Sendable'
<1>1. Grows /\ hellos \subseteq hellos' BY StreamStep
<1>2. ASSUME NEW ep \in Epochs, NEW n \in DOMAIN sent[ep]
      PROVE  n \in DOMAIN sent'[ep] /\ Envelope(ep, n) = Envelope(ep, n)'
  <2>1. sent[ep] \in Seq(EntryType) /\ sent'[ep] \in Seq(EntryType)
    BY <1>1 DEF StreamInv, TypeOK, Grows
  <2>2. n \in 1..Len(sent[ep]) BY <2>1
  <2>3. sent'[ep][n] = sent[ep][n] /\ Len(sent'[ep]) >= Len(sent[ep]) BY <1>1, <2>2 DEF Grows
  <2> QED BY <2>1, <2>2, <2>3 DEF Envelope
<1>3. UNION {{Envelope(ep, n) : n \in DOMAIN sent[ep]} : ep \in Epochs}
      \subseteq UNION {{Envelope(ep, n)' : n \in DOMAIN sent'[ep]} : ep \in Epochs}
  BY <1>2
<1> QED BY <1>1, <1>3 DEF Sendable

\* A queue stays in its type as the type grows.
LEMMA QueueKept ==
  ASSUME NEW S, NEW T, S \subseteq T, NEW queue \in Seq(S)
  PROVE  queue \in Seq(T)
OBVIOUS

\* Appending keeps the type.
LEMMA Appended ==
  ASSUME NEW S, NEW queue \in Seq(S), NEW more \in Seq(S)
  PROVE  queue \o more \in Seq(S)
OBVIOUS

\* An answer is typed, alone and as the queue AnswerTo makes of it.
LEMMA AnswersTyped ==
  ASSUME NEW id \in CallIds, NEW ok \in BOOLEAN
  PROVE  Answer(id, ok) \in AnswerType /\ AnswerTo(id, ok) \in Seq(AnswerType)
<1>1. Answer(id, ok) \in AnswerType BY DEF Answer, AnswerType
<1> QED BY <1>1 DEF AnswerTo

\* An answer in a queue to the panel is typed.
LEMMA QueuedAnswer ==
  ASSUME StreamInv, NEW m \in Sendable, IsAnswer(m)
  PROVE  m \in AnswerType
<1>1. m \notin hellos BY DEF StreamInv, TypeOK, HelloType, IsAnswer
<1>2. ASSUME NEW ep \in Epochs, NEW n \in DOMAIN sent[ep] PROVE m # Envelope(ep, n)
  BY EnvelopeTyped DEF StreamInv, EntryType, Types, IsAnswer
<1> QED BY <1>1, <1>2 DEF Sendable

\* What enqueueStream appends is what the host has just sent.
LEMMA NewEnvelopesTyped ==
  ASSUME StreamInv, [Next]_vars
  PROVE  NewEnvelopes \in Seq(Sendable')
<1>1. Grows /\ StreamInv' BY StreamStep
<1>2. epoch \in Epochs /\ sent[epoch] \in Seq(EntryType) /\ sent'[epoch] \in Seq(EntryType)
      /\ Len(sent'[epoch]) >= Seq0
  BY <1>1 DEF StreamInv, TypeOK, Grows, Seq0
<1>3. Len(sent'[epoch]) - Seq0 \in Nat BY <1>2 DEF Seq0
<1>4. ASSUME NEW i \in 1..(Len(sent'[epoch]) - Seq0)
      PROVE  AsEnvelope(sent'[epoch][Seq0 + i], epoch, Seq0 + i) \in Sendable'
  <2>1. Seq0 + i \in DOMAIN sent'[epoch] BY <1>2, <1>3 DEF Seq0
  <2> QED BY <1>2, <2>1 DEF Sendable, Envelope
<1> QED BY <1>3, <1>4 DEF NewEnvelopes

\* What is published behind the streamTail can go to the panel.
LEMMA PublishesTyped ==
  ASSUME StreamInv, [Next]_vars, wire \in Seq(Sendable), NEW answer \in Seq(AnswerType),
         Publishes(answer)
  PROVE  wire' \in Seq(Sendable')
<1>1. wire \in Seq(Sendable') BY SendableKept, QueueKept
<1>2. answer \in Seq(Sendable') BY QueueKept DEF Sendable
<1>3. NewEnvelopes \in Seq(Sendable') BY NewEnvelopesTyped
<1> QED BY <1>1, <1>2, <1>3 DEF Publishes

\* Forgetting a request only replaces its id.
LEMMA ForgetTyped ==
  ASSUME StreamInv, OffscreenTyped, NEW ids, NEW stream \in Seq(Sendable), Forget(ids, stream),
         UNCHANGED <<epoch, sent, hellos>>
  PROVE  calls' \in SUBSET CallType /\ wire' \in Seq(Sendable')
         /\ run' \in [active : BOOLEAN, call : CallIds, stopping : BOOLEAN]
<1>1. NoCall \in CallIds BY CallsAssumption DEF NoCall, CallIds
<1>2. calls' \in SUBSET CallType
  BY <1>1 DEF Forget, OffscreenTyped, CallType
<1>3. run' \in [active : BOOLEAN, call : CallIds, stopping : BOOLEAN]
  BY <1>1 DEF Forget, OffscreenTyped
<1>4. Sendable' = Sendable BY DEF Sendable, Envelope
<1>5. wire' \in Seq(Sendable)
  <2> DEFINE Left(i) == IF IsAnswer(stream[i]) /\ stream[i].call \in ids
                        THEN Answer(NoCall, FALSE) ELSE stream[i]
  <2>1. Answer(NoCall, FALSE) \in Sendable BY <1>1, AnswersTyped DEF Sendable
  <2>2. Len(stream) \in Nat /\ DOMAIN stream = 1..Len(stream) OBVIOUS
  <2>3. \A i \in 1..Len(stream) : stream[i] \in Sendable OBVIOUS
  <2>4. \A i \in 1..Len(stream) : Left(i) \in Sendable BY <2>1, <2>3
  <2>5. wire' = [i \in 1..Len(stream) |-> Left(i)] BY <2>2 DEF Forget
  <2> HIDE DEF Left
  <2> QED BY <2>2, <2>4, <2>5
<1> QED BY <1>2, <1>3, <1>4, <1>5

\* A new request takes an id of its own.
LEMMA FreshCallTyped ==
  ASSUME CanCall
  PROVE  FreshCall \in CallIds /\ FreshCall # NoCall /\ FreshCall \notin Used
<1>1. \E id \in PanelCalls : id \notin Used BY DEF CanCall
<1>2. FreshCall \in PanelCalls /\ FreshCall \notin Used BY <1>1 DEF FreshCall
<1> QED BY <1>2, CallsAssumption DEF PanelCalls, CallIds, NoCall

-----------------------------------------------------------------------------
(* Types *)

\* What every step of the route keeps, as one of RuntimeStream.
LEMMA StreamPart ==
  ASSUME RouteInv, [RouteNext]_routeVars
  PROVE  /\ StreamInv /\ [Next]_vars /\ StreamInv'
         /\ Sendable \subseteq Sendable' /\ hellos \subseteq hellos'
         /\ wire \in Seq(Sendable') /\ toPanel \in Seq(Sendable')
<1>1. StreamInv /\ [Next]_vars BY RouteSteps DEF RouteInv
<1>2. Sendable \subseteq Sendable' /\ hellos \subseteq hellos' /\ StreamInv'
  BY <1>1, SendableKept, StreamStep
<1>3. wire \in Seq(Sendable) /\ toPanel \in Seq(Sendable)
  BY DEF RouteInv, OffscreenTyped, PortTyped
<1> QED BY <1>1, <1>2, <1>3, QueueKept

\* Every id a request may have.
LEMMA Ids ==
  /\ {NoCall, ConnectCall, RecoverCall} \subseteq CallIds
  /\ PanelCalls \subseteq CallIds
BY CallsAssumption DEF NoCall, ConnectCall, RecoverCall, PanelCalls, CallIds

\* What the host sends has an epoch and a number.
LEMMA SentHasCursor ==
  ASSUME StreamInv, NEW m \in Sendable, ~IsAnswer(m)
  PROVE  m.epoch \in Epochs /\ m.seq \in Nat
<1>1. CASE m.type = "hello"
  BY <1>1, SentByHost DEF StreamInv, TypeOK, HelloType
<1>2. CASE m.type # "hello"
  <2>1. PICK ep \in Epochs : \E n \in DOMAIN sent[ep] : m = Envelope(ep, n) BY <1>2, SentByHost
  <2>2. PICK n \in DOMAIN sent[ep] : m = Envelope(ep, n) BY <2>1
  <2>3. n \in Nat BY DEF StreamInv, TypeOK
  <2> QED BY <2>2, <2>3 DEF Envelope, AsEnvelope, Stream
<1> QED BY <1>1, <1>2

\* Spending stays within the bounds.
LEMMA SpendsTyped ==
  ASSUME SpentTyped, NEW kind \in DOMAIN Budget, Spends(kind)
  PROVE  SpentTyped'
<1>1. \A k \in DOMAIN Budget : Budget[k] \in Nat
  BY SpentAssumption, PromptsAssumption DEF Budget
<1>2. spent \in [DOMAIN Budget -> Nat] /\ spent[kind] < Budget[kind]
      /\ spent' = [spent EXCEPT ![kind] = @ + 1]
      /\ \A k \in DOMAIN Budget : spent[k] <= Budget[k]
  BY DEF SpentTyped, Spends
<1>3. (DOMAIN Budget)' = DOMAIN Budget /\ Budget' = Budget BY DEF Budget
<1>4. \A k \in DOMAIN Budget : spent'[k] \in Nat /\ spent'[k] <= Budget[k]
  BY <1>1, <1>2
<1>5. spent' \in [DOMAIN Budget -> Nat] BY <1>2, <1>4
<1> QED BY <1>3, <1>4, <1>5 DEF SpentTyped

\* The bounds are kept by every step.
LEMMA SpentKept ==
  ASSUME SpentTyped, [RouteNext]_routeVars
  PROVE  SpentTyped'
<1>1. CASE UNCHANGED spent BY <1>1 DEF SpentTyped, Budget
<1>2. CASE \E kind \in DOMAIN Budget : Spends(kind) BY <1>2, SpendsTyped
<1>3. DOMAIN Budget =
        {"announced", "drops", "deaths", "reopens", "timeouts", "prompts", "aborts"}
  BY DEF Budget
<1>4. CASE HandleCall \/ PromptSucceeds \/ PromptStops
  BY <1>1, <1>4 DEF HandleCall, PromptSucceeds, PromptStops, FinishPrompt
<1>5. CASE WorkerStarts \/ WorkerServes
  BY <1>1, <1>5 DEF WorkerStarts, Initialize, RecoverAccepted, FinishRecovery,
     WorkerServes, BindRoute, FinishBind, ForwardRequest, Respond
<1>6. CASE PanelReceives \/ EnsureConnected
  BY <1>1, <1>6 DEF PanelReceives, PanelReceivesHello, PanelReceivesEnvelope,
     PanelReceivesAnswer, EnsureConnected, PanelOnly
<1>7. CASE SaveCheckpoint \/ OffscreenDies \/ RouteStream \/ Reconnect
  BY <1>1, <1>7 DEF SaveCheckpoint, OffscreenDies, RouteStream, Reconnect
<1>8. CASE \/ AgentAnnounces \/ PortDrops \/ WorkerDies \/ ReopenPanel \/ RecoveryTimeout
           \/ ResyncTimeout \/ SendPrompt \/ AbortActive
  BY <1>2, <1>3, <1>8 DEF AgentAnnounces, PortDrops, WorkerDies, ReopenPanel, RecoveryTimeout,
     ResyncTimeout, SendPrompt, AbortActive
<1>9. CASE UNCHANGED routeVars BY <1>1, <1>9 DEF routeVars
<1> QED BY <1>4, <1>5, <1>6, <1>7, <1>8, <1>9 DEF RouteNext

\* What FinishBind, and whatever closes a port, makes of the client's cycles.
LEMMA RejectTyped ==
  ASSUME ClientTyped, RejectPending
  PROVE  /\ recovery' \in CycleType /\ resync' \in CycleType
         /\ prompt' \in [id : CallIds, abort : CallIds, active : {"none", "queued", "running"}]
<1>1. NoCycle \in CycleType BY Ids DEF NoCycle, CycleType
<1>2. prompt' \in [id : CallIds, abort : CallIds, active : {"none", "queued", "running"}]
  BY Ids DEF RejectPending, NoPrompt, ClientTyped
<1> QED BY <1>1, <1>2 DEF RejectPending, Unanswered, ClientTyped

\* A recovery begins with a typed cycle and a typed request.
LEMMA BeginTyped ==
  ASSUME NEW known, known.epoch \in {NoEpoch} \cup Epochs, BeginRecovery(known),
         toWorker \in Seq(CallType)
  PROVE  recovery' \in CycleType /\ toWorker' \in Seq(CallType)
<1>1. FreshCall \in CallIds BY FreshCallTyped DEF BeginRecovery
<1>2. RecoveryOp(known) \in {"attach", "load", "create"} BY DEF RecoveryOp
<1>3. Call(FreshCall, RecoveryOp(known), known.epoch) \in CallType
  BY <1>1, <1>2 DEF Call, CallType
<1> QED BY <1>1, <1>3 DEF BeginRecovery, Posts, Cycle, CycleType

\* The client keeps its types.
LEMMA ClientKept ==
  ASSUME RouteInv, [RouteNext]_routeVars
  PROVE  ClientTyped'
<1> DEFINE Prompts == [id : CallIds, abort : CallIds, active : {"none", "queued", "running"}]
           Presences == [epoch : {NoEpoch} \cup Epochs, present : BOOLEAN, prior : BOOLEAN]
<1>0. /\ attached \in {NoEpoch} \cup Epochs /\ presence \in Presences
      /\ recovery \in CycleType /\ resync \in CycleType /\ prompt \in Prompts
      /\ channel.epoch \in {NoEpoch} \cup Epochs /\ channel.sess.known \in BOOLEAN
      /\ toWorker \in Seq(CallType) /\ toPanel \in Seq(Sendable)
      /\ NoCycle \in CycleType /\ NoPrompt \in Prompts
  BY Ids DEF RouteInv, ClientTyped, PortTyped, StreamInv, TypeOK, SessionType, NoCycle, NoPrompt,
     CycleType
<1>1. CASE UNCHANGED clientVars BY <1>0, <1>1 DEF clientVars, ClientTyped
<1>2. CASE PortDrops \/ WorkerDies
  BY <1>0, <1>2, RejectTyped DEF PortDrops, WorkerDies, RouteInv, ClientTyped
<1>3. CASE FinishBind
  BY <1>0, <1>3, RejectTyped DEF FinishBind, RouteInv, ClientTyped
<1>4. CASE ReopenPanel
  BY <1>0, <1>4 DEF ReopenPanel, ClientTyped, NoPresence
<1>5. CASE PanelReceivesHello
  <2> DEFINE h == Head(toPanel)
             known == [epoch |-> h.epoch, present |-> h.present, prior |-> channel.sess.known]
  <2>1. h \in Sendable /\ h.type = "hello" BY <1>0, <1>5 DEF PanelReceivesHello
  <2>2. h \in HelloType
    BY <2>1, SentByHost DEF RouteInv, StreamInv, TypeOK, IsAnswer
  <2>3. known \in Presences /\ presence' = known
    BY <1>0, <1>5, <2>2 DEF HelloType, PanelReceivesHello
  <2>4. prompt' \in Prompts /\ resync' \in CycleType /\ attached' = NoEpoch
    BY <1>0, <1>5 DEF PanelReceivesHello
  <2>5. recovery' \in CycleType
    BY <1>0, <1>5, <2>2, BeginTyped DEF HelloType, PanelReceivesHello
  <2> QED BY <2>3, <2>4, <2>5 DEF ClientTyped
<1>6. CASE PanelReceivesEnvelope
  <2>1. Head(toPanel) \in Sendable /\ ~IsAnswer(Head(toPanel))
    BY <1>0, <1>6 DEF PanelReceivesEnvelope
  <2>2. Head(toPanel).epoch \in Epochs BY <2>1, SentHasCursor DEF RouteInv
  <2>3. \A cycle \in CycleType, ep \in Epochs : SeenBy(cycle, ep) \in CycleType
    BY <1>0 DEF SeenBy, CycleType
  <2>4. \A e : ActiveAfter(e) \in {"none", "queued", "running"} BY <1>0 DEF ActiveAfter
  <2>5. CanCall => Cycle(channel.epoch, FreshCall) \in CycleType
    BY <1>0, FreshCallTyped DEF Cycle, CycleType
  <2>6. BeginRecovery(presence) => recovery' \in CycleType BY <1>0, BeginTyped
  <2>7. prompt' \in Prompts BY <1>0, <1>6, <2>4 DEF PanelReceivesEnvelope
  <2>8. attached' \in {NoEpoch} \cup Epochs /\ presence' = presence
    BY <1>0, <1>6, <2>2 DEF PanelReceivesEnvelope
  <2>9. recovery' \in CycleType /\ resync' \in CycleType
    BY <1>0, <1>6, <2>2, <2>3, <2>5, <2>6 DEF PanelReceivesEnvelope
  <2> QED BY <1>0, <2>7, <2>8, <2>9 DEF ClientTyped
<1>7. CASE PanelReceivesAnswer
  <2>1. \A cycle \in CycleType : \A a : AnsweredBy(cycle, a) \in CycleType
    BY <1>0 DEF AnsweredBy, CycleType
  <2>2. \A a : AnswersPrompt(a) \in Prompts BY <1>0, Ids DEF AnswersPrompt
  <2>3. recovery.epoch \in {NoEpoch} \cup Epochs BY <1>0 DEF CycleType
  <2> QED BY <1>0, <1>7, <2>1, <2>2, <2>3 DEF PanelReceivesAnswer, ClientTyped
<1>8. CASE RecoveryTimeout BY <1>0, <1>8 DEF RecoveryTimeout, ClientTyped
<1>9. CASE ResyncTimeout
  <2>1. Cycle(channel.epoch, FreshCall) \in CycleType
    BY <1>0, <1>9, FreshCallTyped DEF ResyncTimeout, Cycle, CycleType
  <2> QED BY <1>0, <1>9, <2>1 DEF ResyncTimeout, ClientTyped
<1>10. CASE EnsureConnected
  <2>1. recovery' \in CycleType BY <1>0, <1>10, BeginTyped DEF EnsureConnected
  <2> QED BY <1>0, <1>10, <2>1 DEF EnsureConnected, ClientTyped
<1>11. CASE SendPrompt
  <2>1. FreshCall \in CallIds BY <1>11, FreshCallTyped DEF SendPrompt
  <2> QED BY <1>0, <1>11, <2>1, Ids DEF SendPrompt, ClientTyped
<1>12. CASE AbortActive
  <2>1. FreshCall \in CallIds BY <1>12, FreshCallTyped DEF AbortActive
  <2> QED BY <1>0, <1>12, <2>1 DEF AbortActive, ClientTyped
<1>13. CASE AgentAnnounces \/ SaveCheckpoint \/ HandleCall \/ PromptSucceeds \/ PromptStops
  BY <1>1, <1>13 DEF AgentAnnounces, SaveCheckpoint, HandleCall, PromptSucceeds, PromptStops,
     FinishPrompt, HostOnly
<1>14. CASE OffscreenDies \/ RouteStream \/ Reconnect \/ WorkerStarts
            \/ BindRoute \/ ForwardRequest \/ Respond
  BY <1>1, <1>14 DEF OffscreenDies, RouteStream, Reconnect, WorkerStarts, Initialize,
     RecoverAccepted, FinishRecovery, BindRoute, ForwardRequest, Respond
<1>15. CASE UNCHANGED routeVars BY <1>1, <1>15 DEF routeVars
<1> QED
  BY <1>2, <1>3, <1>4, <1>5, <1>6, <1>7, <1>8, <1>9, <1>10, <1>11, <1>12, <1>13, <1>14, <1>15
     DEF RouteNext, WorkerServes, PanelReceives

\* The worker keeps its types, and caches no hello but one that was sent.
LEMMA WorkerKept ==
  ASSUME RouteInv, [RouteNext]_routeVars
  PROVE  WorkerTyped'
<1> DEFINE Workers(known) == [phase : {"cold", "greeting", "recovering", "ready"},
                              hello : known \cup {NoHello}]
<1>0. /\ worker \in Workers(hellos) /\ worker \in Workers(hellos')
      /\ accepted \in BOOLEAN /\ replies \in SUBSET AnswerType
  BY StreamPart DEF RouteInv, WorkerTyped
<1>1. CASE UNCHANGED workerVars BY <1>0, <1>1 DEF workerVars, WorkerTyped
<1>2. CASE OffscreenDies
  <2>1. \A c \in calls : c.id \in CallIds BY DEF RouteInv, OffscreenTyped, CallType
  <2>2. run.call \in CallIds BY DEF RouteInv, OffscreenTyped
  <2>3. \A i \in DOMAIN wire : IsAnswer(wire[i]) => wire[i].call \in CallIds
    BY QueuedAnswer DEF RouteInv, OffscreenTyped, AnswerType
  <2> DEFINE ids == ({c.id : c \in calls} \cup {run.call}
                     \cup {wire[i].call : i \in {j \in DOMAIN wire : IsAnswer(wire[j])}}) \ {NoCall}
  <2>4. ids \in SUBSET CallIds BY <2>1, <2>2, <2>3
  <2>5. replies' = replies \cup {Answer(id, FALSE) : id \in ids} BY <1>2 DEF OffscreenDies
  <2> HIDE DEF ids
  <2>6. \A id \in ids : Answer(id, FALSE) \in AnswerType BY <2>4, AnswersTyped
  <2>7. replies' \in SUBSET AnswerType BY <1>0, <2>5, <2>6
  <2> QED BY <1>0, <1>2, <2>7 DEF OffscreenDies, WorkerTyped
<1>3. CASE RouteStream
  <2>1. Head(wire) \in Sendable BY <1>3 DEF RouteStream, RouteInv, OffscreenTyped
  <2>2. IsAnswer(Head(wire)) => Head(wire) \in AnswerType
    BY <2>1, QueuedAnswer DEF RouteInv
  <2>3. ~IsAnswer(Head(wire)) /\ Head(wire).type = "hello" => Head(wire) \in hellos'
    BY <2>1, SentByHost, StreamPart DEF RouteInv
  <2>4. accepted' = accepted BY <1>3 DEF RouteStream
  <2>5. CASE IsAnswer(Head(wire))
    BY <1>0, <1>3, <2>2, <2>4, <2>5 DEF RouteStream, WorkerTyped
  <2>6. CASE ~IsAnswer(Head(wire)) /\ Head(wire).type = "hello"
    BY <1>0, <1>3, <2>3, <2>4, <2>6 DEF RouteStream, RouteHello, WorkerTyped
  <2>7. CASE ~IsAnswer(Head(wire)) /\ Head(wire).type # "hello"
    BY <1>0, <1>3, <2>4, <2>7 DEF RouteStream, RouteEnvelope, WorkerTyped
  <2> QED BY <2>5, <2>6, <2>7
<1>4. CASE WorkerStarts
  BY <1>0, <1>4 DEF WorkerStarts, Initialize, RecoverAccepted, FinishRecovery, WorkerTyped
<1>5. CASE FinishBind \/ Respond
  BY <1>0, <1>5 DEF FinishBind, Respond, WorkerTyped
<1>6. CASE PortDrops \/ WorkerDies \/ ReopenPanel
  BY <1>0, <1>6 DEF PortDrops, WorkerDies, ReopenPanel, ColdWorker, WorkerTyped
<1>7. CASE AgentAnnounces \/ SaveCheckpoint \/ HandleCall \/ PromptSucceeds \/ PromptStops
  BY <1>1, <1>7 DEF AgentAnnounces, SaveCheckpoint, HandleCall, PromptSucceeds, PromptStops,
     FinishPrompt, HostOnly
<1>8. CASE Reconnect \/ BindRoute \/ ForwardRequest \/ PanelReceives
  BY <1>1, <1>8 DEF Reconnect, BindRoute, ForwardRequest, PanelReceives, PanelReceivesHello,
     PanelReceivesEnvelope, PanelReceivesAnswer, PanelOnly
<1>9. CASE RecoveryTimeout \/ ResyncTimeout \/ EnsureConnected \/ SendPrompt \/ AbortActive
  BY <1>1, <1>9 DEF RecoveryTimeout, ResyncTimeout, EnsureConnected, SendPrompt, AbortActive,
     PanelOnly
<1>10. CASE UNCHANGED routeVars BY <1>1, <1>10 DEF routeVars
<1> QED
  BY <1>2, <1>3, <1>4, <1>5, <1>6, <1>7, <1>8, <1>9, <1>10 DEF RouteNext, WorkerServes

\* The document keeps its types, and only what was sent is in its streamTail.
LEMMA OffscreenKept ==
  ASSUME RouteInv, [RouteNext]_routeVars
  PROVE  OffscreenTyped'
<1> DEFINE Runs == [active : BOOLEAN, call : CallIds, stopping : BOOLEAN]
<1>0. /\ up \in BOOLEAN /\ run \in Runs /\ calls \in SUBSET CallType
      /\ wire \in Seq(Sendable) /\ wire \in Seq(Sendable')
      /\ StreamInv /\ [Next]_vars /\ OffscreenTyped
  BY StreamPart DEF RouteInv, OffscreenTyped
<1>1. CASE UNCHANGED offscreenVars BY <1>0, <1>1 DEF offscreenVars, OffscreenTyped
<1>2. CASE AgentAnnounces
  <2>1. <<>> \in Seq(AnswerType) /\ Publishes(<<>>) BY <1>2 DEF AgentAnnounces
  <2>2. wire' \in Seq(Sendable') BY <1>0, <2>1, PublishesTyped
  <2> QED BY <1>0, <1>2, <2>2 DEF AgentAnnounces, HostOnly, OffscreenTyped
<1>3. CASE HandleCall
  <2>1. PICK c \in calls :
          /\ calls' = calls \ {c}
          /\ \/ HandleConnect(c) \/ HandleRead(c) \/ HandleCreate(c)
             \/ HandlePrompt(c) \/ HandleAbort(c) \/ Refuse(c)
          /\ HostOnly
    BY <1>3 DEF HandleCall
  <2>2. c.id \in CallIds BY <1>0 DEF CallType
  <2>3. \A ok \in BOOLEAN : AnswerTo(c.id, ok) \in Seq(AnswerType) BY <2>2, AnswersTyped
  <2>4. <<>> \in Seq(AnswerType) OBVIOUS
  <2>10. /\ AnswerTo(c.id, TRUE) \in Seq(Sendable')
         /\ AnswerTo(c.id, FALSE) \in Seq(Sendable')
    <3>1. AnswerType \subseteq Sendable' BY DEF Sendable
    <3>2. AnswerTo(c.id, TRUE) \in Seq(AnswerType) /\ AnswerTo(c.id, FALSE) \in Seq(AnswerType)
      BY <2>3
    <3> QED BY <3>1, <3>2, QueueKept
  <2>5. CASE HandleConnect(c)
    <3>1. Cursor \in hellos' BY <2>5 DEF HandleConnect, EmitHello
    <3>2. <<Cursor>> \in Seq(Sendable') BY <3>1 DEF Sendable
    <3>3. wire' = wire \o <<Cursor>> \o AnswerTo(c.id, TRUE) BY <2>5 DEF HandleConnect
    <3>4. wire' \in Seq(Sendable') BY <1>0, <2>10, <3>2, <3>3, Appended
    <3> QED BY <1>0, <2>1, <2>5, <3>4 DEF HandleConnect, HostOnly, OffscreenTyped
  <2>6. CASE HandleRead(c) \/ HandleCreate(c)
    <3>1. Publishes(AnswerTo(c.id, TRUE)) /\ run' = run BY <2>6 DEF HandleRead, HandleCreate
    <3>2. wire' \in Seq(Sendable') BY <1>0, <2>3, <3>1, PublishesTyped
    <3> QED BY <1>0, <2>1, <3>1, <3>2 DEF HostOnly, OffscreenTyped
  <2>7. CASE HandlePrompt(c)
    <3>1. wire' \in Seq(Sendable') BY <1>0, <2>4, <2>7, PublishesTyped DEF HandlePrompt
    <3>2. run' \in Runs BY <2>2, <2>7 DEF HandlePrompt
    <3> QED BY <1>0, <2>1, <3>1, <3>2 DEF HostOnly, OffscreenTyped
  <2>8. CASE HandleAbort(c)
    <3>1. (~run.active) \in BOOLEAN OBVIOUS
    <3>2. AnswerTo(c.id, ~run.active) \in Seq(AnswerType) BY <2>3, <3>1
    <3>3. wire' \in Seq(Sendable') BY <1>0, <2>8, <3>2, PublishesTyped DEF HandleAbort
    <3>4. run' \in Runs BY <1>0, <2>8 DEF HandleAbort
    <3> QED BY <1>0, <2>1, <3>3, <3>4 DEF HostOnly, OffscreenTyped
  <2>9. CASE Refuse(c)
    <3>1. wire' = wire \o AnswerTo(c.id, FALSE) BY <2>9 DEF Refuse
    <3>2. wire' \in Seq(Sendable') BY <1>0, <2>10, <3>1, Appended
    <3> QED BY <1>0, <2>1, <2>9, <3>2 DEF Refuse, HostOnly, OffscreenTyped
  <2> QED BY <2>1, <2>5, <2>6, <2>7, <2>8, <2>9
<1>4. CASE PromptSucceeds \/ PromptStops
  <2>1. PICK succeeded \in BOOLEAN : FinishPrompt(succeeded)
    BY <1>4 DEF PromptSucceeds, PromptStops
  <2>2. AnswerTo(run.call, succeeded) \in Seq(AnswerType) BY <1>0, AnswersTyped
  <2>3. wire' \in Seq(Sendable') BY <1>0, <2>1, <2>2, PublishesTyped DEF FinishPrompt
  <2>4. run' \in Runs BY <2>1, Ids DEF FinishPrompt, NoRun
  <2> QED BY <1>0, <2>1, <2>3, <2>4 DEF FinishPrompt, HostOnly, OffscreenTyped
<1>5. CASE OffscreenDies
  <2>1. up' = FALSE /\ calls' = {} /\ wire' = <<>> /\ run' = NoRun BY <1>5 DEF OffscreenDies
  <2>2. <<>> \in Seq(Sendable') OBVIOUS
  <2>3. NoRun \in Runs BY Ids DEF NoRun
  <2> QED BY <2>1, <2>2, <2>3 DEF OffscreenTyped
<1>6. CASE RouteStream
  BY <1>0, <1>6 DEF RouteStream, OffscreenTyped
<1>7. CASE WorkerStarts
  <2>1. Call(ConnectCall, "connect", NoEpoch) \in CallType BY Ids DEF Call, CallType
  <2>2. CASE Initialize \/ FinishRecovery
    BY <1>0, <2>1, <2>2 DEF Initialize, FinishRecovery, offscreenVars, OffscreenTyped
  <2>3. CASE RecoverAccepted
    <3>1. worker.hello # NoHello => worker.hello.epoch \in Epochs
      BY <1>0 DEF RouteInv, WorkerTyped, StreamInv, TypeOK, HelloType
    <3>2. worker.hello # NoHello =>
            Call(RecoverCall, IF worker.hello.present THEN "attach" ELSE "load", worker.hello.epoch)
              \in CallType
      BY <3>1, Ids DEF Call, CallType
    <3> QED BY <1>0, <2>3, <3>2 DEF RecoverAccepted, OffscreenTyped
  <2> QED BY <1>7, <2>2, <2>3 DEF WorkerStarts
<1>8. CASE BindRoute
  <2>1. Call(ConnectCall, "connect", NoEpoch) \in CallType BY Ids DEF Call, CallType
  <2> QED BY <1>0, <1>8, <2>1 DEF BindRoute, OffscreenTyped
<1>9. CASE ForwardRequest
  <2>1. Head(toWorker) \in CallType BY <1>9 DEF ForwardRequest, RouteInv, PortTyped
  <2> QED BY <1>0, <1>9, <2>1 DEF ForwardRequest, OffscreenTyped
<1>10. CASE PortDrops \/ ReopenPanel
  <2>1. Forget({port.busy} \ {NoCall}, wire) /\ up' = up
    BY <1>10 DEF PortDrops, ReopenPanel
  <2>2. UNCHANGED <<epoch, sent, hellos>>
    BY <1>10 DEF PortDrops, ReopenPanel, Reopen, vars, hostVars
  <2> QED BY <1>0, <2>1, <2>2, ForgetTyped DEF OffscreenTyped
<1>11. CASE WorkerDies
  <2>1. PICK stream \in {wire, IF wire = <<>> THEN wire ELSE Tail(wire)} :
          Forget({ConnectCall, RecoverCall} \cup PanelCalls, stream)
    BY <1>11 DEF WorkerDies
  <2>2. stream \in Seq(Sendable) BY <1>0
  <2>3. up' = up /\ UNCHANGED <<epoch, sent, hellos>> BY <1>11 DEF WorkerDies, vars
  <2> QED BY <1>0, <2>1, <2>2, <2>3, ForgetTyped DEF OffscreenTyped
<1>12. CASE SaveCheckpoint \/ Reconnect \/ PanelReceives \/ FinishBind \/ Respond
  BY <1>1, <1>12 DEF SaveCheckpoint, Reconnect, PanelReceives, PanelReceivesHello,
     PanelReceivesEnvelope, PanelReceivesAnswer, PanelOnly, FinishBind, Respond
<1>13. CASE RecoveryTimeout \/ ResyncTimeout \/ EnsureConnected \/ SendPrompt \/ AbortActive
  BY <1>1, <1>13 DEF RecoveryTimeout, ResyncTimeout, EnsureConnected, SendPrompt, AbortActive,
     PanelOnly
<1>14. CASE UNCHANGED routeVars BY <1>1, <1>14 DEF routeVars
<1> QED
  BY <1>2, <1>3, <1>4, <1>5, <1>6, <1>7, <1>8, <1>9, <1>10, <1>11, <1>12, <1>13, <1>14
     DEF RouteNext, WorkerServes

\* The port keeps its types, holds nothing once it is closed, and is busy only
\* once it is bound.
LEMMA PortKept ==
  ASSUME RouteInv, [RouteNext]_routeVars
  PROVE  PortTyped'
<1> DEFINE Ports == [state : {"closed", "opened", "binding", "bound"}, busy : CallIds,
                     greeted : SUBSET Epochs, seen : [Epochs -> Nat]]
<1>0. /\ port \in Ports /\ toWorker \in Seq(CallType) /\ toPanel \in Seq(Sendable')
      /\ port.state = "closed" => port = ClosedPort /\ toWorker = <<>> /\ toPanel = <<>>
      /\ port.busy # NoCall => port.state = "bound"
      /\ StreamInv
  BY StreamPart DEF RouteInv, PortTyped
<1>1. CASE UNCHANGED portVars BY <1>0, <1>1 DEF portVars, PortTyped
\* What each step must leave: the rest of PortTyped follows when it is not closed.
<1>2. ASSUME port' \in Ports, port'.state # "closed", port'.busy # NoCall => port'.state = "bound",
             toWorker' \in Seq(CallType), toPanel' \in Seq(Sendable')
      PROVE  PortTyped'
  BY <1>2 DEF PortTyped
<1>3. ASSUME ClosePort PROVE PortTyped'
  <2>1. ClosedPort \in Ports /\ ClosedPort.busy = NoCall BY Ids DEF ClosedPort
  <2>2. <<>> \in Seq(CallType) /\ <<>> \in Seq(Sendable') OBVIOUS
  <2>3. port' = ClosedPort /\ toWorker' = <<>> /\ toPanel' = <<>> BY <1>3 DEF ClosePort
  <2>4. ClosedPort' = ClosedPort BY DEF ClosedPort
  <2> QED BY <2>1, <2>2, <2>3, <2>4 DEF PortTyped
<1>4. ASSUME port' = port, toPanel # <<>>, toPanel' = Tail(toPanel), toWorker' \in Seq(CallType)
      PROVE  PortTyped'
  <2>1. port.state # "closed" BY <1>0, <1>4
  <2>2. toPanel' \in Seq(Sendable') BY <1>0, <1>4
  <2> QED BY <1>0, <1>2, <1>4, <2>1, <2>2
<1>5. ASSUME port' = port, port.state # "closed", toPanel' = toPanel, toWorker' \in Seq(CallType)
      PROVE  PortTyped'
  BY <1>0, <1>2, <1>5
<1>6. /\ channel.epoch \in {NoEpoch} \cup Epochs /\ presence.epoch \in {NoEpoch} \cup Epochs
  BY DEF RouteInv, StreamInv, TypeOK, ClientTyped
<1>7. \A id \in CallIds, ep \in {NoEpoch} \cup Epochs, op \in {"resync", "prompt", "abort"} :
        Call(id, op, ep) \in CallType
  BY DEF Call, CallType
<1>8. CASE PortDrops \/ WorkerDies \/ ReopenPanel
  BY <1>3, <1>8 DEF PortDrops, WorkerDies, ReopenPanel
<1>9. CASE Reconnect
  <2>1. port'.state = "opened" /\ port' \in Ports /\ port'.busy = NoCall
    BY <1>0, <1>9 DEF Reconnect, ClosedPort
  <2> QED BY <1>0, <1>2, <1>9, <2>1 DEF Reconnect
<1>10. CASE RouteStream
  <2>1. Head(wire) \in Sendable BY <1>10 DEF RouteStream, RouteInv, OffscreenTyped
  <2>2. Head(wire) \in Sendable' BY <2>1, StreamPart
  <2>3. ~IsAnswer(Head(wire)) => Head(wire).epoch \in Epochs /\ Head(wire).seq \in Nat
    BY <1>0, <2>1, SentHasCursor
  <2>4. toWorker' = toWorker BY <1>10 DEF RouteStream
  <2>5. CASE UNCHANGED <<port, toPanel>> BY <1>1, <2>4, <2>5 DEF portVars
  <2>6. CASE ~UNCHANGED <<port, toPanel>>
    <3>1. Bound /\ ~IsAnswer(Head(wire)) /\ toPanel' = Append(toPanel, Head(wire))
      BY <1>10, <2>6 DEF RouteStream, RouteHello, RouteEnvelope
    <3>2. \/ port' = [port EXCEPT !.greeted = @ \cup {Head(wire).epoch}]
          \/ port' = [port EXCEPT !.seen[Head(wire).epoch] = Head(wire).seq]
      BY <1>10, <2>6 DEF RouteStream, RouteHello, RouteEnvelope
    <3>3. port' \in Ports /\ port'.state = port.state /\ port'.busy = port.busy
      <4>1. CASE port' = [port EXCEPT !.greeted = @ \cup {Head(wire).epoch}]
        BY <1>0, <2>3, <3>1, <4>1
      <4>2. CASE port' = [port EXCEPT !.seen[Head(wire).epoch] = Head(wire).seq]
        <5>1. [port.seen EXCEPT ![Head(wire).epoch] = Head(wire).seq] \in [Epochs -> Nat]
          BY <1>0, <2>3, <3>1
        <5>2. port' = [port EXCEPT !.seen = [port.seen EXCEPT ![Head(wire).epoch] = Head(wire).seq]]
          BY <4>2
        <5> QED BY <1>0, <5>1, <5>2
      <4> QED BY <3>2, <4>1, <4>2
    <3>4. toPanel' \in Seq(Sendable') BY <1>0, <2>2, <3>1
    <3> QED BY <1>0, <1>2, <2>4, <3>1, <3>3, <3>4 DEF Bound
  <2> QED BY <2>5, <2>6
<1>11. CASE BindRoute
  <2>1. port.state = "opened" /\ port.busy = NoCall /\ toWorker' = toWorker
    BY <1>0, <1>11 DEF BindRoute
  <2>2. CASE accepted /\ worker.hello # NoHello
    <3>1. worker.hello \in hellos /\ worker.hello.epoch \in Epochs
      BY <1>0, <2>2 DEF RouteInv, WorkerTyped, StreamInv, TypeOK, HelloType
    <3>2. worker.hello \in Sendable' BY <3>1, StreamPart DEF Sendable
    <3>3. toPanel' = Append(toPanel, worker.hello)
          /\ port' = [port EXCEPT !.state = "bound", !.greeted = {worker.hello.epoch}]
      BY <1>11, <2>2 DEF BindRoute
    <3>4. port' \in Ports /\ port'.state = "bound" BY <1>0, <3>1, <3>3
    <3> QED BY <1>0, <1>2, <2>1, <3>2, <3>3, <3>4
  <2>3. CASE ~(accepted /\ worker.hello # NoHello)
    <3>1. port' = [port EXCEPT !.state = "binding"] /\ toPanel' = toPanel
      BY <1>11, <2>3 DEF BindRoute
    <3>2. port' \in Ports /\ port'.state = "binding" /\ port'.busy = NoCall BY <1>0, <2>1, <3>1
    <3> QED BY <1>0, <1>2, <2>1, <3>1, <3>2
  <2> QED BY <2>2, <2>3
<1>12. CASE FinishBind
  <2>1. CASE ClosePort BY <1>3, <2>1
  <2>2. CASE UNCHANGED portVars BY <1>1, <2>2
  <2>3. CASE /\ port.state = "binding" /\ toWorker' = toWorker
             /\ port' = [port EXCEPT !.state = "bound"]
             /\ toPanel' = IF accepted /\ worker.hello # NoHello
                           THEN Append(toPanel, worker.hello) ELSE toPanel
    <3>1. port' \in Ports /\ port'.state = "bound" BY <1>0, <2>3
    <3>2. worker.hello # NoHello => worker.hello \in Sendable'
      BY StreamPart DEF RouteInv, WorkerTyped, Sendable
    <3>3. toPanel' \in Seq(Sendable') BY <1>0, <2>3, <3>2
    <3> QED BY <1>0, <1>2, <2>3, <3>1, <3>3
  <2> QED BY <1>12, <2>1, <2>2, <2>3 DEF FinishBind, portVars
<1>13. CASE ForwardRequest
  <2>1. Head(toWorker) \in CallType /\ Head(toWorker).id \in CallIds
        /\ toWorker' \in Seq(CallType) /\ port.state = "bound"
    <3>1. port.state = "bound" /\ toWorker # <<>> /\ toWorker' = Tail(toWorker)
      BY <1>13 DEF ForwardRequest
    <3>2. Head(toWorker) \in CallType /\ toWorker' \in Seq(CallType) BY <1>0, <3>1
    <3> QED BY <3>1, <3>2 DEF CallType
  <2>2. CASE up
    <3>1. port' = [port EXCEPT !.busy = Head(toWorker).id] /\ toPanel' = toPanel
      BY <1>13, <2>2 DEF ForwardRequest
    <3>2. port' \in Ports /\ port'.state = "bound" BY <1>0, <2>1, <3>1
    <3> QED BY <1>0, <1>2, <2>1, <3>1, <3>2
  <2>3. CASE ~up
    <3>1. Answer(Head(toWorker).id, FALSE) \in AnswerType BY <2>1, AnswersTyped
    <3>2. Answer(Head(toWorker).id, FALSE) \in Sendable' BY <3>1 DEF Sendable
    <3>3. port' = port /\ toPanel' = Append(toPanel, Answer(Head(toWorker).id, FALSE))
      BY <1>13, <2>3 DEF ForwardRequest
    <3> QED BY <1>0, <1>2, <2>1, <3>2, <3>3
  <2> QED BY <2>2, <2>3
<1>14. CASE Respond
  <2>1. PICK r \in replies : toPanel' = Append(toPanel, r) BY <1>14 DEF Respond
  <2>2. r \in Sendable' BY DEF RouteInv, WorkerTyped, Sendable
  <2>3. port' = [port EXCEPT !.busy = NoCall] /\ toWorker' = toWorker /\ port.state = "bound"
    BY <1>0, <1>14 DEF Respond
  <2>4. port' \in Ports /\ port'.state = "bound" BY <1>0, <2>3, Ids
  <2>5. toPanel' \in Seq(Sendable') BY <1>0, <2>1, <2>2
  <2>6. toWorker' \in Seq(CallType) /\ port'.state # "closed" BY <1>0, <2>3, <2>4
  <2> QED BY <1>2, <2>4, <2>5, <2>6
<1>15. CASE PanelReceivesHello
  <2>1. Head(toPanel) \in Sendable /\ Head(toPanel).type = "hello"
    BY <1>15 DEF PanelReceivesHello, RouteInv, PortTyped
  <2>2. Head(toPanel).epoch \in Epochs BY <1>0, <2>1, SentHasCursor DEF IsAnswer
  <2>3. toWorker' \in Seq(CallType) BY <1>0, <1>15, <2>2, BeginTyped DEF PanelReceivesHello
  <2> QED BY <1>4, <1>15, <2>3 DEF PanelReceivesHello, PanelOnly
<1>16. CASE PanelReceivesEnvelope
  <2>1. \/ toWorker' = toWorker
        \/ BeginRecovery(presence)
        \/ CanCall /\ Posts(toWorker, FreshCall, "resync", channel.epoch)
    BY <1>16 DEF PanelReceivesEnvelope
  <2>2. BeginRecovery(presence) => toWorker' \in Seq(CallType) BY <1>0, <1>6, BeginTyped
  <2>3. CanCall => Call(FreshCall, "resync", channel.epoch) \in CallType
    BY <1>6, <1>7, FreshCallTyped
  <2>4. toWorker' \in Seq(CallType) BY <1>0, <2>1, <2>2, <2>3 DEF Posts
  <2> QED BY <1>4, <1>16, <2>4 DEF PanelReceivesEnvelope, PanelOnly
<1>17. CASE PanelReceivesAnswer
  BY <1>0, <1>4, <1>17 DEF PanelReceivesAnswer, PanelOnly
<1>18. CASE ResyncTimeout \/ SendPrompt \/ AbortActive
  <2>1. port.state # "closed" /\ port' = port /\ toPanel' = toPanel /\ CanCall
    BY <1>18 DEF ResyncTimeout, SendPrompt, AbortActive
  <2>2. \E op \in {"resync", "prompt", "abort"} : Posts(toWorker, FreshCall, op, channel.epoch)
    BY <1>18 DEF ResyncTimeout, SendPrompt, AbortActive
  <2>3. toWorker' \in Seq(CallType) BY <1>0, <1>6, <1>7, <2>1, <2>2, FreshCallTyped DEF Posts
  <2> QED BY <1>5, <2>1, <2>3
<1>19. CASE EnsureConnected
  <2>1. toWorker' \in Seq(CallType) BY <1>0, <1>6, <1>19, BeginTyped DEF EnsureConnected
  <2> QED BY <1>5, <1>19, <2>1 DEF EnsureConnected, PanelOnly
<1>20. CASE \/ AgentAnnounces \/ SaveCheckpoint \/ HandleCall \/ PromptSucceeds \/ PromptStops
            \/ OffscreenDies \/ RecoveryTimeout
  BY <1>1, <1>20 DEF AgentAnnounces, SaveCheckpoint, HandleCall, PromptSucceeds, PromptStops,
     FinishPrompt, HostOnly, OffscreenDies, RecoveryTimeout
<1>21. CASE WorkerStarts
  BY <1>1, <1>21 DEF WorkerStarts, Initialize, RecoverAccepted, FinishRecovery
<1>22. CASE UNCHANGED routeVars BY <1>1, <1>22 DEF routeVars
<1> QED
  BY <1>8, <1>9, <1>10, <1>11, <1>12, <1>13, <1>14, <1>15, <1>16, <1>17, <1>18, <1>19, <1>20,
     <1>21, <1>22 DEF RouteNext, WorkerServes, PanelReceives

-----------------------------------------------------------------------------
(* Theorems *)

\* The invariant of the route is inductive.
LEMMA RouteInvKept ==
  ASSUME RouteInv, [RouteNext]_routeVars
  PROVE  RouteInv'
<1>1. SpentTyped' BY SpentKept DEF RouteInv
<1> QED BY <1>1, StreamPart, ClientKept, WorkerKept, OffscreenKept, PortKept DEF RouteInv

\* The invariant holds at the start.
LEMMA RouteInvInit == RouteInit => RouteInv
<1> SUFFICES ASSUME RouteInit PROVE RouteInv OBVIOUS
<1>1. StreamInv BY InitStreamInv DEF RouteInit
<1>2. OffscreenTyped BY Ids DEF RouteInit, OffscreenTyped, NoRun
<1>3. WorkerTyped BY DEF RouteInit, WorkerTyped, ColdWorker
<1>4. PortTyped BY Ids DEF RouteInit, PortTyped, ClosedPort
<1>5. ClientTyped
  BY Ids DEF RouteInit, ClientTyped, NoPresence, NoCycle, CycleType, NoPrompt
<1>6. SpentTyped BY SpentAssumption, PromptsAssumption DEF RouteInit, SpentTyped, Budget
<1> QED BY <1>1, <1>2, <1>3, <1>4, <1>5, <1>6 DEF RouteInv

\* The route always satisfies its invariant.
LEMMA RouteInvHolds == RouteSpec => []RouteInv
<1>1. RouteInv /\ [RouteNext]_routeVars => RouteInv' BY RouteInvKept
<1> QED BY <1>1, RouteInvInit, PTL DEF RouteSpec

\* Whatever the port, the worker and the document go through, every step of
\* the route is one that RuntimeStream allows (RefinesStream): the panel gets
\* nothing but what the host of some epoch sent.
THEOREM RouteImplementsStream == RouteSpec => RefinesStream
<1>1. RouteInit => Init BY DEF RouteInit
<1>2. RouteInv /\ [RouteNext]_routeVars => [Next]_vars BY RouteSteps
<1> QED BY <1>1, <1>2, RouteInvHolds, PTL DEF RouteSpec, RefinesStream, Spec

\* So what RuntimeStream_proofs shows of any delivery holds of this one: a panel
\* that is not waiting for a resync stands at one position of the host's stream
\* and shows the transcript of a panel that missed nothing.
THEOREM RoutePanelFollowsStream == RouteSpec => []ViewFollowsStream
BY RouteImplementsStream, PanelFollowsStream, PTL DEF RefinesStream

\* The panel's revision of a session never falls on the real route either,
\* unless the panel is reopened (reduceSessionStream, reduceHello).
THEOREM RouteRevisionsNeverRegress == RouteSpec => RevisionNeverRegresses
BY RouteImplementsStream, RevisionsNeverRegress, PTL DEF RefinesStream

\* Types of the route; a closed port holds nothing, an unbound one forwards
\* nothing.
THEOREM RouteTypeCorrect == RouteSpec => []RouteTypeOK
<1> SUFFICES RouteInv => RouteTypeOK BY RouteInvHolds, PTL
<1> SUFFICES ASSUME RouteInv PROVE RouteTypeOK OBVIOUS
<1>1. ASSUME NEW m \in Sendable PROVE m \in AnswerType \/ IsEnvelope(m)
  <2>1. CASE m \in hellos
    <3>1. m \in HelloType BY <2>1 DEF RouteInv, StreamInv, TypeOK
    <3> QED BY <3>1 DEF HelloType, IsEnvelope
  <2>2. ASSUME NEW ep \in Epochs, NEW n \in DOMAIN sent[ep] PROVE IsEnvelope(Envelope(ep, n))
    <3>1. sent[ep][n] \in EntryType /\ n \in Nat BY DEF RouteInv, StreamInv, TypeOK
    <3> QED BY <3>1 DEF Envelope, AsEnvelope, Stream, EntryType, IsEnvelope
  <2> QED BY <2>1, <2>2 DEF Sendable
<1>2. Deliverable(wire) /\ Deliverable(toPanel)
  BY <1>1 DEF Deliverable, RouteInv, OffscreenTyped, PortTyped
<1>3. \A kind \in DOMAIN Budget : spent[kind] \in 0..Budget[kind]
  BY SpentAssumption, PromptsAssumption DEF RouteInv, SpentTyped, Budget
<1>4. \A i \in DOMAIN toWorker : toWorker[i] \in CallType BY DEF RouteInv, PortTyped
<1> QED
  BY <1>2, <1>3, <1>4
     DEF RouteTypeOK, RouteInv, OffscreenTyped, WorkerTyped, PortTyped, ClientTyped
-----------------------------------------------------------------------------
(* What a fresh client can count on *)

IsHello(m) == ~IsAnswer(m) /\ m.type = "hello"
IsStream(m) == ~IsAnswer(m) /\ m.type # "hello"

\* The n-th envelope of an epoch's stream, and a queue that has it.
Env(streams, ep, n) == AsEnvelope(streams[ep][n], ep, n)
Has(streams, queue, ep, n) == \E j \in DOMAIN queue : queue[j] = Env(streams, ep, n)

\* Nothing in the queue but what is in the streams.
FromStreams(streams, queue) ==
  \A i \in DOMAIN queue : IsStream(queue[i]) =>
    /\ queue[i].epoch \in Epochs /\ queue[i].seq \in 1..Len(streams[queue[i].epoch])
    /\ queue[i] = Env(streams, queue[i].epoch, queue[i].seq)

\* The streams in a queue: each in its order, up to its last, without a gap.
InOrder(queue) ==
  \A i, j \in DOMAIN queue :
    i < j /\ IsStream(queue[i]) /\ IsStream(queue[j]) /\ queue[i].epoch = queue[j].epoch =>
      queue[i].seq < queue[j].seq
NoGap(streams, queue, last) ==
  \A i \in DOMAIN queue : IsStream(queue[i]) =>
    /\ queue[i].seq <= last[queue[i].epoch]
    /\ \A n \in Nat : queue[i].seq < n /\ n <= last[queue[i].epoch] => Has(streams, queue, queue[i].epoch, n)
Contiguous(streams, queue, last) == InOrder(queue) /\ NoGap(streams, queue, last)
Lasts(streams) == [ep \in Epochs |-> Len(streams[ep])]

\* Streams only grow.
Extends(streams, more) ==
  \A ep \in Epochs :
    /\ streams[ep] \in Seq(EntryType) /\ more[ep] \in Seq(EntryType) /\ Len(more[ep]) >= Len(streams[ep])
    /\ \A n \in 1..Len(streams[ep]) : more[ep][n] = streams[ep][n]

\* An envelope is of its epoch and has its number.
LEMMA EnvIs ==
  ASSUME NEW s, NEW ep \in Epochs, s[ep] \in Seq(EntryType), NEW n \in 1..Len(s[ep])
  PROVE  /\ IsStream(Env(s, ep, n)) /\ ~IsHello(Env(s, ep, n))
         /\ Env(s, ep, n).epoch = ep /\ Env(s, ep, n).seq = n
<1>0. s[ep][n] \in EntryType OBVIOUS
<1>1. s[ep][n].type \in Types BY <1>0 DEF EntryType
<1>2. Env(s, ep, n).type = s[ep][n].type /\ Env(s, ep, n).epoch = ep /\ Env(s, ep, n).seq = n
  BY DEF Env, AsEnvelope, Stream
<1> QED BY <1>1, <1>2 DEF IsStream, IsHello, IsAnswer, Types

\* Grown streams have the same envelopes.
LEMMA EnvKept ==
  ASSUME NEW s, NEW t, Extends(s, t), NEW ep \in Epochs, NEW n \in 1..Len(s[ep])
  PROVE  Env(t, ep, n) = Env(s, ep, n) /\ n \in 1..Len(t[ep])
BY DEF Env, Extends

\* What was in a queue is in it when the streams have grown.
LEMMA GrownContiguous ==
  ASSUME NEW s, NEW t, Extends(s, t), NEW S, NEW queue \in Seq(S), FromStreams(s, queue),
         NEW last \in [Epochs -> Nat], \A ep \in Epochs : last[ep] <= Len(s[ep]),
         Contiguous(s, queue, last)
  PROVE  Contiguous(t, queue, last) /\ FromStreams(t, queue)
<1>1. FromStreams(t, queue) BY EnvKept DEF FromStreams
<1>2. ASSUME NEW i \in DOMAIN queue, IsStream(queue[i]), NEW n \in Nat,
             queue[i].seq < n, n <= last[queue[i].epoch]
      PROVE  Has(t, queue, queue[i].epoch, n)
  <2>1. queue[i].epoch \in Epochs /\ queue[i].seq \in 1..Len(s[queue[i].epoch]) BY <1>2 DEF FromStreams
  <2>2. Has(s, queue, queue[i].epoch, n) BY <1>2 DEF Contiguous, NoGap
  <2>3. n \in 1..Len(s[queue[i].epoch]) BY <1>2, <2>1 DEF Extends
  <2> QED BY <2>1, <2>2, <2>3, EnvKept DEF Has
<1> QED BY <1>1, <1>2 DEF Contiguous, NoGap

\* Taking the head off a queue leaves no gap behind it.
LEMMA TailContiguous ==
  ASSUME NEW s, NEW S, NEW queue \in Seq(S), queue # <<>>, NEW last \in [Epochs -> Nat],
         FromStreams(s, queue), \A ep \in Epochs : s[ep] \in Seq(EntryType) /\ last[ep] <= Len(s[ep]),
         Contiguous(s, queue, last)
  PROVE  Contiguous(s, Tail(queue), last) /\ FromStreams(s, Tail(queue))
<1> DEFINE rest == Tail(queue)
<1>1. /\ rest \in Seq(S) /\ Len(rest) = Len(queue) - 1 /\ Len(queue) \in Nat \ {0}
      /\ DOMAIN rest = 1..Len(rest) /\ DOMAIN queue = 1..Len(queue)
      /\ \A i \in 1..Len(rest) : i + 1 \in 1..Len(queue) /\ rest[i] = queue[i + 1]
  OBVIOUS
<1> HIDE DEF rest
<1>2. FromStreams(s, rest) BY <1>1 DEF FromStreams
<1>3. InOrder(rest)
  <2> SUFFICES ASSUME NEW i \in DOMAIN rest, NEW j \in DOMAIN rest, i < j, IsStream(rest[i]), IsStream(rest[j]),
                      rest[i].epoch = rest[j].epoch
               PROVE  rest[i].seq < rest[j].seq
    BY DEF InOrder
  <2>1. i + 1 \in DOMAIN queue /\ j + 1 \in DOMAIN queue /\ i + 1 < j + 1 BY <1>1
  <2> QED BY <1>1, <2>1 DEF Contiguous, InOrder
<1>4. ASSUME NEW i \in DOMAIN rest, IsStream(rest[i]), NEW n \in Nat, rest[i].seq < n, n <= last[rest[i].epoch]
      PROVE  Has(s, rest, rest[i].epoch, n)
  <2> DEFINE ep == rest[i].epoch
  <2>1. i + 1 \in DOMAIN queue /\ queue[i + 1] = rest[i] BY <1>1
  <2>2. PICK j \in DOMAIN queue : queue[j] = Env(s, ep, n) BY <1>4, <2>1 DEF Contiguous, NoGap, Has
  <2>3. ep \in Epochs /\ n \in 1..Len(s[ep]) BY <1>2, <1>4 DEF FromStreams
  <2>4. IsStream(queue[j]) /\ queue[j].epoch = ep /\ queue[j].seq = n BY <2>2, <2>3, EnvIs
  <2>5. j # 1
    <3>1. CASE j = 1
      <4>1. 1 < i + 1 /\ 1 \in DOMAIN queue BY <1>1
      <4>2. queue[1].seq < queue[i + 1].seq BY <1>4, <2>1, <2>4, <3>1, <4>1 DEF Contiguous, InOrder
      <4>3. queue[i + 1].seq \in Nat BY <1>2, <1>4, <2>1 DEF FromStreams
      <4> QED BY <1>4, <2>1, <2>4, <3>1, <4>2, <4>3
    <3> QED BY <3>1
  <2>6. j - 1 \in DOMAIN rest /\ rest[j - 1] = queue[j] BY <1>1, <2>5
  <2> QED BY <2>2, <2>6 DEF Has
<1>5. \A i \in DOMAIN rest : IsStream(rest[i]) => rest[i].seq <= last[rest[i].epoch]
  BY <1>1 DEF Contiguous, NoGap
<1>6. Contiguous(s, rest, last) BY <1>3, <1>4, <1>5 DEF Contiguous, NoGap
<1> QED BY <1>2, <1>6 DEF rest

\* What is no stream, behind a queue, leaves no gap.
LEMMA OthersContiguous ==
  ASSUME NEW s, NEW S, NEW queue \in Seq(S), NEW more \in Seq(S), \A k \in DOMAIN more : ~IsStream(more[k]),
         NEW last \in [Epochs -> Nat], FromStreams(s, queue), Contiguous(s, queue, last)
  PROVE  /\ Contiguous(s, queue \o more, last) /\ FromStreams(s, queue \o more)
         /\ \A ep, n : Has(s, queue, ep, n) => Has(s, queue \o more, ep, n)
<1> DEFINE both == queue \o more
<1>1. /\ DOMAIN queue = 1..Len(queue) /\ DOMAIN both = 1..(Len(queue) + Len(more))
      /\ Len(queue) \in Nat /\ Len(more) \in Nat
      /\ \A i \in 1..Len(queue) : i \in DOMAIN both /\ both[i] = queue[i]
      /\ \A i \in DOMAIN both : i \notin 1..Len(queue) =>
           i - Len(queue) \in DOMAIN more /\ both[i] = more[i - Len(queue)]
  OBVIOUS
<1> HIDE DEF both
<1>2. \A i \in DOMAIN both : IsStream(both[i]) => i \in DOMAIN queue /\ both[i] = queue[i] BY <1>1
<1>3. FromStreams(s, both) BY <1>2 DEF FromStreams
<1>4. \A ep, n : Has(s, queue, ep, n) => Has(s, both, ep, n) BY <1>1 DEF Has
<1>5. InOrder(both)
  <2> SUFFICES ASSUME NEW i \in DOMAIN both, NEW j \in DOMAIN both, i < j, IsStream(both[i]), IsStream(both[j]),
                      both[i].epoch = both[j].epoch
               PROVE  both[i].seq < both[j].seq
    BY DEF InOrder
  <2>1. i \in DOMAIN queue /\ both[i] = queue[i] /\ j \in DOMAIN queue /\ both[j] = queue[j] BY <1>2
  <2> QED BY <2>1 DEF Contiguous, InOrder
<1>6. NoGap(s, both, last)
  <2> SUFFICES ASSUME NEW i \in DOMAIN both, IsStream(both[i])
               PROVE  /\ both[i].seq <= last[both[i].epoch]
                      /\ \A n \in Nat : both[i].seq < n /\ n <= last[both[i].epoch] => Has(s, both, both[i].epoch, n)
    BY DEF NoGap
  <2>1. i \in DOMAIN queue /\ both[i] = queue[i] BY <1>2
  <2> QED BY <1>4, <2>1 DEF Contiguous, NoGap
<1>7. Contiguous(s, both, last) BY <1>5, <1>6 DEF Contiguous
<1> QED BY <1>3, <1>4, <1>7 DEF both

\* The next envelope of a stream, behind a queue that has nothing of it yet or all before it.
LEMMA NextContiguous ==
  ASSUME NEW s, NEW S, NEW queue \in Seq(S), NEW last \in [Epochs -> Nat],
         FromStreams(s, queue), \A e \in Epochs : s[e] \in Seq(EntryType) /\ last[e] <= Len(s[e]),
         Contiguous(s, queue, last),
         NEW ep \in Epochs, NEW n \in 1..Len(s[ep]), n > last[ep], last[ep] = 0 \/ n = last[ep] + 1
  PROVE  LET more == Append(queue, Env(s, ep, n)) IN
         /\ Contiguous(s, more, [last EXCEPT ![ep] = n]) /\ FromStreams(s, more)
         /\ Has(s, more, ep, n) /\ \A e, k : Has(s, queue, e, k) => Has(s, more, e, k)
<1> DEFINE m == Env(s, ep, n)
           more == Append(queue, m)
           end == [last EXCEPT ![ep] = n]
           L == Len(queue)
<1>1. /\ DOMAIN queue = 1..L /\ DOMAIN more = 1..(L + 1) /\ L \in Nat
      /\ \A i \in 1..L : i \in DOMAIN more /\ more[i] = queue[i]
      /\ more[L + 1] = m /\ L + 1 \in DOMAIN more
  OBVIOUS
<1>2. end[ep] = n /\ \A e \in Epochs : e # ep => end[e] = last[e] OBVIOUS
<1>3. IsStream(m) /\ m.epoch = ep /\ m.seq = n BY EnvIs
<1>4. n \in Nat /\ last[ep] \in Nat OBVIOUS
<1>5. m = Env(s, ep, n) OBVIOUS
<1> HIDE DEF m, more, end, L
<1>6. \A i \in DOMAIN more : (i \in DOMAIN queue /\ more[i] = queue[i]) \/ (i = L + 1 /\ more[i] = m) BY <1>1
<1>7. FromStreams(s, more)
  <2> SUFFICES ASSUME NEW i \in DOMAIN more, IsStream(more[i])
               PROVE  /\ more[i].epoch \in Epochs /\ more[i].seq \in 1..Len(s[more[i].epoch])
                      /\ more[i] = Env(s, more[i].epoch, more[i].seq)
    BY DEF FromStreams
  <2>1. CASE i \in DOMAIN queue /\ more[i] = queue[i] BY <2>1 DEF FromStreams
  <2>2. CASE more[i] = m BY <1>3, <1>5, <2>2
  <2> QED BY <1>6, <2>1, <2>2
<1>8. /\ Has(s, more, ep, n)
      /\ \A e, k : Has(s, queue, e, k) => Has(s, more, e, k)
  BY <1>1, <1>5 DEF Has
\* What the queue has of the stream is before it; and if it has something the next is wanted.
<1>9. ASSUME NEW i \in DOMAIN queue, IsStream(queue[i]), queue[i].epoch = ep
      PROVE  queue[i].seq \in Nat /\ queue[i].seq <= last[ep] /\ queue[i].seq > 0 /\ n = last[ep] + 1
  BY <1>4, <1>9 DEF Contiguous, NoGap, FromStreams
<1>10. InOrder(more)
  <2> SUFFICES ASSUME NEW i \in DOMAIN more, NEW j \in DOMAIN more, i < j, IsStream(more[i]), IsStream(more[j]),
                      more[i].epoch = more[j].epoch
               PROVE  more[i].seq < more[j].seq
    BY DEF InOrder
  <2>1. i \in DOMAIN queue /\ more[i] = queue[i] BY <1>1, <1>6
  <2>2. CASE j \in DOMAIN queue /\ more[j] = queue[j] BY <2>1, <2>2 DEF Contiguous, InOrder
  <2>3. CASE more[j] = m BY <1>3, <1>4, <1>9, <2>1, <2>3
  <2> QED BY <1>6, <2>2, <2>3
<1>11. NoGap(s, more, end)
  <2> SUFFICES ASSUME NEW i \in DOMAIN more, IsStream(more[i])
               PROVE  /\ more[i].seq <= end[more[i].epoch]
                      /\ \A k \in Nat : more[i].seq < k /\ k <= end[more[i].epoch] => Has(s, more, more[i].epoch, k)
    BY DEF NoGap
  <2>1. CASE more[i] = m BY <1>2, <1>3, <1>4, <2>1
  <2>2. CASE i \in DOMAIN queue /\ more[i] = queue[i] /\ more[i].epoch # ep
    <3>1. end[more[i].epoch] = last[more[i].epoch] BY <1>2, <2>2 DEF FromStreams
    <3> QED BY <1>8, <2>2, <3>1 DEF Contiguous, NoGap
  <2>3. CASE i \in DOMAIN queue /\ more[i] = queue[i] /\ more[i].epoch = ep
    <3>1. queue[i].seq \in Nat /\ queue[i].seq <= last[ep] /\ n = last[ep] + 1 BY <1>9, <2>3
    <3>2. ASSUME NEW k \in Nat, more[i].seq < k, k <= n PROVE Has(s, more, ep, k)
      <4>1. CASE k = n BY <1>8, <4>1
      <4>2. CASE k # n
        <5>1. k <= last[ep] BY <1>4, <3>1, <3>2, <4>2
        <5>2. Has(s, queue, ep, k) BY <2>3, <3>2, <5>1 DEF Contiguous, NoGap
        <5> QED BY <1>8, <5>2
      <4> QED BY <4>1, <4>2
    <3> QED BY <1>2, <1>4, <2>3, <3>1, <3>2
  <2> QED BY <1>6, <2>1, <2>2, <2>3
<1>12. Contiguous(s, more, end) BY <1>10, <1>11 DEF Contiguous
<1> QED BY <1>7, <1>8, <1>12 DEF more, end, m

\* What a stream has grown by, behind a queue that has this stream to its end.
LEMMA GrowthContiguous ==
  ASSUME Extends(sent, sent'), epoch \in Epochs, wire \in Seq(Sendable),
         FromStreams(sent, wire), \A i \in DOMAIN wire : IsStream(wire[i]) => wire[i].epoch = epoch,
         Contiguous(sent, wire, Lasts(sent))
  PROVE  LET all == wire \o [i \in 1..(Len(sent'[epoch]) - Len(sent[epoch])) |-> Env(sent', epoch, Len(sent[epoch]) + i)] IN
         /\ Contiguous(sent', all, Lasts(sent')) /\ FromStreams(sent', all)
         /\ \A n \in 1..Len(sent[epoch]) : Has(sent, wire, epoch, n) => Has(sent', all, epoch, n)
         /\ \A n \in 1..Len(sent'[epoch]) : n > Len(sent[epoch]) => Has(sent', all, epoch, n)
         /\ DOMAIN wire \subseteq DOMAIN all
         /\ \A i \in DOMAIN all : \/ i \in DOMAIN wire /\ all[i] = wire[i]
                                  \/ IsStream(all[i]) /\ all[i].epoch = epoch /\ i > Len(wire)
<1> DEFINE d == Len(sent'[epoch]) - Len(sent[epoch])
           L == Len(wire)
           M == Len(sent[epoch])
           new == [i \in 1..d |-> Env(sent', epoch, M + i)]
           all == wire \o new
<1>0. /\ sent[epoch] \in Seq(EntryType) /\ sent'[epoch] \in Seq(EntryType) /\ Len(sent'[epoch]) >= Len(sent[epoch])
      /\ Len(sent[epoch]) \in Nat /\ Len(sent'[epoch]) \in Nat /\ L \in Nat
  BY DEF Extends
<1>1. d \in Nat /\ M \in Nat /\ L \in Nat /\ Len(sent'[epoch]) = M + d BY <1>0
<1>2. Len(new) = d /\ DOMAIN new = 1..d /\ (\A i \in 1..d : new[i] = Env(sent', epoch, M + i))
      /\ new \in Seq({Env(sent', epoch, M + i) : i \in 1..d})
  <2> HIDE DEF d, M
  <2>1. DOMAIN new = 1..d /\ \A i \in 1..d : new[i] = Env(sent', epoch, M + i) OBVIOUS
  <2>2. new \in [1..d -> {Env(sent', epoch, M + i) : i \in 1..d}] BY <2>1
  <2>3. new \in Seq({Env(sent', epoch, M + i) : i \in 1..d})
    <3> DEFINE T == {Env(sent', epoch, M + i) : i \in 1..d}
    <3>1. d \in Nat /\ new \in [1..d -> T] BY <1>1, <2>2
    <3> HIDE DEF T
    <3>2. new \in Seq(T) BY <3>1, SeqDef
    <3> QED BY <3>2 DEF T
  <2> QED BY <1>1, <2>1, <2>3
<1> HIDE DEF new
<1>3. /\ DOMAIN wire = 1..L /\ DOMAIN all = 1..(L + d)
      /\ \A i \in 1..L : i \in DOMAIN all /\ all[i] = wire[i]
      /\ \A i \in 1..d : L + i \in DOMAIN all /\ all[L + i] = new[i]
      /\ \A i \in DOMAIN all : i \notin 1..L => i - L \in 1..d /\ i > L
  <2>1. new \in Seq({Env(sent', epoch, M + i) : i \in 1..d}) BY <1>2
  <2>2. L \in Nat /\ d \in Nat /\ DOMAIN wire = 1..L BY <1>1
  <2>3. Len(new) = d /\ DOMAIN new = 1..d BY <1>2
  <2> HIDE DEF d, M
  <2> QED BY <2>1, <2>2, <2>3
<1>4. \A i \in 1..d : M + i \in 1..Len(sent'[epoch]) /\ M + i \in Nat BY <1>1
<1>5. \A n \in 1..Len(sent'[epoch]) : n > M => n - M \in 1..d /\ M + (n - M) = n BY <1>1
<1>6. \A e \in Epochs : Lasts(sent)[e] = Len(sent[e]) /\ Lasts(sent')[e] = Len(sent'[e]) /\ sent'[e] \in Seq(EntryType) BY DEF Lasts, Extends
<1>7. Lasts(sent) \in [Epochs -> Nat] BY DEF Lasts, Extends
<1>7a. \A e \in Epochs : Lasts(sent)[e] <= Len(sent[e]) BY <1>6, <1>7
<1>8. Contiguous(sent', wire, Lasts(sent)) /\ FromStreams(sent', wire) BY <1>7, <1>7a, GrownContiguous
<1> HIDE DEF all, d, L, M
<1>9. \A i \in 1..d : /\ IsStream(all[L + i]) /\ all[L + i].epoch = epoch /\ all[L + i].seq = M + i
                      /\ all[L + i] = Env(sent', epoch, M + i)
  <2> SUFFICES ASSUME NEW i \in 1..d
               PROVE  /\ IsStream(all[L + i]) /\ all[L + i].epoch = epoch /\ all[L + i].seq = M + i
                      /\ all[L + i] = Env(sent', epoch, M + i)
    OBVIOUS
  <2>1. all[L + i] = Env(sent', epoch, M + i) BY <1>2, <1>3
  <2>2. M + i \in 1..Len(sent'[epoch]) /\ sent'[epoch] \in Seq(EntryType) BY <1>1, <1>4, <1>6
  <2> QED BY <2>1, <2>2, EnvIs
<1>10. \A i \in DOMAIN all : \/ /\ i \in DOMAIN wire /\ all[i] = wire[i]
                             \/ /\ i \notin DOMAIN wire /\ i > L /\ i - L \in 1..d
                                /\ IsStream(all[i]) /\ all[i].epoch = epoch /\ all[i].seq = M + (i - L)
                                /\ all[i] = Env(sent', epoch, M + (i - L))
  <2> SUFFICES ASSUME NEW i \in DOMAIN all, i \notin 1..L
               PROVE  /\ i > L /\ i - L \in 1..d
                      /\ IsStream(all[i]) /\ all[i].epoch = epoch /\ all[i].seq = M + (i - L)
                      /\ all[i] = Env(sent', epoch, M + (i - L))
    BY <1>3
  <2>1. i > L /\ i - L \in 1..d BY <1>3
  <2>2. i = L + (i - L) BY <1>1, <1>3
  <2> QED BY <1>9, <2>1, <2>2
<1>11. FromStreams(sent', all)
  <2> SUFFICES ASSUME NEW i \in DOMAIN all, IsStream(all[i])
               PROVE  /\ all[i].epoch \in Epochs /\ all[i].seq \in 1..Len(sent'[all[i].epoch])
                      /\ all[i] = Env(sent', all[i].epoch, all[i].seq)
    BY DEF FromStreams
  <2>1. CASE i \in DOMAIN wire /\ all[i] = wire[i] BY <1>8, <2>1 DEF FromStreams
  <2>2. CASE i \notin DOMAIN wire BY <1>4, <1>10, <2>2
  <2> QED BY <1>10, <2>1, <2>2
<1>12. \A e, n : Has(sent', wire, e, n) => Has(sent', all, e, n) BY <1>3 DEF Has
<1>13. \A n \in 1..Len(sent'[epoch]) : n > M => Has(sent', all, epoch, n)
  <2> SUFFICES ASSUME NEW n \in 1..Len(sent'[epoch]), n > M PROVE Has(sent', all, epoch, n) OBVIOUS
  <2>1. n - M \in 1..d /\ M + (n - M) = n BY <1>5
  <2>2. L + (n - M) \in DOMAIN all BY <1>3, <2>1
  <2>3. all[L + (n - M)] = Env(sent', epoch, n) BY <1>9, <2>1
  <2> QED BY <2>2, <2>3 DEF Has
<1>14. \A n \in 1..M : Has(sent, wire, epoch, n) => Has(sent', wire, epoch, n) BY EnvKept DEF Has, M
<1>15. ASSUME NEW i \in DOMAIN wire, IsStream(wire[i])
       PROVE  wire[i].epoch = epoch /\ wire[i].seq \in 1..M
  BY <1>15 DEF FromStreams, M
<1>16. InOrder(all)
  <2> SUFFICES ASSUME NEW i \in DOMAIN all, NEW j \in DOMAIN all, i < j, IsStream(all[i]), IsStream(all[j]),
                      all[i].epoch = all[j].epoch
               PROVE  all[i].seq < all[j].seq
    BY DEF InOrder
  <2>0. i \in Nat /\ j \in Nat /\ L \in Nat /\ M \in Nat BY <1>1, <1>3
  <2>1. CASE i \in DOMAIN wire /\ all[i] = wire[i] /\ j \in DOMAIN wire /\ all[j] = wire[j]
    BY <1>8, <2>1 DEF Contiguous, InOrder
  <2>2. CASE i \in DOMAIN wire /\ all[i] = wire[i] /\ j \notin DOMAIN wire
    <3>1. all[i].seq \in 1..M BY <1>15, <2>2
    <3>2. j - L \in Nat /\ j - L >= 1 /\ all[j].seq = M + (j - L) BY <1>10, <2>2
    <3> QED BY <2>0, <3>1, <3>2
  <2>3. CASE i \notin DOMAIN wire /\ j \notin DOMAIN wire
    <3>1. all[i].seq = M + (i - L) /\ all[j].seq = M + (j - L) BY <1>10, <2>3
    <3> QED BY <2>0, <3>1
  <2>4. i \notin DOMAIN wire => j \notin DOMAIN wire BY <1>1, <1>3
  <2> QED BY <1>10, <2>1, <2>2, <2>3, <2>4
<1>17. NoGap(sent', all, Lasts(sent'))
  <2> SUFFICES ASSUME NEW i \in DOMAIN all, IsStream(all[i])
               PROVE  /\ all[i].seq <= Lasts(sent')[all[i].epoch]
                      /\ \A n \in Nat : all[i].seq < n /\ n <= Lasts(sent')[all[i].epoch] => Has(sent', all, all[i].epoch, n)
    BY DEF NoGap
  <2>1. all[i].epoch = epoch BY <1>10, <1>15
  <2>2. all[i].seq \in 1..Len(sent'[epoch]) BY <1>11, <2>1 DEF FromStreams
  <2>3. Len(sent'[epoch]) \in Nat /\ Lasts(sent')[epoch] = Len(sent'[epoch]) /\ Lasts(sent)[epoch] = M BY <1>1, <1>6 DEF M
  <2>4. ASSUME NEW n \in Nat, all[i].seq < n, n <= Len(sent'[epoch]) PROVE Has(sent', all, epoch, n)
    <3>1. n \in 1..Len(sent'[epoch]) BY <2>2, <2>3, <2>4
    <3>2. CASE n > M BY <1>13, <3>1, <3>2
    <3>3. CASE n <= M
      <4>1. i \in DOMAIN wire /\ all[i] = wire[i]
        <5>1. CASE i \notin DOMAIN wire
          <6>1. all[i].seq = M + (i - L) /\ i - L \in 1..d BY <1>10, <5>1
          <6>2. i - L \in Nat /\ i - L >= 1 BY <6>1
          <6> QED BY <1>1, <2>4, <3>3, <6>1, <6>2
        <5> QED BY <1>10, <5>1
      <4>2. Has(sent', wire, epoch, n) BY <1>8, <2>1, <2>3, <2>4, <3>3, <4>1 DEF Contiguous, NoGap
      <4> QED BY <1>12, <4>2
    <3> QED BY <1>1, <3>2, <3>3
  <2> QED BY <2>1, <2>2, <2>3, <2>4
<1>18. Contiguous(sent', all, Lasts(sent')) BY <1>16, <1>17 DEF Contiguous
<1>19. \A n \in 1..M : Has(sent, wire, epoch, n) => Has(sent', all, epoch, n) BY <1>12, <1>14
<1>20. DOMAIN wire \subseteq DOMAIN all BY <1>3
<1>21. \A i \in DOMAIN all : \/ i \in DOMAIN wire /\ all[i] = wire[i]
                             \/ IsStream(all[i]) /\ all[i].epoch = epoch /\ i > Len(wire)
  BY <1>10 DEF L
<1> QED BY <1>11, <1>13, <1>18, <1>19, <1>20, <1>21 DEF all, new, d, M

\* A queue in which only what is no stream was replaced, by what is none.
LEMMA ReplacedContiguous ==
  ASSUME NEW s, NEW queue, NEW other, DOMAIN other = DOMAIN queue,
         \A i \in DOMAIN queue : other[i] = queue[i] \/ (~IsStream(queue[i]) /\ ~IsStream(other[i])),
         FromStreams(s, queue), NEW last, Contiguous(s, queue, last), \A ep \in Epochs : s[ep] \in Seq(EntryType) /\ last[ep] <= Len(s[ep]),
         last \in [Epochs -> Nat]
  PROVE  /\ Contiguous(s, other, last) /\ FromStreams(s, other)
         /\ \A ep \in Epochs : \A n \in 1..Len(s[ep]) : Has(s, queue, ep, n) => Has(s, other, ep, n)
<1>1. \A i \in DOMAIN queue : IsStream(queue[i]) <=> IsStream(other[i]) OBVIOUS
<1>2. \A i \in DOMAIN queue : IsStream(queue[i]) \/ IsStream(other[i]) => other[i] = queue[i] BY <1>1
<1>3. FromStreams(s, other) BY <1>2 DEF FromStreams
<1>4. \A ep \in Epochs : \A n \in 1..Len(s[ep]) : Has(s, queue, ep, n) => Has(s, other, ep, n)
  <2> SUFFICES ASSUME NEW ep \in Epochs, NEW n \in 1..Len(s[ep]), Has(s, queue, ep, n) PROVE Has(s, other, ep, n)
    OBVIOUS
  <2>1. PICK j \in DOMAIN queue : queue[j] = Env(s, ep, n) BY DEF Has
  <2>2. IsStream(queue[j]) BY <2>1, EnvIs
  <2> QED BY <1>2, <2>1, <2>2 DEF Has
<1>5. InOrder(other)
  <2> SUFFICES ASSUME NEW i \in DOMAIN other, NEW j \in DOMAIN other, i < j, IsStream(other[i]), IsStream(other[j]),
                      other[i].epoch = other[j].epoch
               PROVE  other[i].seq < other[j].seq
    BY DEF InOrder
  <2>1. other[i] = queue[i] /\ other[j] = queue[j] /\ i \in DOMAIN queue /\ j \in DOMAIN queue BY <1>2
  <2> QED BY <2>1 DEF Contiguous, InOrder
<1>6. NoGap(s, other, last)
  <2> SUFFICES ASSUME NEW i \in DOMAIN other, IsStream(other[i])
               PROVE  /\ other[i].seq <= last[other[i].epoch]
                      /\ \A n \in Nat : other[i].seq < n /\ n <= last[other[i].epoch] => Has(s, other, other[i].epoch, n)
    BY DEF NoGap
  <2>1. other[i] = queue[i] /\ i \in DOMAIN queue /\ IsStream(queue[i]) BY <1>2
  <2>2. other[i].seq <= last[other[i].epoch] BY <2>1 DEF Contiguous, NoGap
  <2>3. ASSUME NEW n \in Nat, other[i].seq < n, n <= last[other[i].epoch] PROVE Has(s, other, other[i].epoch, n)
    <3>1. Has(s, queue, other[i].epoch, n) BY <2>1, <2>3 DEF Contiguous, NoGap
    <3>2. other[i].epoch \in Epochs /\ other[i].seq \in 1..Len(s[other[i].epoch]) BY <2>1 DEF FromStreams
    <3>3. last[other[i].epoch] \in Nat /\ Len(s[other[i].epoch]) \in Nat /\ last[other[i].epoch] <= Len(s[other[i].epoch])
      BY <3>2
    <3>4. n \in 1..Len(s[other[i].epoch]) BY <2>3, <3>2, <3>3
    <3> QED BY <1>4, <3>1, <3>2, <3>4
  <2> QED BY <2>2, <2>3
<1> QED BY <1>3, <1>4, <1>5, <1>6 DEF Contiguous

-----------------------------------------------------------------------------
(* The stream, the queues and the client *)

\* Revisions rise along a stream, and the session has the last one.
RevsRise ==
  /\ \A ep \in Epochs : \A m, n \in 1..Len(sent[ep]) : m <= n => sent[ep][m].rev <= sent[ep][n].rev
  /\ \A n \in 1..Len(sent[epoch]) : sent[epoch][n].rev <= rev

\* A panel that waits for nothing knows the envelope it stands at.
Fresh == channel.epoch # NoEpoch /\ channel.sess.known /\ ~channel.sess.stale
PrintFits == Fresh => channel.sess.print = Fingerprint(Env(sent, channel.epoch, channel.sess.seq))

\* What the host emits is of the revision it has then.
LEMMA RisesBy ==
  ASSUME TypeOK, RevsRise, NEW more \in Seq(EntryType), sent' = [sent EXCEPT ![epoch] = @ \o more],
         \A k \in 1..Len(more) : more[k].rev = rev', epoch' = epoch, rev' \in Nat,
         rev <= rev' \/ sent[epoch] = <<>>
  PROVE  RevsRise'
<1>1. sent \in [Epochs -> Seq(EntryType)] /\ epoch \in Epochs /\ rev \in Nat BY DEF TypeOK
<1> DEFINE old == sent[epoch]
           new == sent'[epoch]
<1>2. new = old \o more /\ old \in Seq(EntryType) /\ \A ep \in Epochs \ {epoch} : sent'[ep] = sent[ep] BY <1>1
<1>3. \A n \in 1..Len(old) : old[n] \in EntryType /\ old[n].rev <= rev BY <1>2 DEF RevsRise
<1>4. \A m, n \in 1..Len(old) : m <= n => old[m].rev <= old[n].rev BY <1>1 DEF RevsRise
<1> HIDE DEF old, new
<1>5. \A n \in 1..Len(old) : old[n].rev \in Nat /\ old[n].rev <= rev'
  <2>1. \A n \in 1..Len(old) : old[n].rev \in Nat BY <1>3 DEF EntryType
  <2>2. CASE rev <= rev' BY <1>1, <1>3, <2>1, <2>2
  <2>3. CASE sent[epoch] = <<>> BY <2>1, <2>3 DEF old
  <2> QED BY <2>1, <2>2, <2>3
<1>6. /\ Len(old) \in Nat /\ Len(new) = Len(old) + Len(more) /\ Len(more) \in Nat
      /\ \A n \in 1..Len(new) : \/ n \in 1..Len(old) /\ new[n] = old[n]
                                \/ n > Len(old) /\ n - Len(old) \in 1..Len(more) /\ new[n] = more[n - Len(old)]
  BY <1>2
<1>7. \A n \in 1..Len(new) : new[n].rev <= rev' /\ (n > Len(old) => new[n].rev = rev')
  <2> SUFFICES ASSUME NEW n \in 1..Len(new) PROVE new[n].rev <= rev' /\ (n > Len(old) => new[n].rev = rev') OBVIOUS
  <2>1. CASE n \in 1..Len(old) /\ new[n] = old[n] BY <1>5, <1>6, <2>1
  <2>2. CASE n > Len(old) /\ n - Len(old) \in 1..Len(more) /\ new[n] = more[n - Len(old)]
    <3>1. new[n].rev = rev' BY <2>2
    <3> QED BY <2>2, <3>1
  <2> QED BY <1>6, <2>1, <2>2
<1>8. ASSUME NEW m \in 1..Len(new), NEW n \in 1..Len(new), m <= n PROVE new[m].rev <= new[n].rev
  <2>1. CASE n > Len(old) BY <1>7, <2>1
  <2>2. CASE ~(n > Len(old))
    <3>1. m \in 1..Len(old) /\ n \in 1..Len(old) BY <1>6, <1>8, <2>2
    <3>2. new[m] = old[m] /\ new[n] = old[n] BY <1>6, <1>8, <2>2
    <3> QED BY <1>4, <1>8, <3>1, <3>2
  <2> QED BY <2>1, <2>2
<1>9. \A ep \in Epochs \ {epoch} : \A m, n \in 1..Len(sent'[ep]) : m <= n => sent'[ep][m].rev <= sent'[ep][n].rev
  BY <1>2 DEF RevsRise
<1> QED BY <1>7, <1>8, <1>9 DEF RevsRise, new

\* Every step of the host keeps the order of its revisions.
LEMMA RevsRiseKept == ASSUME StreamInv, RevsRise, [Next]_vars PROVE RevsRise'
<1>0. TypeOK /\ rev \in Nat /\ rev + 1 \in Nat /\ epoch \in Epochs /\ sent \in [Epochs -> Seq(EntryType)]
      /\ transcript \in Nat /\ transcript + 1 \in Nat
  BY DEF StreamInv, TypeOK
<1>1. ASSUME NEW entry \in EntryType, Emit(entry), entry.rev = rev', epoch' = epoch, rev' \in Nat,
             rev <= rev' \/ sent[epoch] = <<>>
      PROVE  RevsRise'
  <2> DEFINE more == <<entry>>
  <2>1. more \in Seq(EntryType) /\ Len(more) = 1 /\ more[1] = entry OBVIOUS
  <2>2. sent[epoch] \in Seq(EntryType) BY <1>0
  <2>3. Append(sent[epoch], entry) = sent[epoch] \o more BY <2>2
  <2>4. sent' = [sent EXCEPT ![epoch] = sent[epoch] \o more] BY <1>1, <2>3 DEF Emit
  <2> HIDE DEF more
  <2>5. \A k \in 1..Len(more) : more[k].rev = rev' BY <1>1, <2>1
  <2> QED BY <1>0, <1>1, <2>1, <2>4, <2>5, RisesBy
<1>2. CASE \E revision \in {0, 1} : Open(revision)
  <2>1. PICK revision \in {0, 1} : Open(revision) BY <1>2
  <2>2. Snapshot(revision, transcript) \in EntryType /\ Snapshot(revision, transcript).rev = revision
    BY <1>0, EntriesTyped DEF Snapshot, Entry
  <2>3. sent[epoch] = <<>> BY <2>1 DEF Open, StreamInv, NothingBeforeOpen
  <2> QED BY <1>1, <2>1, <2>2, <2>3 DEF Open
<1>3. CASE Announce \/ EmitQueued
  <2>1. CASE sent' = sent /\ rev' = rev /\ epoch' = epoch BY <2>1 DEF RevsRise
  <2>2. CASE Emit(Message(rev + 1)) /\ rev' = rev + 1 /\ epoch' = epoch
    <3>1. Message(rev + 1) \in EntryType /\ Message(rev + 1).rev = rev + 1 BY <1>0, EntriesTyped DEF Message, Entry
    <3> QED BY <1>0, <1>1, <2>2, <3>1
  <2> QED BY <1>3, <2>1, <2>2 DEF Announce, EmitQueued
<1>4. CASE \E appended \in {0, 1} : FinishMutation(appended)
  <2>1. PICK appended \in {0, 1} : FinishMutation(appended) BY <1>4
  <2>2. transcript + appended \in Nat BY <1>0
  <2>3. Snapshot(rev + 1, transcript + appended) \in EntryType /\ Snapshot(rev + 1, transcript + appended).rev = rev + 1
    BY <1>0, <2>2, EntriesTyped DEF Snapshot, Entry
  <2> QED BY <1>0, <1>1, <2>1, <2>3 DEF FinishMutation
<1>5. CASE SendSnapshot
  <2>1. Snapshot(rev, transcript) \in EntryType /\ Snapshot(rev, transcript).rev = rev
    BY <1>0, EntriesTyped DEF Snapshot, Entry
  <2>2. Emit(Snapshot(rev, transcript)) /\ rev' = rev /\ epoch' = epoch BY <1>5 DEF SendSnapshot, hostVars
  <2> QED BY <1>0, <1>1, <2>1, <2>2
<1>6. CASE \E running \in {0, 1} : AnnounceExecution(running)
  <2>1. PICK running \in {0, 1} : AnnounceExecution(running) BY <1>6
  <2>2. Execution(rev, running) \in EntryType /\ Execution(rev, running).rev = rev
    BY <1>0, EntriesTyped DEF Execution, Entry, EntryType, Types
  <2>3. Emit(Execution(rev, running)) /\ rev' = rev /\ epoch' = epoch BY <2>1 DEF AnnounceExecution, hostVars
  <2> QED BY <1>0, <1>1, <2>2, <2>3
<1>7. CASE \E raised \in {0, 1} : EndExecution(raised)
  <2>1. PICK raised \in {0, 1} : EndExecution(raised) BY <1>7
  <2>2. rev + raised \in Nat /\ rev' = rev + raised /\ rev <= rev' /\ epoch' = epoch BY <1>0, <2>1 DEF EndExecution
  <2> DEFINE first == Execution(rev + raised, 0)
             second == Snapshot(rev + raised, transcript)
             more == <<first, second>>
  <2>3. first \in EntryType /\ second \in EntryType /\ first.rev = rev' /\ second.rev = rev'
    BY <1>0, <2>2, EntriesTyped DEF Execution, Snapshot, Entry, EntryType, Types
  <2>4. sent' = [sent EXCEPT ![epoch] = @ \o more] BY <2>1 DEF EndExecution
  <2> HIDE DEF first, second
  <2>5. more \in Seq(EntryType) /\ Len(more) = 2 /\ more[1] = first /\ more[2] = second BY <2>3
  <2>6. \A k \in 1..Len(more) : more[k].rev = rev' BY <2>3, <2>5
  <2> HIDE DEF more
  <2> QED BY <1>0, <2>2, <2>4, <2>5, <2>6, RisesBy
<1>8. CASE Restart
  <2>1. epoch' = epoch + 1 /\ epoch' \in Epochs /\ sent' = sent BY <1>0, <1>8, EpochAssumption DEF Restart, Epochs
  <2>2. sent[epoch'] = <<>> BY <1>0, <2>1 DEF StreamInv, NothingBeforeOpen, Epochs
  <2> QED BY <2>1, <2>2 DEF RevsRise
<1>9. CASE UNCHANGED <<sent, rev, epoch>> BY <1>9 DEF RevsRise
<1> QED
  BY <1>2, <1>3, <1>4, <1>5, <1>6, <1>7, <1>8, <1>9
     DEF Next, HostNext, PanelNext, vars, hostVars, EmitHello, BeginMutation, FailMutation, Checkpoint,
         ReceiveHello, Receive, Reopen

\* Streams grow, so what was sent stays where it is.
LEMMA SentExtends == ASSUME StreamInv, [Next]_vars PROVE Extends(sent, sent')
<1>1. Grows BY StreamStep
<1> QED BY <1>1 DEF Grows, Extends, StreamInv, TypeOK

\* The panel remembers the envelope it applied.
LEMMA PrintKept == ASSUME StreamInv, PrintFits, [Next]_vars PROVE PrintFits'
<1>0. channel \in [epoch : Epochs \cup {NoEpoch}, sess : SessionType] BY DEF StreamInv, TypeOK
<1>1. CASE channel' = channel
  <2> SUFFICES ASSUME Fresh PROVE channel.sess.print = Fingerprint(Env(sent', channel.epoch, channel.sess.seq))
    BY <1>1 DEF PrintFits, Fresh
  <2>1. channel.epoch \in Epochs /\ channel.sess.seq \in DOMAIN sent[channel.epoch]
    BY DEF Fresh, StreamInv, KnownHasEpoch, ViewFollowsStream
  <2>2. Extends(sent, sent') BY SentExtends
  <2>3. channel.sess.seq \in 1..Len(sent[channel.epoch]) BY <2>1, <2>2 DEF Extends
  <2> QED BY <2>1, <2>2, <2>3, EnvKept DEF PrintFits
<1>2. ASSUME NEW hello \in hellos, ReceiveHello(hello) PROVE PrintFits'
  <2>1. channel' = ReduceHello(channel, hello) /\ sent' = sent BY <1>2 DEF ReceiveHello
  <2>2. CASE channel.epoch = hello.epoch
    <3>1. Fresh' => channel'.sess = channel.sess /\ channel'.epoch = channel.epoch
      BY <1>0, <2>1, <2>2 DEF ReduceHello, Fresh, EmptySession, Absent, SessionType
    <3> QED BY <2>1, <3>1 DEF PrintFits, Fresh
  <2>3. CASE channel.epoch # hello.epoch
    <3>1. ~Fresh' BY <1>0, <2>1, <2>3 DEF ReduceHello, Fresh, EmptySession, Absent, SessionType
    <3> QED BY <3>1 DEF PrintFits
  <2> QED BY <2>2, <2>3
<1>3. ASSUME NEW ep \in Epochs, NEW n \in DOMAIN sent[ep], Receive(Envelope(ep, n)) PROVE PrintFits'
  <2> DEFINE e == Envelope(ep, n)
             r == ReduceSessionStream(channel, e)
  <2>1. e.epoch = ep /\ e.seq = n /\ e = Env(sent, ep, n) BY EnvelopeTyped DEF StreamInv, Envelope, Env
  <2>2. channel' = [channel EXCEPT !.sess = r.sess] /\ sent' = sent BY <1>3 DEF Receive
  <2> HIDE DEF e
  <2>3. \/ r.sess = channel.sess
        \/ r.sess.stale
        \/ channel.epoch = e.epoch /\ r.sess.seq = e.seq /\ r.sess.print = Fingerprint(e)
    BY <1>0 DEF ReduceSessionStream, ApplySnapshot, ApplyEvent, Outcome, Applied, MarkStale, EmptySession, Absent, SessionType
  <2> HIDE DEF r
  <2>4. channel'.epoch = channel.epoch /\ channel'.sess = r.sess BY <1>0, <2>2
  <2> QED BY <2>1, <2>2, <2>3, <2>4 DEF PrintFits, Fresh
<1>4. CASE Reopen BY <1>4 DEF Reopen, PrintFits, Fresh, NewChannel
<1>5. CASE HostNext \/ UNCHANGED vars
  BY <1>1, <1>5, HostSteps DEF vars, panelVars
<1> QED BY <1>2, <1>3, <1>4, <1>5 DEF Next, PanelNext

\* What is in a queue of the route comes from the streams.
LEMMA Sourced ==
  ASSUME StreamInv, NEW queue \in Seq(Sendable)
  PROVE  /\ FromStreams(sent, queue)
         /\ \A i \in DOMAIN queue : IsHello(queue[i]) => queue[i] \in hellos /\ queue[i].epoch \in Epochs
         /\ \A i \in DOMAIN queue : IsAnswer(queue[i]) => queue[i] \in AnswerType
<1>1. ASSUME NEW i \in DOMAIN queue, IsStream(queue[i])
      PROVE  /\ queue[i].epoch \in Epochs /\ queue[i].seq \in 1..Len(sent[queue[i].epoch])
             /\ queue[i] = Env(sent, queue[i].epoch, queue[i].seq)
  <2>1. queue[i] \in Sendable OBVIOUS
  <2>2. PICK ep \in Epochs : \E n \in DOMAIN sent[ep] : queue[i] = Envelope(ep, n) BY <1>1, <2>1, SentByHost DEF IsStream
  <2>3. PICK n \in DOMAIN sent[ep] : queue[i] = Envelope(ep, n) BY <2>2
  <2> QED BY <2>3, EnvelopeTyped DEF StreamInv, Envelope, Env
<1>2. ASSUME NEW i \in DOMAIN queue, IsHello(queue[i]) PROVE queue[i] \in hellos /\ queue[i].epoch \in Epochs
  <2>1. queue[i] \in Sendable OBVIOUS
  <2>2. queue[i] \in hellos BY <1>2, <2>1, SentByHost DEF IsHello
  <2> QED BY <2>2 DEF StreamInv, TypeOK, HelloType
<1>3. ASSUME NEW i \in DOMAIN queue, IsAnswer(queue[i]) PROVE queue[i] \in AnswerType
  <2>1. queue[i] \in Sendable OBVIOUS
  <2> QED BY <1>3, <2>1, QueuedAnswer
<1> QED BY <1>1, <1>2, <1>3 DEF FromStreams

\* The offscreen document streams what its host sent, and nothing once it is dead.
WireFits ==
  /\ ~up => wire = <<>>
  /\ \A i \in DOMAIN wire : ~IsAnswer(wire[i]) => wire[i].epoch = epoch
  /\ Contiguous(sent, wire, Lasts(sent))

\* What was on the wire stays there, and what is sent goes there.
WireGrows ==
  /\ up' = up /\ epoch' = epoch
  /\ \A n \in 1..Len(sent'[epoch]) :
       n > Len(sent[epoch]) \/ Has(sent, wire, epoch, n) => Has(sent', wire', epoch, n)

\* What the host emitted goes to the end of the wire, an answer behind it.
LEMMA PublishesFits ==
  ASSUME RouteInv, WireFits, [RouteNext]_routeVars, up, up' = up, epoch' = epoch,
         NEW answer \in Seq(AnswerType), Publishes(answer)
  PROVE  WireFits' /\ WireGrows
<1>1. StreamInv /\ Extends(sent, sent') /\ epoch \in Epochs /\ wire \in Seq(Sendable)
  BY StreamPart, SentExtends DEF RouteInv, OffscreenTyped, StreamInv, TypeOK
<1>2. FromStreams(sent, wire) BY <1>1, Sourced
<1> DEFINE new == [i \in 1..(Len(sent'[epoch]) - Len(sent[epoch])) |-> Env(sent', epoch, Len(sent[epoch]) + i)]
           all == wire \o new
<1>3. \A i \in DOMAIN wire : IsStream(wire[i]) => wire[i].epoch = epoch BY DEF WireFits, IsStream
<1>4. Contiguous(sent, wire, Lasts(sent)) BY DEF WireFits
<1>5. /\ Contiguous(sent', all, Lasts(sent')) /\ FromStreams(sent', all)
      /\ \A n \in 1..Len(sent[epoch]) : Has(sent, wire, epoch, n) => Has(sent', all, epoch, n)
      /\ \A n \in 1..Len(sent'[epoch]) : n > Len(sent[epoch]) => Has(sent', all, epoch, n)
      /\ \A i \in DOMAIN all : \/ i \in DOMAIN wire /\ all[i] = wire[i]
                               \/ IsStream(all[i]) /\ all[i].epoch = epoch /\ i > Len(wire)
  <2>1. Extends(sent, sent') /\ epoch \in Epochs /\ wire \in Seq(Sendable) BY <1>1
  <2> QED BY <1>2, <1>3, <1>4, <2>1, GrowthContiguous
<1>6. NewEnvelopes = new BY DEF NewEnvelopes, Env, Seq0
<1>7. wire' = all \o answer BY <1>6 DEF Publishes
<1>8. all \in Seq(Sendable')
  <2>1. NewEnvelopes \in Seq(Sendable') /\ wire \in Seq(Sendable') BY StreamPart, NewEnvelopesTyped
  <2> HIDE DEF new
  <2> QED BY <1>6, <2>1
<1> HIDE DEF new, all
<1>9. answer \in Seq(Sendable') BY QueueKept DEF Sendable
<1>10. \A k \in DOMAIN answer : IsAnswer(answer[k]) /\ ~IsStream(answer[k])
  <2>1. \A k \in DOMAIN answer : answer[k] \in AnswerType OBVIOUS
  <2> QED BY <2>1 DEF IsAnswer, IsStream, AnswerType
<1>11. Lasts(sent') \in [Epochs -> Nat] BY <1>1 DEF Lasts, Extends
<1>12. /\ Contiguous(sent', wire', Lasts(sent'))
       /\ \A e, n : Has(sent', all, e, n) => Has(sent', wire', e, n)
  BY <1>5, <1>7, <1>8, <1>9, <1>10, <1>11, OthersContiguous
<1>13. \A i \in DOMAIN wire' : \/ i \in DOMAIN all /\ wire'[i] = all[i]
                               \/ IsAnswer(wire'[i])
  <2>1. \A i \in DOMAIN wire' : \/ i \in DOMAIN all /\ wire'[i] = all[i]
                                \/ \E k \in DOMAIN answer : wire'[i] = answer[k]
    BY <1>7, <1>8, <1>9
  <2> QED BY <1>10, <2>1
<1>14. \A i \in DOMAIN wire' : ~IsAnswer(wire'[i]) => wire'[i].epoch = epoch'
  BY <1>5, <1>13 DEF WireFits
<1>15. \A n \in 1..Len(sent'[epoch]) :
         n > Len(sent[epoch]) \/ Has(sent, wire, epoch, n) => Has(sent', wire', epoch, n)
  <2>1. Len(sent[epoch]) \in Nat /\ Len(sent'[epoch]) \in Nat BY <1>1 DEF Extends
  <2> QED BY <1>5, <1>12, <2>1
<1> QED BY <1>12, <1>14, <1>15 DEF WireFits, WireGrows

\* Only hellos and answers join the wire.
LEMMA JoinsFits ==
  ASSUME RouteInv, WireFits, [RouteNext]_routeVars, up, up' = up, epoch' = epoch, sent' = sent,
         NEW more \in Seq(Sendable'), wire' = wire \o more,
         \A k \in DOMAIN more : ~IsStream(more[k]) /\ (~IsAnswer(more[k]) => more[k].epoch = epoch)
  PROVE  WireFits' /\ WireGrows
<1>1. StreamInv /\ epoch \in Epochs /\ wire \in Seq(Sendable) /\ wire \in Seq(Sendable')
      /\ \A ep \in Epochs : sent[ep] \in Seq(EntryType)
  BY StreamPart DEF RouteInv, OffscreenTyped, StreamInv, TypeOK
<1>2. FromStreams(sent, wire) BY <1>1, Sourced
<1>3. Lasts(sent) \in [Epochs -> Nat] BY <1>1 DEF Lasts
<1>4. Contiguous(sent, wire, Lasts(sent)) BY DEF WireFits
<1>5. /\ Contiguous(sent, wire', Lasts(sent))
      /\ \A e, n : Has(sent, wire, e, n) => Has(sent, wire', e, n)
  BY <1>1, <1>2, <1>3, <1>4, OthersContiguous
<1>6. \A i \in DOMAIN wire' : \/ i \in DOMAIN wire /\ wire'[i] = wire[i]
                              \/ \E k \in DOMAIN more : wire'[i] = more[k]
  BY <1>1
<1>7. \A i \in DOMAIN wire' : ~IsAnswer(wire'[i]) => wire'[i].epoch = epoch
  BY <1>6 DEF WireFits
<1>8. Len(sent[epoch]) \in Nat BY <1>1
<1>9. WireFits' BY <1>5, <1>7 DEF WireFits
<1>10. \A n \in 1..Len(sent'[epoch]) :
         n > Len(sent[epoch]) \/ Has(sent, wire, epoch, n) => Has(sent', wire', epoch, n)
  BY <1>5, <1>8
<1> QED BY <1>9, <1>10 DEF WireGrows

\* Requests that are forgotten leave the streams of the wire as they are.
LEMMA ForgetFits ==
  ASSUME RouteInv, WireFits, UNCHANGED <<up, epoch, sent, hellos>>, NEW ids, Forget(ids, wire)
  PROVE  WireFits' /\ WireGrows
<1>1. StreamInv /\ epoch \in Epochs /\ wire \in Seq(Sendable)
      /\ \A ep \in Epochs : sent[ep] \in Seq(EntryType)
  BY DEF RouteInv, OffscreenTyped, StreamInv, TypeOK
<1>2. FromStreams(sent, wire) BY <1>1, Sourced
<1>3. Lasts(sent) \in [Epochs -> Nat] /\ \A ep \in Epochs : Lasts(sent)[ep] <= Len(sent[ep]) BY <1>1 DEF Lasts
<1>4. Contiguous(sent, wire, Lasts(sent)) BY DEF WireFits
<1>5. DOMAIN wire' = DOMAIN wire /\ \A i \in DOMAIN wire :
        wire'[i] = wire[i] \/ (IsAnswer(wire[i]) /\ IsAnswer(wire'[i]))
  BY DEF Forget, IsAnswer, Answer
<1>6. \A i \in DOMAIN wire : wire'[i] = wire[i] \/ (~IsStream(wire[i]) /\ ~IsStream(wire'[i]))
  BY <1>5 DEF IsStream
<1>7. /\ Contiguous(sent, wire', Lasts(sent))
      /\ \A ep \in Epochs : \A n \in 1..Len(sent[ep]) : Has(sent, wire, ep, n) => Has(sent, wire', ep, n)
  BY <1>1, <1>2, <1>3, <1>4, <1>5, <1>6, ReplacedContiguous
<1>8. wire = <<>> => wire' = <<>>
  <2>1. wire' \in Seq(Sendable') BY ForgetTyped, <1>1 DEF RouteInv
  <2> QED BY <1>5, <2>1
<1>9. WireFits' BY <1>5, <1>7, <1>8 DEF WireFits
<1>10. Len(sent[epoch]) \in Nat BY <1>1
<1>11. \A n \in 1..Len(sent'[epoch]) :
         n > Len(sent[epoch]) \/ Has(sent, wire, epoch, n) => Has(sent', wire', epoch, n)
  BY <1>1, <1>7, <1>10
<1> QED BY <1>9, <1>11 DEF WireGrows

\* What is not touched stays so.
LEMMA WireSame ==
  ASSUME WireFits, UNCHANGED <<up, epoch, sent, wire>>
  PROVE  WireFits' /\ WireGrows
BY DEF WireFits, WireGrows, Contiguous, InOrder, NoGap, Has, Lasts

\* An answer is no stream.
LEMMA AnswersJoin ==
  ASSUME NEW id \in CallIds, NEW ok \in BOOLEAN, NEW k \in DOMAIN AnswerTo(id, ok)
  PROVE  IsAnswer(AnswerTo(id, ok)[k]) /\ ~IsStream(AnswerTo(id, ok)[k])
<1>1. AnswerTo(id, ok)[k] = Answer(id, ok)
  <2>1. CASE id = NoCall BY <2>1 DEF AnswerTo
  <2>2. CASE id # NoCall BY <2>2 DEF AnswerTo
  <2> QED BY <2>1, <2>2
<1> QED BY <1>1 DEF Answer, IsAnswer, IsStream

\* A document that is there stays what it is while it handles its requests.
LEMMA HandleKeepsEpoch ==
  ASSUME RouteInv, AgentAnnounces \/ HandleCall \/ PromptSucceeds \/ PromptStops
  PROVE  up /\ up' = up /\ epoch' = epoch
BY DEF AgentAnnounces, Announce, HandleCall, HandleConnect, HandleRead, HandleCreate, HandlePrompt, HandleAbort,
   Refuse, EmitHello, SendSnapshot, Open, AnnounceExecution, PromptSucceeds, PromptStops, FinishPrompt,
   EndExecution, HostOnly, vars, hostVars

\* Every step keeps the wire's order, and all but a delivery and a death what is to come.
LEMMA WireKept ==
  ASSUME RouteInv, WireFits, [RouteNext]_routeVars
  PROVE  WireFits' /\ (WireGrows \/ RouteStream \/ WorkerDies \/ OffscreenDies \/ (Initialize /\ ~up))
<1>0. /\ wire \in Seq(Sendable) /\ wire \in Seq(Sendable') /\ StreamInv /\ [Next]_vars /\ StreamInv'
      /\ calls \in SUBSET CallType /\ run.call \in CallIds /\ run.active \in BOOLEAN
      /\ epoch \in Epochs /\ sent \in [Epochs -> Seq(EntryType)]
  BY StreamPart DEF RouteInv, OffscreenTyped, StreamInv, TypeOK
<1>1. FromStreams(sent, wire) BY <1>0, Sourced
<1>2. CASE UNCHANGED <<up, epoch, sent, wire>> BY <1>2, WireSame
<1>3. CASE AgentAnnounces
  <2>1. Publishes(<<>>) /\ <<>> \in Seq(AnswerType) BY <1>3 DEF AgentAnnounces
  <2> QED BY <1>3, <2>1, HandleKeepsEpoch, PublishesFits
<1>4. CASE HandleCall
  <2>0. up /\ up' = up /\ epoch' = epoch BY <1>4, HandleKeepsEpoch
  <2>1. PICK c \in calls :
          \/ HandleConnect(c) \/ HandleRead(c) \/ HandleCreate(c)
          \/ HandlePrompt(c) \/ HandleAbort(c) \/ Refuse(c)
    BY <1>4 DEF HandleCall
  <2>2. c.id \in CallIds BY <1>0 DEF CallType
  <2>3. \A ok \in BOOLEAN : AnswerTo(c.id, ok) \in Seq(AnswerType) BY <2>2, AnswersTyped
  <2>4. \A ok \in BOOLEAN : AnswerTo(c.id, ok) \in Seq(Sendable')
    <3>1. AnswerType \subseteq Sendable' BY DEF Sendable
    <3> QED BY <2>3, <3>1, QueueKept
  <2>5. CASE HandleConnect(c)
    <3> DEFINE answer == AnswerTo(c.id, TRUE)
               more == <<Cursor>> \o answer
    <3>1. Cursor \in hellos' /\ sent' = sent BY <2>5 DEF HandleConnect, EmitHello
    <3>2. Cursor \in Sendable' BY <3>1 DEF Sendable
    <3>3. Cursor.type = "hello" /\ Cursor.epoch = epoch BY DEF Cursor, Hello
    <3>4. ~IsStream(Cursor) /\ ~IsAnswer(Cursor) BY <3>3 DEF IsStream, IsAnswer
    <3>5. answer \in Seq(Sendable') BY <2>4
    <3>6. \A k \in DOMAIN answer : IsAnswer(answer[k]) /\ ~IsStream(answer[k]) BY <2>2, AnswersJoin
    <3>7. wire' = wire \o <<Cursor>> \o answer BY <2>5 DEF HandleConnect
    <3> HIDE DEF answer
    <3>8. more \in Seq(Sendable') /\ wire' = wire \o more BY <1>0, <3>2, <3>5, <3>7
    <3>9. \A k \in DOMAIN more : more[k] = Cursor \/ \E l \in DOMAIN answer : more[k] = answer[l]
      BY <3>2, <3>5
    <3> HIDE DEF more
    <3>10. \A k \in DOMAIN more : ~IsStream(more[k]) /\ (~IsAnswer(more[k]) => more[k].epoch = epoch)
      BY <3>3, <3>4, <3>6, <3>9
    <3> QED BY <2>0, <3>1, <3>8, <3>10, JoinsFits
  <2>6. CASE HandleRead(c) \/ HandleCreate(c)
    <3>1. Publishes(AnswerTo(c.id, TRUE)) BY <2>6 DEF HandleRead, HandleCreate
    <3> QED BY <2>0, <2>3, <3>1, PublishesFits
  <2>7. CASE HandlePrompt(c)
    <3>1. Publishes(<<>>) /\ <<>> \in Seq(AnswerType) BY <2>7 DEF HandlePrompt
    <3> QED BY <2>0, <3>1, PublishesFits
  <2>8. CASE HandleAbort(c)
    <3>1. (~run.active) \in BOOLEAN OBVIOUS
    <3>2. AnswerTo(c.id, ~run.active) \in Seq(AnswerType) BY <2>3, <3>1
    <3>3. Publishes(AnswerTo(c.id, ~run.active)) BY <2>8 DEF HandleAbort
    <3> QED BY <2>0, <3>2, <3>3, PublishesFits
  <2>9. CASE Refuse(c)
    <3> DEFINE more == AnswerTo(c.id, FALSE)
    <3>1. wire' = wire \o more /\ sent' = sent /\ more \in Seq(Sendable') BY <2>4, <2>9 DEF Refuse, vars
    <3>2. \A k \in DOMAIN more : IsAnswer(more[k]) /\ ~IsStream(more[k]) BY <2>2, AnswersJoin
    <3> HIDE DEF more
    <3> QED BY <2>0, <3>1, <3>2, JoinsFits
  <2> QED BY <2>1, <2>5, <2>6, <2>7, <2>8, <2>9
<1>5. CASE PromptSucceeds \/ PromptStops
  <2>0. up /\ up' = up /\ epoch' = epoch BY <1>5, HandleKeepsEpoch
  <2>1. PICK succeeded \in BOOLEAN : FinishPrompt(succeeded) BY <1>5 DEF PromptSucceeds, PromptStops
  <2>2. AnswerTo(run.call, succeeded) \in Seq(AnswerType) BY <1>0, AnswersTyped
  <2>3. Publishes(AnswerTo(run.call, succeeded)) BY <2>1 DEF FinishPrompt
  <2> QED BY <2>0, <2>2, <2>3, PublishesFits
<1>6. CASE OffscreenDies
  <2>1. wire' = <<>> BY <1>6 DEF OffscreenDies
  <2>2. WireFits' BY <2>1 DEF WireFits, Contiguous, InOrder, NoGap
  <2> QED BY <1>6, <2>2
<1>7. CASE RouteStream
  <2>1. wire # <<>> /\ wire' = Tail(wire) /\ UNCHANGED <<up, epoch, sent>> BY <1>7 DEF RouteStream, vars
  <2>2. \A i \in DOMAIN wire' : i + 1 \in DOMAIN wire /\ wire'[i] = wire[i + 1] BY <1>0, <2>1
  <2>3. \A i \in DOMAIN wire' : ~IsAnswer(wire'[i]) => wire'[i].epoch = epoch' BY <2>1, <2>2 DEF WireFits
  <2>4. /\ Lasts(sent) \in [Epochs -> Nat]
        /\ \A ep \in Epochs : sent[ep] \in Seq(EntryType) /\ Lasts(sent)[ep] <= Len(sent[ep])
    BY <1>0 DEF Lasts
  <2>5. Contiguous(sent, wire', Lasts(sent)) BY <1>0, <1>1, <2>1, <2>4, TailContiguous DEF WireFits
  <2>6. Contiguous(sent', wire', Lasts(sent')) BY <2>1, <2>5
  <2>7. up' BY <2>1 DEF WireFits
  <2> QED BY <1>7, <2>3, <2>6, <2>7 DEF WireFits
<1>8. CASE Initialize
  <2>1. CASE up BY <1>2, <1>8, <2>1 DEF Initialize, vars
  <2>2. CASE ~up
    <3>1. wire' = <<>> BY <1>8, <2>2 DEF Initialize, WireFits
    <3>2. WireFits' BY <3>1 DEF WireFits, Contiguous, InOrder, NoGap
    <3> QED BY <1>8, <2>2, <3>2
  <2> QED BY <2>1, <2>2
<1>9. CASE PortDrops \/ ReopenPanel
  <2>1. Forget({port.busy} \ {NoCall}, wire) /\ UNCHANGED <<up, epoch, sent, hellos>>
    BY <1>9 DEF PortDrops, ReopenPanel, Reopen, vars, hostVars
  <2> QED BY <2>1, ForgetFits
<1>10. CASE WorkerDies
  <2> DEFINE ids == {ConnectCall, RecoverCall} \cup PanelCalls
  <2>0. UNCHANGED <<up, epoch, sent, hellos>> BY <1>10 DEF WorkerDies, vars
  <2>1. CASE Forget(ids, wire) BY <1>10, <2>0, <2>1, ForgetFits
  <2>2. CASE wire # <<>> /\ Forget(ids, Tail(wire))
    <3> DEFINE rest == Tail(wire)
    <3>1. /\ rest \in Seq(Sendable)
          /\ \A i \in DOMAIN rest : i + 1 \in DOMAIN wire /\ rest[i] = wire[i + 1]
      BY <1>0, <2>2
    <3>2. /\ Lasts(sent) \in [Epochs -> Nat]
          /\ \A ep \in Epochs : sent[ep] \in Seq(EntryType) /\ Lasts(sent)[ep] <= Len(sent[ep])
      BY <1>0 DEF Lasts
    <3>3. Contiguous(sent, rest, Lasts(sent)) /\ FromStreams(sent, rest)
      BY <1>0, <1>1, <2>2, <3>2, TailContiguous DEF WireFits
    <3>4. Forget(ids, rest) BY <2>2
    <3> HIDE DEF rest
    <3>5. DOMAIN wire' = DOMAIN rest /\ \A i \in DOMAIN rest :
            wire'[i] = rest[i] \/ (IsAnswer(rest[i]) /\ IsAnswer(wire'[i]))
      BY <3>4 DEF Forget, IsAnswer, Answer
    <3>6. \A i \in DOMAIN rest : wire'[i] = rest[i] \/ (~IsStream(rest[i]) /\ ~IsStream(wire'[i]))
      BY <3>5 DEF IsStream
    <3>7. Contiguous(sent, wire', Lasts(sent)) BY <3>2, <3>3, <3>5, <3>6, ReplacedContiguous
    <3>8. \A i \in DOMAIN wire' : ~IsAnswer(wire'[i]) => wire'[i].epoch = epoch
      BY <3>1, <3>5 DEF WireFits
    <3>9. up' BY <2>0, <2>2 DEF WireFits
    <3> QED BY <1>10, <2>0, <3>7, <3>8, <3>9 DEF WireFits
  <2> QED BY <1>10, <2>1, <2>2 DEF WorkerDies
<1>11. CASE SaveCheckpoint \/ Reconnect \/ RecoverAccepted \/ FinishRecovery \/ WorkerServes
  BY <1>2, <1>11
     DEF SaveCheckpoint, Checkpoint, Reconnect, RecoverAccepted, FinishRecovery, WorkerServes, BindRoute, FinishBind,
         ForwardRequest, Respond, vars, offscreenVars
<1>12. CASE PanelReceives
  BY <1>2, <1>12
     DEF PanelReceives, PanelReceivesHello, PanelReceivesEnvelope, PanelReceivesAnswer, PanelOnly, ReceiveHello,
         Receive, vars, hostVars, offscreenVars
<1>13. CASE RecoveryTimeout \/ ResyncTimeout \/ EnsureConnected \/ SendPrompt \/ AbortActive
  BY <1>2, <1>13
     DEF RecoveryTimeout, ResyncTimeout, EnsureConnected, SendPrompt, AbortActive, PanelOnly, vars, offscreenVars
<1>14. CASE UNCHANGED routeVars BY <1>2, <1>14 DEF routeVars, vars, offscreenVars
<1> QED
  BY <1>3, <1>4, <1>5, <1>6, <1>7, <1>8, <1>9, <1>10, <1>11, <1>12, <1>13, <1>14 DEF RouteNext, WorkerStarts

\* Hellos on a port: of epochs it was greeted for, once each, and before their streams.
HellosFirst(queue, greeted) ==
  \A i \in DOMAIN queue : IsHello(queue[i]) =>
    /\ queue[i].epoch \in greeted
    /\ \A j \in DOMAIN queue : IsHello(queue[j]) /\ queue[j].epoch = queue[i].epoch => i = j
    /\ \A j \in DOMAIN queue : IsStream(queue[j]) /\ queue[j].epoch = queue[i].epoch => i < j

\* All of a stream behind a position is in the queue.
Rest(streams, queue, ep, seen) ==
  \A n \in Nat : seen < n /\ n <= Len(streams[ep]) => Has(streams, queue, ep, n)

\* A port that has seen something of the stream sees all that follows.
PortFits ==
  /\ ~Bound => port.greeted = {} /\ toPanel = <<>> /\ \A ep \in Epochs : port.seen[ep] = 0
  /\ \A ep \in Epochs : port.seen[ep] <= Len(sent[ep]) /\ (port.seen[ep] > 0 => ep \in port.greeted)
  /\ port.seen[epoch] > 0 => worker.hello.epoch = epoch /\ (up => Rest(sent, wire, epoch, port.seen[epoch]))
  /\ Contiguous(sent, toPanel, port.seen)
  /\ HellosFirst(toPanel, port.greeted)

\* What follows stays to come.
LEMMA RestGrows ==
  ASSUME StreamInv, Extends(sent, sent'), WireGrows, NEW seen \in Nat, Rest(sent, wire, epoch, seen)
  PROVE  Rest(sent', wire', epoch', seen)
<1>1. epoch' = epoch /\ epoch \in Epochs /\ Len(sent[epoch]) \in Nat /\ Len(sent'[epoch]) \in Nat
  BY DEF WireGrows, StreamInv, TypeOK, Extends
<1>2. ASSUME NEW n \in Nat, seen < n, n <= Len(sent'[epoch]) PROVE Has(sent', wire', epoch, n)
  <2>1. n \in 1..Len(sent'[epoch]) BY <1>1, <1>2
  <2>2. n > Len(sent[epoch]) \/ Has(sent, wire, epoch, n) BY <1>1, <1>2 DEF Rest
  <2> QED BY <2>1, <2>2 DEF WireGrows
<1> QED BY <1>1, <1>2 DEF Rest

\* A queue from which the head is taken, or which gets answers.
LEMMA QueueMoves ==
  ASSUME NEW S, NEW queue \in Seq(S), NEW greeted, HellosFirst(queue, greeted), NEW other,
         \/ queue # <<>> /\ other = Tail(queue)
         \/ \E more \in Seq(S) : other = queue \o more /\ \A k \in DOMAIN more : IsAnswer(more[k])
  PROVE  HellosFirst(other, greeted)
<1>1. CASE queue # <<>> /\ other = Tail(queue)
  <2>1. \A i \in DOMAIN other : i \in Nat /\ i + 1 \in DOMAIN queue /\ other[i] = queue[i + 1] BY <1>1
  <2> SUFFICES ASSUME NEW i \in DOMAIN other, IsHello(other[i])
               PROVE  /\ other[i].epoch \in greeted
                      /\ \A j \in DOMAIN other : IsHello(other[j]) /\ other[j].epoch = other[i].epoch => i = j
                      /\ \A j \in DOMAIN other : IsStream(other[j]) /\ other[j].epoch = other[i].epoch => i < j
    BY DEF HellosFirst
  <2>2. i \in Nat /\ i + 1 \in DOMAIN queue /\ IsHello(queue[i + 1]) /\ other[i] = queue[i + 1] BY <2>1
  <2>3. other[i].epoch \in greeted BY <2>2 DEF HellosFirst
  <2>4. ASSUME NEW j \in DOMAIN other, IsHello(other[j]), other[j].epoch = other[i].epoch PROVE i = j
    <3>1. j \in Nat /\ j + 1 \in DOMAIN queue /\ other[j] = queue[j + 1] BY <2>1
    <3>2. i + 1 = j + 1 BY <2>2, <2>4, <3>1 DEF HellosFirst
    <3> QED BY <2>2, <3>1, <3>2
  <2>5. ASSUME NEW j \in DOMAIN other, IsStream(other[j]), other[j].epoch = other[i].epoch PROVE i < j
    <3>1. j \in Nat /\ j + 1 \in DOMAIN queue /\ other[j] = queue[j + 1] BY <2>1
    <3>2. i + 1 < j + 1 BY <2>2, <2>5, <3>1 DEF HellosFirst
    <3> QED BY <2>2, <3>1, <3>2
  <2> QED BY <2>3, <2>4, <2>5
<1>2. CASE \E more \in Seq(S) : other = queue \o more /\ \A k \in DOMAIN more : IsAnswer(more[k])
  <2>1. PICK more \in Seq(S) : other = queue \o more /\ \A k \in DOMAIN more : IsAnswer(more[k]) BY <1>2
  <2>2. \A i \in DOMAIN other : \/ i \in DOMAIN queue /\ other[i] = queue[i]
                                \/ \E k \in DOMAIN more : other[i] = more[k]
    BY <2>1
  <2>3. \A i \in DOMAIN other : IsHello(other[i]) \/ IsStream(other[i]) => i \in DOMAIN queue /\ other[i] = queue[i]
    BY <2>1, <2>2 DEF IsHello, IsStream
  <2> QED BY <2>3 DEF HellosFirst
<1> QED BY <1>1, <1>2

\* The port forwards nothing, or answers only, or the panel takes what is first.
LEMMA PortFrame ==
  ASSUME RouteInv, PortFits, [RouteNext]_routeVars,
         port'.seen = port.seen, port'.greeted = port.greeted, worker'.hello = worker.hello,
         ~Bound' => ~Bound /\ toPanel' = toPanel,
         WireGrows \/ ~up' \/ (Initialize /\ ~up),
         ~WireGrows /\ ~up' => epoch' = epoch,
         \/ toPanel' = toPanel
         \/ toPanel # <<>> /\ toPanel' = Tail(toPanel)
         \/ \E more \in Seq(Sendable) : toPanel' = toPanel \o more /\ \A k \in DOMAIN more : IsAnswer(more[k])
  PROVE  PortFits'
<1>0. /\ StreamInv /\ StreamInv' /\ Extends(sent, sent') /\ toPanel \in Seq(Sendable) /\ epoch \in Epochs /\ epoch' \in Epochs
      /\ port.seen \in [Epochs -> Nat]
      /\ \A ep \in Epochs : sent[ep] \in Seq(EntryType) /\ sent'[ep] \in Seq(EntryType)
  BY StreamPart, SentExtends DEF RouteInv, PortTyped, StreamInv, TypeOK
<1>1. \A ep \in Epochs : port.seen[ep] <= Len(sent[ep]) /\ (port.seen[ep] > 0 => ep \in port.greeted) BY DEF PortFits
<1>2. FromStreams(sent, toPanel) BY <1>0, Sourced
<1>3. Contiguous(sent, toPanel, port.seen) BY DEF PortFits
<1>4. Contiguous(sent, toPanel', port.seen) /\ FromStreams(sent, toPanel')
  <2>1. CASE toPanel' = toPanel BY <1>2, <1>3, <2>1
  <2>2. CASE toPanel # <<>> /\ toPanel' = Tail(toPanel) BY <1>0, <1>1, <1>2, <1>3, <2>2, TailContiguous
  <2>3. CASE \E more \in Seq(Sendable) : toPanel' = toPanel \o more /\ \A k \in DOMAIN more : IsAnswer(more[k])
    <3>1. PICK more \in Seq(Sendable) : toPanel' = toPanel \o more /\ \A k \in DOMAIN more : IsAnswer(more[k]) BY <2>3
    <3>2. \A k \in DOMAIN more : ~IsStream(more[k]) BY <3>1 DEF IsStream
    <3>3. Contiguous(sent, toPanel \o more, port.seen) /\ FromStreams(sent, toPanel \o more)
      BY <1>0, <1>2, <1>3, <3>2, OthersContiguous
    <3> QED BY <3>1, <3>3
  <2> QED BY <2>1, <2>2, <2>3
<1>5. toPanel' \in Seq(Sendable)
  <2>1. CASE toPanel # <<>> /\ toPanel' = Tail(toPanel) BY <1>0, <2>1
  <2>2. CASE \E more \in Seq(Sendable) : toPanel' = toPanel \o more BY <1>0, <2>2
  <2> QED BY <1>0, <2>1, <2>2
<1>6. Contiguous(sent', toPanel', port.seen) BY <1>0, <1>1, <1>4, <1>5, GrownContiguous
<1>7. HellosFirst(toPanel', port.greeted)
  <2>1. HellosFirst(toPanel, port.greeted) BY DEF PortFits
  <2>2. CASE toPanel' = toPanel BY <2>1, <2>2
  <2>3. CASE toPanel' # toPanel BY <1>0, <2>1, <2>3, QueueMoves
  <2> QED BY <2>2, <2>3
<1>8. \A ep \in Epochs : port.seen[ep] <= Len(sent'[ep])
  <2> SUFFICES ASSUME NEW ep \in Epochs PROVE port.seen[ep] <= Len(sent'[ep]) OBVIOUS
  <2>1. /\ Len(sent[ep]) \in Nat /\ Len(sent'[ep]) \in Nat /\ port.seen[ep] \in Nat
        /\ Len(sent'[ep]) >= Len(sent[ep])
    BY <1>0 DEF Extends
  <2> QED BY <1>1, <2>1
<1>9. port.seen[epoch'] > 0 => worker'.hello.epoch = epoch' /\ (up' => Rest(sent', wire', epoch', port.seen[epoch']))
  <2>1. CASE WireGrows
    <3>1. up' = up /\ epoch' = epoch /\ port.seen[epoch] \in Nat BY <1>0, <2>1 DEF WireGrows
    <3> QED BY <1>0, <2>1, <3>1, RestGrows DEF PortFits
  <2>2. CASE ~WireGrows /\ ~up' BY <2>2 DEF PortFits
  <2>3. CASE Initialize /\ ~up
    <3>1. epoch' = epoch + 1 BY <2>3 DEF Initialize, Restart
    <3>2. sent[epoch'] = <<>> BY <1>0, <3>1 DEF StreamInv, NothingBeforeOpen, Epochs
    <3>3. port.seen[epoch'] <= 0 /\ port.seen[epoch'] \in Nat BY <1>0, <1>1, <3>2
    <3> QED BY <3>3
  <2> QED BY <2>1, <2>2, <2>3
<1>10. ~Bound' => port'.greeted = {} /\ toPanel' = <<>> /\ \A ep \in Epochs : port'.seen[ep] = 0
  BY DEF PortFits
<1> QED BY <1>1, <1>6, <1>7, <1>8, <1>9, <1>10 DEF PortFits

\* A port that is closed has nothing to be right about.
LEMMA ClosedFits ==
  ASSUME RouteInv, [RouteNext]_routeVars, ClosePort
  PROVE  PortFits'
<1>0. StreamInv' BY StreamPart
<1>1. port' = ClosedPort /\ toPanel' = <<>> BY DEF ClosePort
<1>2. ClosedPort.greeted = {} /\ ClosedPort.state = "closed" /\ \A ep \in Epochs : ClosedPort.seen[ep] = 0
  BY DEF ClosedPort
<1>3. epoch' \in Epochs /\ \A ep \in Epochs : sent'[ep] \in Seq(EntryType) BY <1>0 DEF StreamInv, TypeOK
<1>4. \A ep \in Epochs : Len(sent'[ep]) >= 0 BY <1>3
<1>5. Contiguous(sent', toPanel', port'.seen) /\ HellosFirst(toPanel', port'.greeted)
  BY <1>1 DEF Contiguous, InOrder, NoGap, HellosFirst
<1> QED BY <1>1, <1>2, <1>3, <1>4, <1>5 DEF PortFits

\* Taking from the wire what is not the next envelope leaves all that follows in it.
LEMMA RestKept ==
  ASSUME RouteInv, wire # <<>>, ~IsStream(Head(wire)), NEW seen \in Nat, Rest(sent, wire, epoch, seen)
  PROVE  Rest(sent, Tail(wire), epoch, seen)
<1>0. /\ wire \in Seq(Sendable) /\ epoch \in Epochs /\ sent[epoch] \in Seq(EntryType)
  BY DEF RouteInv, OffscreenTyped, StreamInv, TypeOK
<1> SUFFICES ASSUME NEW n \in Nat, seen < n, n <= Len(sent[epoch]) PROVE Has(sent, Tail(wire), epoch, n)
  BY DEF Rest
<1>1. PICK j \in DOMAIN wire : wire[j] = Env(sent, epoch, n) BY DEF Rest, Has
<1>2. n \in 1..Len(sent[epoch]) BY <1>0
<1>3. IsStream(wire[j]) BY <1>0, <1>1, <1>2, EnvIs
<1>4. j # 1 BY <1>0, <1>3
<1>5. j - 1 \in DOMAIN Tail(wire) /\ Tail(wire)[j - 1] = wire[j] BY <1>0, <1>4
<1> QED BY <1>1, <1>5 DEF Has

\* A hello is put on the port once, before the stream of its epoch (routeStream).
LEMMA HelloRouted ==
  ASSUME RouteInv, WireFits, PortFits, [RouteNext]_routeVars, RouteStream,
         ~IsAnswer(Head(wire)), Head(wire).type = "hello"
  PROVE  PortFits'
<1> DEFINE e == Head(wire)
<1>0. /\ StreamInv /\ wire \in Seq(Sendable) /\ toPanel \in Seq(Sendable) /\ epoch \in Epochs
      /\ port.seen \in [Epochs -> Nat] /\ wire # <<>> /\ wire' = Tail(wire)
      /\ UNCHANGED <<up, epoch, sent, accepted>>
      /\ \A ep \in Epochs : sent[ep] \in Seq(EntryType)
  BY DEF RouteInv, OffscreenTyped, PortTyped, StreamInv, TypeOK, RouteStream, vars
<1>1. e.epoch = epoch /\ IsHello(e) /\ ~IsStream(e) BY <1>0 DEF WireFits, IsHello, IsStream
<1>2. RouteHello(e) BY DEF RouteStream
<1>3. port'.state = port.state /\ port'.seen = port.seen
  <2>1. port \in [state : {"closed", "opened", "binding", "bound"}, busy : CallIds,
                  greeted : SUBSET Epochs, seen : [Epochs -> Nat]]
    BY DEF RouteInv, PortTyped
  <2> QED BY <1>2, <2>1 DEF RouteHello
<1>4. Bound => worker'.hello = e
  <2>1. worker \in [phase : {"cold", "greeting", "recovering", "ready"}, hello : hellos \cup {NoHello}]
    BY DEF RouteInv, WorkerTyped
  <2> QED BY <1>2, <2>1 DEF RouteHello, DescriptorKnown
<1>5. port.seen[epoch] > 0 => worker'.hello.epoch = epoch /\ (up => Rest(sent, Tail(wire), epoch, port.seen[epoch]))
  <2> SUFFICES ASSUME port.seen[epoch] > 0
               PROVE  worker'.hello.epoch = epoch /\ (up => Rest(sent, Tail(wire), epoch, port.seen[epoch]))
    OBVIOUS
  <2>1. Bound BY <1>0 DEF PortFits
  <2>2. port.seen[epoch] \in Nat BY <1>0
  <2> QED BY <1>0, <1>1, <1>4, <2>1, <2>2, RestKept DEF PortFits
<1>6. Bound' <=> Bound BY <1>3 DEF Bound
<1>7. FromStreams(sent, toPanel) BY <1>0, Sourced
<1>8. CASE Bound /\ e.epoch \notin port.greeted
  <2>1. port'.greeted = port.greeted \cup {epoch} /\ toPanel' = Append(toPanel, e)
    <3>1. port \in [state : {"closed", "opened", "binding", "bound"}, busy : CallIds,
                    greeted : SUBSET Epochs, seen : [Epochs -> Nat]]
      BY DEF RouteInv, PortTyped
    <3> QED BY <1>1, <1>2, <1>8, <3>1 DEF RouteHello
  <2>2. e \in Sendable BY <1>0
  <2> DEFINE more == <<e>>
  <2>3. more \in Seq(Sendable) /\ toPanel' = toPanel \o more /\ \A k \in DOMAIN more : more[k] = e
    BY <1>0, <2>1, <2>2
  <2> HIDE DEF more
  <2>4. Contiguous(sent, toPanel \o more, port.seen)
    BY <1>0, <1>1, <1>7, <2>3, OthersContiguous DEF PortFits
  <2>5. \A i \in DOMAIN toPanel : IsHello(toPanel[i]) \/ IsStream(toPanel[i]) => toPanel[i].epoch # epoch
    <3>1. ASSUME NEW i \in DOMAIN toPanel, IsHello(toPanel[i]) PROVE toPanel[i].epoch # epoch
      BY <1>1, <1>8, <3>1 DEF PortFits, HellosFirst
    <3>2. ASSUME NEW i \in DOMAIN toPanel, IsStream(toPanel[i]), toPanel[i].epoch = epoch PROVE FALSE
      <4>1. toPanel[i].seq \in 1..Len(sent[epoch]) BY <1>7, <3>2 DEF FromStreams
      <4>2. toPanel[i].seq <= port.seen[epoch] BY <3>2 DEF PortFits, Contiguous, NoGap
      <4>3. port.seen[epoch] > 0 BY <1>0, <4>1, <4>2
      <4> QED BY <1>0, <1>1, <1>8, <4>3 DEF PortFits
    <3> QED BY <3>1, <3>2
  <2>6. HellosFirst(toPanel', port'.greeted)
    <3>1. \A i \in DOMAIN toPanel' : \/ i \in DOMAIN toPanel /\ toPanel'[i] = toPanel[i]
                                     \/ i = Len(toPanel) + 1 /\ toPanel'[i] = e
      BY <1>0, <2>1
    <3> SUFFICES ASSUME NEW i \in DOMAIN toPanel', IsHello(toPanel'[i])
                 PROVE  /\ toPanel'[i].epoch \in port'.greeted
                        /\ \A j \in DOMAIN toPanel' : IsHello(toPanel'[j]) /\ toPanel'[j].epoch = toPanel'[i].epoch => i = j
                        /\ \A j \in DOMAIN toPanel' : IsStream(toPanel'[j]) /\ toPanel'[j].epoch = toPanel'[i].epoch => i < j
      BY DEF HellosFirst
    <3>2. CASE i \in DOMAIN toPanel /\ toPanel'[i] = toPanel[i]
      <4>1. toPanel[i].epoch # epoch BY <2>5, <3>2
      <4>2. \A j \in DOMAIN toPanel' : toPanel'[j].epoch = toPanel'[i].epoch => j \in DOMAIN toPanel /\ toPanel'[j] = toPanel[j]
        BY <1>1, <3>1, <3>2, <4>1
      <4> QED BY <2>1, <3>2, <4>2 DEF PortFits, HellosFirst
    <3>3. CASE i = Len(toPanel) + 1 /\ toPanel'[i] = e
      <4>1. \A j \in DOMAIN toPanel' : j \in DOMAIN toPanel /\ toPanel'[j] = toPanel[j] =>
              ~((IsHello(toPanel'[j]) \/ IsStream(toPanel'[j])) /\ toPanel'[j].epoch = toPanel'[i].epoch)
        BY <1>1, <2>5, <3>3
      <4> QED BY <1>1, <2>1, <3>1, <3>3, <4>1
    <3> QED BY <3>1, <3>2, <3>3
  <2>7. \A ep \in Epochs : port'.seen[ep] <= Len(sent'[ep]) /\ (port'.seen[ep] > 0 => ep \in port'.greeted)
    BY <1>0, <1>3, <2>1 DEF PortFits
  <2> QED BY <1>0, <1>3, <1>5, <1>6, <1>8, <2>3, <2>4, <2>6, <2>7 DEF PortFits
<1>9. CASE ~(Bound /\ e.epoch \notin port.greeted)
  <2>1. port' = port /\ toPanel' = toPanel BY <1>2, <1>9 DEF RouteHello
  <2> QED BY <1>0, <1>5, <1>6, <2>1 DEF PortFits
<1> QED BY <1>8, <1>9

\* A port that has seen something of the stream is offered the next or an old envelope.
LEMMA NextRouted ==
  ASSUME RouteInv, WireFits, PortFits, up, wire # <<>>, ~IsAnswer(Head(wire)), Head(wire).type # "hello",
         Head(wire).seq > port.seen[epoch], port.seen[epoch] > 0
  PROVE  Head(wire).seq = port.seen[epoch] + 1
<1> DEFINE e == Head(wire)
           n == e.seq
           next == port.seen[epoch] + 1
<1>1. /\ StreamInv /\ wire \in Seq(Sendable) /\ epoch \in Epochs /\ port.seen \in [Epochs -> Nat]
      /\ sent[epoch] \in Seq(EntryType) /\ 1 \in DOMAIN wire /\ e = wire[1]
  BY DEF RouteInv, OffscreenTyped, PortTyped, StreamInv, TypeOK
<1>2. e.epoch = epoch /\ IsStream(e) BY <1>1 DEF WireFits, IsStream
<1>3. FromStreams(sent, wire) BY <1>1, Sourced
<1>4. n \in 1..Len(sent[epoch]) BY <1>1, <1>2, <1>3 DEF FromStreams
<1>5. n \in Nat /\ port.seen[epoch] \in Nat /\ Len(sent[epoch]) \in Nat BY <1>1, <1>4
<1> SUFFICES ASSUME n # next PROVE FALSE OBVIOUS
<1>6. next \in Nat /\ port.seen[epoch] < next /\ next < n /\ next <= Len(sent[epoch]) /\ next \in 1..Len(sent[epoch])
  BY <1>4, <1>5
<1> HIDE DEF next
<1>7. Has(sent, wire, epoch, next) BY <1>6 DEF PortFits, Rest
<1>8. PICK j \in DOMAIN wire : wire[j] = Env(sent, epoch, next) BY <1>7 DEF Has
<1>9. wire[j].seq = next /\ wire[j].epoch = epoch /\ IsStream(wire[j]) BY <1>1, <1>6, <1>8, EnvIs
<1>10. j # 1 BY <1>1, <1>5, <1>6, <1>9
<1>11. 1 < j BY <1>1, <1>10
<1>12. n < next BY <1>1, <1>2, <1>9, <1>11 DEF WireFits, Contiguous, InOrder
<1> QED BY <1>5, <1>6, <1>12

\* An envelope of the cached hello's epoch is put on the port if it is later than what was, and
\* then it is the first one or the next.
LEMMA EnvelopeRouted ==
  ASSUME RouteInv, WireFits, PortFits, [RouteNext]_routeVars, RouteStream,
         ~IsAnswer(Head(wire)), Head(wire).type # "hello", up,
         port.state = "bound" \/ port.state = "binding" => worker.hello.epoch \in port.greeted \/ Head(wire).epoch # worker.hello.epoch
  PROVE  PortFits'
<1> DEFINE e == Head(wire)
           n == e.seq
<1>0. /\ StreamInv /\ wire \in Seq(Sendable) /\ toPanel \in Seq(Sendable) /\ epoch \in Epochs
      /\ port.seen \in [Epochs -> Nat] /\ wire # <<>> /\ wire' = Tail(wire) /\ 1 \in DOMAIN wire /\ e = wire[1]
      /\ UNCHANGED <<up, epoch, sent, worker>>
      /\ \A ep \in Epochs : sent[ep] \in Seq(EntryType)
  <2>1. StreamInv /\ wire \in Seq(Sendable) /\ toPanel \in Seq(Sendable) /\ port.seen \in [Epochs -> Nat]
    BY DEF RouteInv, OffscreenTyped, PortTyped
  <2>2. epoch \in Epochs /\ \A ep \in Epochs : sent[ep] \in Seq(EntryType) BY <2>1 DEF StreamInv, TypeOK
  <2>3. wire # <<>> /\ wire' = Tail(wire) /\ UNCHANGED <<up, epoch, sent>> BY DEF RouteStream, vars
  <2>4. RouteEnvelope(e) BY DEF RouteStream
  <2>5. UNCHANGED worker BY <2>4 DEF RouteEnvelope
  <2>6. 1 \in DOMAIN wire /\ e = wire[1] BY <2>1, <2>3
  <2> HIDE DEF e, n
  <2> QED BY <2>1, <2>2, <2>3, <2>5, <2>6
<1>1. e.epoch = epoch /\ IsStream(e) /\ ~IsHello(e) BY <1>0 DEF WireFits, IsHello, IsStream
<1>2. RouteEnvelope(e) BY DEF RouteStream
<1>3. FromStreams(sent, toPanel) /\ FromStreams(sent, wire) BY <1>0, Sourced
<1>4. n \in 1..Len(sent[epoch]) /\ e = Env(sent, epoch, n) BY <1>0, <1>1, <1>3 DEF FromStreams
<1>5. Len(sent[epoch]) \in Nat /\ n \in Nat /\ port.seen[epoch] \in Nat BY <1>0, <1>4
\* What follows the first envelope is behind it.
<1>6. ASSUME NEW k \in Nat, n < k, k <= Len(sent[epoch]) PROVE Has(sent, wire', epoch, k)
  <2>1. Has(sent, wire, epoch, k) BY <1>0, <1>1, <1>6 DEF WireFits, Contiguous, NoGap, Lasts
  <2>2. PICK j \in DOMAIN wire : wire[j] = Env(sent, epoch, k) BY <2>1 DEF Has
  <2>3. k \in 1..Len(sent[epoch]) BY <1>5, <1>6
  <2>4. wire[j].seq = k BY <1>0, <2>2, <2>3, EnvIs
  <2>5. j # 1 BY <1>0, <1>5, <1>6, <2>4
  <2>6. j - 1 \in DOMAIN wire' /\ wire'[j - 1] = wire[j] BY <1>0, <2>5
  <2> QED BY <2>2, <2>6 DEF Has
<1>7. CASE Bound /\ e.epoch = worker.hello.epoch /\ n > port.seen[epoch]
  <2>1. /\ port' = [port EXCEPT !.seen[epoch] = n] /\ toPanel' = Append(toPanel, e)
    BY <1>1, <1>2, <1>7 DEF RouteEnvelope
  <2>2. port'.state = port.state /\ port'.greeted = port.greeted /\ port'.seen = [port.seen EXCEPT ![epoch] = n]
    <3>1. port \in [state : {"closed", "opened", "binding", "bound"}, busy : CallIds,
                    greeted : SUBSET Epochs, seen : [Epochs -> Nat]]
      BY DEF RouteInv, PortTyped
    <3>2. port' = [port EXCEPT !.seen = [port.seen EXCEPT ![epoch] = n]] BY <2>1
    <3> QED BY <3>1, <3>2
  <2>3. port.seen[epoch] = 0 \/ n = port.seen[epoch] + 1 BY <1>0, <1>5, <1>7, NextRouted
  <2>4. /\ Contiguous(sent, Append(toPanel, Env(sent, epoch, n)), [port.seen EXCEPT ![epoch] = n])
    <3>1. \A ep \in Epochs : sent[ep] \in Seq(EntryType) /\ port.seen[ep] <= Len(sent[ep]) BY <1>0 DEF PortFits
    <3>2. Contiguous(sent, toPanel, port.seen) BY DEF PortFits
    <3>3. n > port.seen[epoch] BY <1>7
    <3> HIDE DEF n, e
    <3> QED BY <1>0, <1>3, <1>4, <2>3, <3>1, <3>2, <3>3, NextContiguous
  <2>5. Contiguous(sent', toPanel', port'.seen) BY <1>0, <1>4, <2>1, <2>2, <2>4
  <2>6. HellosFirst(toPanel', port'.greeted)
    <3>1. \A i \in DOMAIN toPanel' : \/ i \in DOMAIN toPanel /\ toPanel'[i] = toPanel[i]
                                     \/ i = Len(toPanel) + 1 /\ toPanel'[i] = e
      BY <1>0, <2>1
    <3>2. \A i \in DOMAIN toPanel : i < Len(toPanel) + 1 BY <1>0
    <3> SUFFICES ASSUME NEW i \in DOMAIN toPanel', IsHello(toPanel'[i])
                 PROVE  /\ toPanel'[i].epoch \in port.greeted
                        /\ \A j \in DOMAIN toPanel' : IsHello(toPanel'[j]) /\ toPanel'[j].epoch = toPanel'[i].epoch => i = j
                        /\ \A j \in DOMAIN toPanel' : IsStream(toPanel'[j]) /\ toPanel'[j].epoch = toPanel'[i].epoch => i < j
      BY <2>2 DEF HellosFirst
    <3>3. i \in DOMAIN toPanel /\ toPanel'[i] = toPanel[i] BY <1>1, <3>1
    <3> QED BY <1>1, <3>1, <3>2, <3>3 DEF PortFits, HellosFirst
  <2>7. \A ep \in Epochs : port'.seen[ep] <= Len(sent'[ep]) /\ (port'.seen[ep] > 0 => ep \in port'.greeted)
    <3>1. epoch \in port.greeted BY <1>1, <1>7 DEF Bound
    <3> HIDE DEF n, e
    <3> QED BY <1>0, <1>4, <1>5, <2>2, <3>1 DEF PortFits
  <2>8. port'.seen[epoch'] > 0 => worker'.hello.epoch = epoch' /\ (up' => Rest(sent', wire', epoch', port'.seen[epoch']))
    <3>1. port'.seen[epoch] = n BY <1>0, <2>2
    <3>2. Rest(sent, wire', epoch, n) BY <1>6 DEF Rest
    <3> QED BY <1>0, <1>1, <1>7, <3>1, <3>2
  <2>9. Bound' BY <1>7, <2>2 DEF Bound
  <2> QED BY <2>5, <2>6, <2>7, <2>8, <2>9 DEF PortFits
<1>8. CASE ~(Bound /\ e.epoch = worker.hello.epoch /\ n > port.seen[epoch])
  <2>1. port' = port /\ toPanel' = toPanel BY <1>1, <1>2, <1>8 DEF RouteEnvelope
  <2>2. port.seen[epoch] > 0 => Rest(sent, wire', epoch, port.seen[epoch])
    <3> SUFFICES ASSUME port.seen[epoch] > 0 PROVE Rest(sent, wire', epoch, port.seen[epoch]) OBVIOUS
    <3>1. Bound /\ worker.hello.epoch = epoch BY <1>0 DEF PortFits
    <3>2. n <= port.seen[epoch] BY <1>1, <1>5, <1>8, <3>1
    <3>3. ASSUME NEW k \in Nat, port.seen[epoch] < k, k <= Len(sent[epoch]) PROVE Has(sent, wire', epoch, k)
      <4>1. n < k BY <1>5, <3>2, <3>3
      <4> QED BY <1>6, <3>3, <4>1
    <3> QED BY <3>3 DEF Rest
  <2>3. Bound' = Bound BY <2>1 DEF Bound
  <2> QED BY <1>0, <2>1, <2>2, <2>3 DEF PortFits
<1> QED BY <1>7, <1>8

\* A connect that was answered has said hello before.
GreetedIn(queue, answers, known) ==
  /\ Answer(ConnectCall, TRUE) \in answers => known
  /\ \A i \in DOMAIN queue : queue[i] = Answer(ConnectCall, TRUE) =>
       known \/ \E j \in DOMAIN queue : j < i /\ IsHello(queue[j])
ConnectsFit ==
  /\ \A c \in calls : c.id = ConnectCall => c.op = "connect"
  /\ \A i \in DOMAIN toWorker : toWorker[i].id # ConnectCall
  /\ run.call # ConnectCall
  /\ worker.phase = "cold" =>
       /\ \A c \in calls : c.id # ConnectCall
       /\ \A i \in DOMAIN wire : IsAnswer(wire[i]) => wire[i].call # ConnectCall
       /\ \A r \in replies : r.call # ConnectCall
  /\ \A i \in DOMAIN wire : wire[i] # Answer(ConnectCall, FALSE)
  /\ Answer(ConnectCall, FALSE) \in replies => ~up
\* The worker knows the hello of the document whose session was accepted.
WorkerKnows ==
  /\ worker.phase = "greeting" => accepted /\ GreetedIn(wire, replies, worker.hello # NoHello)
  /\ worker.phase = "recovering" => worker.hello # NoHello
  /\ accepted /\ worker.phase = "ready" /\ up => worker.hello # NoHello
  /\ port.state = "binding" => ~accepted /\ GreetedIn(wire, replies, worker.hello.epoch \in port.greeted)
  /\ port.state = "bound" => accepted /\ worker.hello.epoch \in port.greeted
NothingBeforeAccepted ==
  ~accepted =>
    /\ \A ep \in Epochs : sent[ep] = <<>>
    /\ \A c \in calls : c.op = "connect"
    /\ ~run.active

\* A route bound at once begins with the cached hello.
LEMMA BoundAtOnceFits ==
  ASSUME RouteInv, PortFits, [RouteNext]_routeVars, BindRoute, accepted, worker.hello # NoHello
  PROVE  PortFits'
<1> DEFINE h == worker.hello
<1>0. /\ StreamInv /\ h \in hellos /\ epoch \in Epochs /\ port.seen \in [Epochs -> Nat]
      /\ \A ep \in Epochs : sent[ep] \in Seq(EntryType)
      /\ port \in [state : {"closed", "opened", "binding", "bound"}, busy : CallIds,
                   greeted : SUBSET Epochs, seen : [Epochs -> Nat]]
  BY DEF RouteInv, WorkerTyped, PortTyped, StreamInv, TypeOK
<1>1. ~Bound BY DEF BindRoute, Bound
<1>2. toPanel = <<>> /\ \A ep \in Epochs : port.seen[ep] = 0 BY <1>1 DEF PortFits
<1>3. port' = [port EXCEPT !.state = "bound", !.greeted = {h.epoch}] /\ toPanel' = <<h>> /\ UNCHANGED <<epoch, sent>>
  BY <1>2 DEF BindRoute, vars
<1>4. port'.state = "bound" /\ port'.greeted = {h.epoch} /\ port'.seen = port.seen BY <1>0, <1>3
<1>5. h.type = "hello" BY <1>0 DEF StreamInv, TypeOK, HelloType
<1>6. IsHello(h) /\ ~IsStream(h) BY <1>5 DEF IsHello, IsStream, IsAnswer
<1>7. \A i \in DOMAIN toPanel' : i = 1 /\ toPanel'[i] = h BY <1>3
<1>8. Contiguous(sent', toPanel', port'.seen) BY <1>6, <1>7 DEF Contiguous, InOrder, NoGap
<1>9. HellosFirst(toPanel', port'.greeted) BY <1>4, <1>6, <1>7 DEF HellosFirst
<1>10. \A ep \in Epochs : port'.seen[ep] = 0 /\ Len(sent'[ep]) \in Nat BY <1>0, <1>2, <1>3, <1>4
<1>11. Bound' BY <1>4 DEF Bound
<1>12. epoch' \in Epochs BY <1>0, <1>3
<1> HIDE DEF h
<1>13. \A ep \in Epochs : port'.seen[ep] <= Len(sent'[ep]) /\ ~(port'.seen[ep] > 0) BY <1>10
<1> QED BY <1>8, <1>9, <1>11, <1>12, <1>13 DEF PortFits

\* Every step keeps what the port has seen in order.
LEMMA PortFitsKept ==
  ASSUME RouteInv, WireFits, PortFits, WorkerKnows, NothingBeforeAccepted, [RouteNext]_routeVars
  PROVE  PortFits'
<1>0. /\ StreamInv /\ wire \in Seq(Sendable) /\ epoch \in Epochs /\ toPanel \in Seq(Sendable)
      /\ port \in [state : {"closed", "opened", "binding", "bound"}, busy : CallIds,
                   greeted : SUBSET Epochs, seen : [Epochs -> Nat]]
      /\ worker \in [phase : {"cold", "greeting", "recovering", "ready"}, hello : hellos \cup {NoHello}]
      /\ toWorker \in Seq(CallType)
      /\ replies \in SUBSET AnswerType /\ AnswerType \subseteq Sendable
  BY DEF RouteInv, OffscreenTyped, WorkerTyped, PortTyped, StreamInv, TypeOK, Sendable
<1>1. CASE RouteStream
  <2> DEFINE e == Head(wire)
  <2>0. wire # <<>> /\ wire' = Tail(wire) /\ UNCHANGED <<up, epoch, sent, accepted>> BY <1>1 DEF RouteStream, vars
  <2>1. up BY <2>0 DEF WireFits
  <2>2. CASE IsAnswer(e)
    <3>1. UNCHANGED <<worker, port, toPanel>> BY <1>1, <2>2 DEF RouteStream
    <3>2. ~IsStream(e) BY <2>2 DEF IsStream
    <3>3. \A seen \in Nat : Rest(sent, wire, epoch, seen) => Rest(sent, wire', epoch, seen)
      BY <2>0, <3>2, RestKept
    <3>4. port.seen[epoch] \in Nat BY <1>0
    <3>5. Bound' = Bound BY <3>1 DEF Bound
    <3> QED BY <2>0, <3>1, <3>3, <3>4, <3>5 DEF PortFits
  <2>3. CASE ~IsAnswer(e) /\ e.type = "hello" BY <1>1, <2>3, HelloRouted
  <2>4. CASE ~IsAnswer(e) /\ e.type # "hello"
    <3>1. accepted
      <4>1. FromStreams(sent, wire) BY <1>0, Sourced
      <4>2. IsStream(e) /\ 1 \in DOMAIN wire /\ e = wire[1] BY <1>0, <2>0, <2>4 DEF IsStream
      <4>3. e.epoch \in Epochs /\ e.seq \in 1..Len(sent[e.epoch]) BY <4>1, <4>2 DEF FromStreams
      <4>4. sent[e.epoch] # <<>> BY <4>3
      <4> QED BY <4>3, <4>4 DEF NothingBeforeAccepted
    <3>2. port.state = "bound" \/ port.state = "binding" => worker.hello.epoch \in port.greeted \/ e.epoch # worker.hello.epoch
      BY <3>1 DEF WorkerKnows
    <3> QED BY <1>1, <2>1, <2>4, <3>2, EnvelopeRouted
  <2> QED BY <2>2, <2>3, <2>4
<1>2. CASE PortDrops \/ WorkerDies \/ ReopenPanel
  BY <1>2, ClosedFits DEF PortDrops, WorkerDies, ReopenPanel
<1>3. CASE BindRoute /\ accepted /\ worker.hello # NoHello
  BY <1>3, BoundAtOnceFits
<1>4. CASE FinishBind /\ ClosePort
  BY <1>4, ClosedFits
<1> DEFINE others == \/ AgentAnnounces \/ SaveCheckpoint \/ HandleCall \/ PromptSucceeds \/ PromptStops
                     \/ OffscreenDies \/ Initialize \/ RecoverAccepted \/ FinishRecovery
                     \/ (BindRoute /\ ~(accepted /\ worker.hello # NoHello)) \/ (FinishBind /\ ~ClosePort)
                     \/ ForwardRequest \/ Respond \/ Reconnect \/ PanelReceives \/ RecoveryTimeout \/ ResyncTimeout
                     \/ EnsureConnected \/ SendPrompt \/ AbortActive \/ UNCHANGED routeVars
           frame == /\ port'.seen = port.seen /\ port'.greeted = port.greeted /\ worker'.hello = worker.hello
                    /\ ~Bound' => ~Bound /\ toPanel' = toPanel
           moves == \/ toPanel' = toPanel
                    \/ toPanel # <<>> /\ toPanel' = Tail(toPanel)
                    \/ \E more \in Seq(Sendable) : toPanel' = toPanel \o more /\ \A k \in DOMAIN more : IsAnswer(more[k])
<1>5. ASSUME others, ~RouteStream, ~WorkerDies PROVE PortFits'
  <2>0. ASSUME frame, moves PROVE PortFits'
    <3>1. WireGrows \/ OffscreenDies \/ (Initialize /\ ~up) BY <1>5, WireKept
    <3>2. ~WireGrows /\ OffscreenDies => ~up' /\ epoch' = epoch BY DEF OffscreenDies, vars
    <3>3. Initialize => up' BY DEF Initialize
    <3> QED BY <2>0, <3>1, <3>2, <3>3, PortFrame
  <2> SUFFICES frame /\ moves BY <2>0
  <2>1. CASE AgentAnnounces \/ HandleCall \/ PromptSucceeds \/ PromptStops \/ OffscreenDies
    <3>1. UNCHANGED <<worker, port, toPanel>>
      BY <2>1 DEF AgentAnnounces, HandleCall, PromptSucceeds, PromptStops, FinishPrompt, OffscreenDies, HostOnly,
         workerVars, portVars
    <3> QED BY <3>1 DEF Bound
  <2>2. CASE SaveCheckpoint \/ Initialize \/ RecoverAccepted \/ FinishRecovery \/ UNCHANGED routeVars
    <3>1. UNCHANGED <<port, toPanel>>
      BY <2>2 DEF SaveCheckpoint, Initialize, RecoverAccepted, FinishRecovery, portVars, routeVars
    <3>2. worker'.hello = worker.hello
      BY <1>0, <2>2 DEF SaveCheckpoint, Initialize, RecoverAccepted, FinishRecovery, workerVars, routeVars
    <3> QED BY <3>1, <3>2 DEF Bound
  <2>3. CASE PanelReceives
    <3>1. UNCHANGED <<worker, port>>
      BY <2>3 DEF PanelReceives, PanelReceivesHello, PanelReceivesEnvelope, PanelReceivesAnswer, PanelOnly, workerVars
    <3>2. toPanel # <<>> /\ toPanel' = Tail(toPanel)
      BY <2>3 DEF PanelReceives, PanelReceivesHello, PanelReceivesEnvelope, PanelReceivesAnswer
    <3>3. ~Bound' => ~Bound /\ toPanel' = toPanel BY <3>1, <3>2 DEF Bound, PortFits
    <3> QED BY <3>1, <3>2, <3>3
  <2>4. CASE RecoveryTimeout \/ ResyncTimeout \/ EnsureConnected \/ SendPrompt \/ AbortActive
    <3>1. UNCHANGED <<worker, port, toPanel>>
      BY <2>4 DEF RecoveryTimeout, ResyncTimeout, EnsureConnected, SendPrompt, AbortActive, PanelOnly, workerVars, portVars
    <3> QED BY <3>1 DEF Bound
  <2>5. CASE Reconnect
    <3>1. port' = [port EXCEPT !.state = "opened"] /\ UNCHANGED <<worker, toPanel>> /\ port.state = "closed"
      BY <2>5 DEF Reconnect, workerVars
    <3> QED BY <1>0, <3>1 DEF Bound
  <2>6. CASE BindRoute /\ ~(accepted /\ worker.hello # NoHello)
    <3>1. port' = [port EXCEPT !.state = "binding"] /\ UNCHANGED <<worker, toPanel>>
      BY <2>6 DEF BindRoute, workerVars
    <3>2. port'.state = "binding" BY <1>0, <3>1
    <3> QED BY <1>0, <3>1, <3>2 DEF Bound
  <2>7. CASE FinishBind /\ ~ClosePort
    <3>1. UNCHANGED worker BY <2>7 DEF FinishBind
    <3>2. CASE port.state = "binding"
      <4>1. ~accepted BY <3>2 DEF WorkerKnows
      <4>2. port' = [port EXCEPT !.state = "bound"] /\ toPanel' = toPanel BY <2>7, <3>2, <4>1 DEF FinishBind
      <4>3. port'.state = "bound" BY <1>0, <4>2
      <4> QED BY <1>0, <3>1, <4>2, <4>3 DEF Bound
    <3>3. CASE port.state # "binding"
      <4>1. UNCHANGED <<port, toPanel>> BY <2>7, <3>3 DEF FinishBind
      <4> QED BY <3>1, <4>1 DEF Bound
    <3> QED BY <3>2, <3>3
  <2>8. CASE ForwardRequest
    <3>1. UNCHANGED worker /\ port.state = "bound" /\ toWorker # <<>> BY <2>8 DEF ForwardRequest, workerVars
    <3>2. port'.state = port.state /\ port'.seen = port.seen /\ port'.greeted = port.greeted
      BY <1>0, <2>8 DEF ForwardRequest
    <3>3. moves
      <4>1. CASE toPanel' = toPanel BY <4>1
      <4>2. CASE toPanel' = Append(toPanel, Answer(Head(toWorker).id, FALSE))
        <5> DEFINE a == Answer(Head(toWorker).id, FALSE)
        <5>0. Head(toWorker) \in CallType BY <1>0, <3>1
        <5>1. Head(toWorker).id \in CallIds BY <5>0 DEF CallType
        <5>2. a \in AnswerType BY <5>1, AnswersTyped
        <5>3. IsAnswer(a) BY DEF Answer, IsAnswer
        <5> HIDE DEF a
        <5>4. <<a>> \in Seq(Sendable) /\ Append(toPanel, a) = toPanel \o <<a>> /\ \A k \in DOMAIN <<a>> : IsAnswer(<<a>>[k])
          BY <1>0, <5>2, <5>3
        <5>5. toPanel' = Append(toPanel, a) BY <4>2 DEF a
        <5> QED BY <5>4, <5>5
      <4> QED BY <2>8, <4>1, <4>2 DEF ForwardRequest
    <3>4. Bound' BY <3>1, <3>2 DEF Bound
    <3> QED BY <3>1, <3>2, <3>3, <3>4
  <2>9. CASE Respond
    <3>1. UNCHANGED worker /\ port.busy # NoCall BY <2>9 DEF Respond, workerVars
    <3>2. port'.state = port.state /\ port'.seen = port.seen /\ port'.greeted = port.greeted
      BY <1>0, <2>9 DEF Respond
    <3>3. port.state = "bound" BY <3>1 DEF RouteInv, PortTyped
    <3>4. moves
      <4>1. PICK r \in replies : toPanel' = Append(toPanel, r) BY <2>9 DEF Respond
      <4>2. r \in Sendable /\ IsAnswer(r) BY <1>0 DEF AnswerType, IsAnswer
      <4>3. <<r>> \in Seq(Sendable) /\ toPanel' = toPanel \o <<r>> /\ \A k \in DOMAIN <<r>> : IsAnswer(<<r>>[k])
        BY <1>0, <4>1, <4>2
      <4> QED BY <4>3
    <3>5. Bound' BY <3>2, <3>3 DEF Bound
    <3> QED BY <3>1, <3>2, <3>4, <3>5
  <2> QED BY <1>5, <2>1, <2>2, <2>3, <2>4, <2>5, <2>6, <2>7, <2>8, <2>9
<1>6. RouteStream \/ PortDrops \/ WorkerDies \/ ReopenPanel \/ (BindRoute /\ accepted /\ worker.hello # NoHello)
      \/ (FinishBind /\ ClosePort) \/ others
  BY DEF RouteNext, WorkerStarts, WorkerServes
<1> QED BY <1>1, <1>2, <1>3, <1>4, <1>5, <1>6

\* What the host emits is its stream.
LEMMA NewAreStreams ==
  ASSUME StreamInv, [Next]_vars
  PROVE  NewEnvelopes \in Seq(Sendable') /\ \A k \in DOMAIN NewEnvelopes : IsStream(NewEnvelopes[k])
<1>1. Grows /\ StreamInv' BY StreamStep
<1>2. epoch \in Epochs /\ Seq0 \in Nat /\ sent'[epoch] \in Seq(EntryType) /\ Len(sent'[epoch]) - Seq0 \in Nat
  BY <1>1 DEF StreamInv, TypeOK, Grows, Seq0
<1>3. ASSUME NEW k \in 1..(Len(sent'[epoch]) - Seq0) PROVE IsStream(Env(sent', epoch, Seq0 + k))
  <2>1. Seq0 + k \in 1..Len(sent'[epoch]) BY <1>2
  <2> QED BY <1>2, <2>1, EnvIs
<1>4. DOMAIN NewEnvelopes = 1..(Len(sent'[epoch]) - Seq0) /\ \A k \in DOMAIN NewEnvelopes : NewEnvelopes[k] = Env(sent', epoch, Seq0 + k)
  BY <1>2 DEF NewEnvelopes, Env
<1> QED BY <1>3, <1>4, NewEnvelopesTyped

\* What joins the wire: an answer to a connect only behind its hello, and none when the worker is cold.
Welcome(more) ==
  \A k \in DOMAIN more : IsAnswer(more[k]) /\ more[k].call = ConnectCall =>
    /\ worker.phase # "cold" /\ more[k] # Answer(ConnectCall, FALSE)
    /\ \E j \in DOMAIN more : j < k /\ IsHello(more[j])

\* What a handler publishes for a request that is no connect.
LEMMA PublishedWelcome ==
  ASSUME StreamInv, [Next]_vars, wire \in Seq(Sendable'),
         NEW id \in CallIds, id # ConnectCall, NEW ok \in BOOLEAN, Publishes(AnswerTo(id, ok))
  PROVE  \E more \in Seq(Sendable') : wire' = wire \o more /\ Welcome(more)
<1> DEFINE answer == AnswerTo(id, ok)
           more == NewEnvelopes \o answer
<1>1. answer \in Seq(Sendable') BY AnswersTyped, QueueKept DEF Sendable
<1>2. \A k \in DOMAIN answer : answer[k] = Answer(id, ok) BY DEF AnswerTo
<1>3. NewEnvelopes \in Seq(Sendable') /\ \A k \in DOMAIN NewEnvelopes : IsStream(NewEnvelopes[k]) BY NewAreStreams
<1>4. wire' = wire \o NewEnvelopes \o answer BY DEF Publishes
<1>5. \A k \in DOMAIN answer : answer[k].call # ConnectCall BY <1>2 DEF Answer
<1> HIDE DEF answer
<1>6. more \in Seq(Sendable') BY <1>1, <1>3
<1>7. \A k \in DOMAIN more : \/ \E l \in DOMAIN NewEnvelopes : more[k] = NewEnvelopes[l]
                             \/ \E l \in DOMAIN answer : more[k] = answer[l]
  BY <1>1, <1>3
<1>8. \A k \in DOMAIN more : ~IsAnswer(more[k]) \/ more[k].call # ConnectCall BY <1>3, <1>5, <1>7 DEF IsStream
<1>9. Welcome(more) BY <1>8 DEF Welcome
<1>10. wire' = wire \o more BY <1>1, <1>3, <1>4
<1> HIDE DEF more
<1> QED BY <1>6, <1>9, <1>10

\* What AnswerTo makes can go to the panel.
LEMMA AnswersGo ==
  ASSUME NEW id \in CallIds, NEW ok \in BOOLEAN
  PROVE  AnswerTo(id, ok) \in Seq(Sendable') /\ \A k \in DOMAIN AnswerTo(id, ok) : AnswerTo(id, ok)[k] = Answer(id, ok)
<1>1. AnswerType \subseteq Sendable' BY DEF Sendable
<1>2. AnswerTo(id, ok) \in Seq(Sendable') BY <1>1, AnswersTyped, QueueKept
<1>3. \A k \in DOMAIN AnswerTo(id, ok) : AnswerTo(id, ok)[k] = Answer(id, ok) BY DEF AnswerTo
<1> QED BY <1>2, <1>3

\* Every step of the host's handlers publishes so.
LEMMA HostWelcome ==
  ASSUME RouteInv, ConnectsFit, [RouteNext]_routeVars, AgentAnnounces \/ HandleCall \/ PromptSucceeds \/ PromptStops
  PROVE  \E more \in Seq(Sendable') : wire' = wire \o more /\ Welcome(more)
<1>0. /\ wire \in Seq(Sendable') /\ StreamInv /\ [Next]_vars /\ calls \in SUBSET CallType
      /\ run.call \in CallIds /\ run.active \in BOOLEAN /\ NoCall \in CallIds /\ NoCall # ConnectCall
      /\ run.call # ConnectCall
  BY StreamPart, Ids DEF RouteInv, OffscreenTyped, NoCall, ConnectCall, ConnectsFit
<1>1. CASE AgentAnnounces
  <2>1. AnswerTo(NoCall, TRUE) = <<>> BY DEF AnswerTo
  <2>2. Publishes(AnswerTo(NoCall, TRUE)) BY <1>1, <2>1 DEF AgentAnnounces
  <2> QED BY <1>0, <2>2, PublishedWelcome
<1>2. CASE PromptSucceeds \/ PromptStops
  <2>1. PICK ok \in BOOLEAN : Publishes(AnswerTo(run.call, ok)) BY <1>2 DEF PromptSucceeds, PromptStops, FinishPrompt
  <2> QED BY <1>0, <2>1, PublishedWelcome
<1>3. CASE HandleCall
  <2>1. PICK c \in calls :
          \/ HandleConnect(c) \/ HandleRead(c) \/ HandleCreate(c)
          \/ HandlePrompt(c) \/ HandleAbort(c) \/ Refuse(c)
    BY <1>3 DEF HandleCall
  <2>2. c.id \in CallIds /\ (c.op # "connect" => c.id # ConnectCall) /\ (c.id = ConnectCall => worker.phase # "cold")
    BY <1>0 DEF CallType, ConnectsFit
  <2>3. CASE HandleConnect(c)
    <3> DEFINE answer == AnswerTo(c.id, TRUE)
               more == <<Cursor>> \o answer
    <3>1. Cursor \in Sendable' BY <2>3 DEF HandleConnect, EmitHello, Sendable
    <3>2. IsHello(Cursor) /\ ~IsAnswer(Cursor) BY DEF Cursor, Hello, IsHello, IsAnswer
    <3>3. answer \in Seq(Sendable') /\ \A k \in DOMAIN answer : answer[k] = Answer(c.id, TRUE)
      BY <2>2, AnswersGo
    <3>4. Answer(c.id, TRUE) # Answer(ConnectCall, FALSE) /\ Answer(c.id, TRUE).call = c.id BY DEF Answer
    <3>5. wire' = wire \o <<Cursor>> \o answer BY <2>3 DEF HandleConnect
    <3> HIDE DEF answer
    <3>6. more \in Seq(Sendable') /\ wire' = wire \o more /\ 1 \in DOMAIN more /\ more[1] = Cursor
      BY <1>0, <3>1, <3>3, <3>5
    <3>9. \A k \in DOMAIN more : k = 1 \/ (1 < k /\ \E l \in DOMAIN answer : more[k] = answer[l])
      BY <3>1, <3>3
    <3>7. \A k \in DOMAIN more : k = 1 \/ (1 < k /\ more[k] = Answer(c.id, TRUE)) BY <3>3, <3>9
    <3> HIDE DEF more
    <3>8. Welcome(more) BY <2>2, <3>2, <3>4, <3>6, <3>7 DEF Welcome
    <3> QED BY <3>6, <3>8
  <2>4. CASE HandleRead(c) \/ HandleCreate(c)
    <3>1. Publishes(AnswerTo(c.id, TRUE)) BY <2>4 DEF HandleRead, HandleCreate
    <3>2. c.op # "connect" BY <2>4 DEF HandleRead, HandleCreate
    <3> QED BY <1>0, <2>2, <3>1, <3>2, PublishedWelcome
  <2>5. CASE HandlePrompt(c)
    <3>1. AnswerTo(NoCall, TRUE) = <<>> BY DEF AnswerTo
    <3>2. Publishes(AnswerTo(NoCall, TRUE)) BY <2>5, <3>1 DEF HandlePrompt
    <3> QED BY <1>0, <3>2, PublishedWelcome
  <2>6. CASE HandleAbort(c)
    <3>1. Publishes(AnswerTo(c.id, ~run.active)) /\ (~run.active) \in BOOLEAN /\ c.op # "connect"
      BY <2>6 DEF HandleAbort
    <3> QED BY <1>0, <2>2, <3>1, PublishedWelcome
  <2>7. CASE Refuse(c)
    <3>1. c.op # "connect" /\ wire' = wire \o AnswerTo(c.id, FALSE) BY <2>7 DEF Refuse
    <3> DEFINE more == AnswerTo(c.id, FALSE)
    <3>2. more \in Seq(Sendable') BY <2>2, AnswersGo
    <3>3. \A k \in DOMAIN more : more[k].call = c.id BY DEF AnswerTo, Answer
    <3>4. Welcome(more) BY <2>2, <3>1, <3>3 DEF Welcome
    <3> HIDE DEF more
    <3> QED BY <3>1, <3>2, <3>4 DEF more
  <2> QED BY <2>1, <2>3, <2>4, <2>5, <2>6, <2>7
<1> QED BY <1>1, <1>2, <1>3

\* Nothing is sent in a session that nobody was accepted for.
LEMMA NothingKept ==
  ASSUME RouteInv, WorkerKnows, NothingBeforeAccepted, [RouteNext]_routeVars
  PROVE  NothingBeforeAccepted'
<1> SUFFICES ASSUME ~accepted'
             PROVE  /\ \A ep \in Epochs : sent'[ep] = <<>>
                    /\ \A c \in calls' : c.op = "connect"
                    /\ ~run'.active
  BY DEF NothingBeforeAccepted
<1>0. /\ run \in [active : BOOLEAN, call : CallIds, stopping : BOOLEAN] /\ calls \in SUBSET CallType
  BY DEF RouteInv, OffscreenTyped
<1> DEFINE quiet == sent' = sent /\ run'.active = run.active /\ accepted' = accepted
<1>1. CASE AgentAnnounces \/ PromptSucceeds \/ PromptStops
  BY <1>1 DEF AgentAnnounces, PromptSucceeds, PromptStops, FinishPrompt, HostOnly, workerVars, NothingBeforeAccepted
<1>2. CASE HandleCall
  <2>1. PICK c \in calls :
          /\ \/ HandleConnect(c) \/ HandleRead(c) \/ HandleCreate(c) \/ HandlePrompt(c) \/ HandleAbort(c) \/ Refuse(c)
          /\ calls' = calls \ {c} /\ accepted' = accepted
    BY <1>2 DEF HandleCall, HostOnly, workerVars
  <2>2. c.op = "connect" BY <2>1 DEF NothingBeforeAccepted
  <2>3. HandleConnect(c)
    BY <2>1, <2>2 DEF HandleRead, HandleCreate, HandlePrompt, HandleAbort, Refuse
  <2>4. sent' = sent /\ run' = run BY <2>3 DEF HandleConnect, EmitHello
  <2> QED BY <2>1, <2>4 DEF NothingBeforeAccepted
<1>3. CASE OffscreenDies \/ RecoverAccepted \/ ForwardRequest
  BY <1>3 DEF OffscreenDies, RecoverAccepted, ForwardRequest, workerVars, WorkerKnows
<1>4. CASE PortDrops \/ WorkerDies \/ ReopenPanel
  <2>1. sent' = sent /\ accepted' = accepted
    BY <1>4 DEF PortDrops, WorkerDies, ReopenPanel, Reopen, vars
  <2>2. PICK ids, stream : Forget(ids, stream) BY <1>4 DEF PortDrops, WorkerDies, ReopenPanel
  <2>3. run'.active = run.active BY <1>0, <2>2 DEF Forget
  <2>4. ASSUME NEW d \in calls' PROVE \E c \in calls : d.op = c.op
    <3>1. PICK c \in calls : d = IF c.id \in ids THEN [c EXCEPT !.id = NoCall] ELSE c BY <2>2, <2>4 DEF Forget
    <3>2. c \in CallType BY <1>0
    <3>3. d.op = c.op BY <3>1, <3>2 DEF CallType
    <3> QED BY <3>3
  <2> QED BY <2>1, <2>3, <2>4 DEF NothingBeforeAccepted
<1>5. CASE BindRoute
  <2>1. sent' = sent /\ accepted' = accepted /\ run' = run BY <1>5 DEF BindRoute, vars, workerVars
  <2>2. \A c \in calls' : c \in calls \/ c = Call(ConnectCall, "connect", NoEpoch) BY <1>5 DEF BindRoute
  <2>3. \A c \in calls' : c \in calls \/ c.op = "connect" BY <2>2 DEF Call
  <2> QED BY <2>1, <2>3 DEF NothingBeforeAccepted
<1>6. CASE Initialize
  <2>1. accepted' = accepted /\ run' = run /\ sent' = sent BY <1>6 DEF Initialize, vars, Restart
  <2>2. calls' = calls BY <1>6, <2>1 DEF Initialize
  <2> QED BY <2>1, <2>2 DEF NothingBeforeAccepted
<1>7. CASE SaveCheckpoint \/ RouteStream \/ FinishRecovery \/ Respond \/ Reconnect
  <2>1. UNCHANGED <<sent, accepted, run, calls>>
    BY <1>7 DEF SaveCheckpoint, Checkpoint, RouteStream, FinishRecovery, Respond, Reconnect, vars, offscreenVars, workerVars
  <2> QED BY <2>1 DEF NothingBeforeAccepted
<1>8. CASE FinishBind
  <2>1. UNCHANGED <<sent, run, calls>> BY <1>8 DEF FinishBind, vars, offscreenVars
  <2>2. ~accepted BY <1>8 DEF FinishBind
  <2> QED BY <2>1, <2>2 DEF NothingBeforeAccepted
<1>9. CASE PanelReceives
  <2>1. UNCHANGED <<sent, accepted, run, calls>>
    BY <1>9 DEF PanelReceives, PanelReceivesHello, PanelReceivesEnvelope, PanelReceivesAnswer, PanelOnly, ReceiveHello,
         Receive, vars, offscreenVars, workerVars
  <2> QED BY <2>1 DEF NothingBeforeAccepted
<1>10. CASE RecoveryTimeout \/ ResyncTimeout \/ EnsureConnected \/ SendPrompt \/ AbortActive \/ UNCHANGED routeVars
  <2>1. UNCHANGED <<sent, accepted, run, calls>>
    BY <1>10 DEF RecoveryTimeout, ResyncTimeout, EnsureConnected, SendPrompt, AbortActive, PanelOnly, vars, offscreenVars,
         workerVars, routeVars
  <2> QED BY <2>1 DEF NothingBeforeAccepted
<1> QED
  BY <1>1, <1>2, <1>3, <1>4, <1>5, <1>6, <1>7, <1>8, <1>9, <1>10 DEF RouteNext, WorkerStarts, WorkerServes

\* A step that makes no connect but those of the worker keeps them apart.
LEMMA ConnectsFrame ==
  ASSUME ConnectsFit,
         \A c \in calls' : c \in calls \/ (c.id = ConnectCall => c.op = "connect" /\ worker'.phase # "cold"),
         \A i \in DOMAIN toWorker' : (\E j \in DOMAIN toWorker : toWorker'[i] = toWorker[j]) \/ toWorker'[i].id # ConnectCall,
         run'.call # ConnectCall,
         \A i \in DOMAIN wire' :
           \/ \E j \in DOMAIN wire : wire'[i] = wire[j]
           \/ IsAnswer(wire'[i]) /\ wire'[i].call = ConnectCall =>
                worker.phase # "cold" /\ wire'[i] # Answer(ConnectCall, FALSE),
         \A r \in replies' : r \in replies \/ \E j \in DOMAIN wire : r = wire[j] /\ IsAnswer(wire[j]),
         worker'.phase = "cold" => worker.phase = "cold",
         up' = up \/ worker.phase = "cold"
  PROVE  ConnectsFit'
<1> DEFINE no == Answer(ConnectCall, FALSE)
<1>0. IsAnswer(no) /\ no.call = ConnectCall BY DEF Answer, IsAnswer
<1> HIDE DEF no
<1>1. \A c \in calls' : c.id = ConnectCall => c.op = "connect" BY DEF ConnectsFit
<1>2. \A i \in DOMAIN toWorker' : toWorker'[i].id # ConnectCall BY DEF ConnectsFit
<1>3. \A i \in DOMAIN wire' : wire'[i] # no BY <1>0 DEF ConnectsFit, no
<1>4. no \in replies' => ~up'
  <2> SUFFICES ASSUME no \in replies' PROVE ~up' OBVIOUS
  <2>1. \A j \in DOMAIN wire : wire[j] # no BY DEF ConnectsFit, no
  <2>2. no \in replies BY <2>1
  <2>3. ~up BY <2>2 DEF ConnectsFit, no
  <2>4. worker.phase # "cold" BY <1>0, <2>2 DEF ConnectsFit
  <2> QED BY <2>3, <2>4
<1>5. ASSUME worker'.phase = "cold"
      PROVE  /\ \A c \in calls' : c.id # ConnectCall
             /\ \A i \in DOMAIN wire' : IsAnswer(wire'[i]) => wire'[i].call # ConnectCall
             /\ \A r \in replies' : r.call # ConnectCall
  BY <1>5 DEF ConnectsFit
<1> QED BY <1>1, <1>2, <1>3, <1>4, <1>5 DEF ConnectsFit, no

\* A request of the panel is no connect.
LEMMA PostsFit ==
  ASSUME ConnectsFit, toWorker \in Seq(CallType), CanCall, NEW op, NEW ep, Posts(toWorker, FreshCall, op, ep)
  PROVE  \A i \in DOMAIN toWorker' : (\E j \in DOMAIN toWorker : toWorker'[i] = toWorker[j]) \/ toWorker'[i].id # ConnectCall
<1> DEFINE c == Call(FreshCall, op, ep)
<1>1. c.id # ConnectCall BY FreshCallTyped, CallsAssumption DEF Call, CanCall, FreshCall, PanelCalls, ConnectCall
<1>2. toWorker' = Append(toWorker, c) BY DEF Posts
<1> HIDE DEF c
<1>3. \A i \in DOMAIN toWorker' : (i \in DOMAIN toWorker /\ toWorker'[i] = toWorker[i]) \/ toWorker'[i] = c BY <1>2
<1> QED BY <1>1, <1>3

\* Requests that are forgotten are no connects any longer.
LEMMA ForgetConnects ==
  ASSUME OffscreenTyped, ConnectsFit, NEW ids, NEW stream, Forget(ids, stream)
  PROVE  /\ \A c \in calls' : c \in calls \/ c.id = NoCall
         /\ ConnectCall \in ids => \A c \in calls' : c.id # ConnectCall
         /\ run'.call # ConnectCall
         /\ DOMAIN wire' = DOMAIN stream
         /\ \A i \in DOMAIN wire' :
              \/ wire'[i] = stream[i] /\ ~(IsAnswer(stream[i]) /\ stream[i].call \in ids)
              \/ IsAnswer(stream[i]) /\ wire'[i] = Answer(NoCall, FALSE)
<1>0. /\ NoCall # ConnectCall /\ calls \in SUBSET CallType
      /\ run \in [active : BOOLEAN, call : CallIds, stopping : BOOLEAN]
  BY DEF NoCall, ConnectCall, OffscreenTyped
<1>1. ASSUME NEW d \in calls' PROVE (d \in calls /\ d.id \notin ids) \/ d.id = NoCall
  <2>1. PICK c \in calls : d = IF c.id \in ids THEN [c EXCEPT !.id = NoCall] ELSE c BY <1>1 DEF Forget
  <2>2. c \in CallType BY <1>0
  <2> QED BY <2>1, <2>2 DEF CallType
<1>2. run'.call # ConnectCall
  <2>1. CASE run.call \in ids
    <3>1. run' = [run EXCEPT !.call = NoCall] BY <2>1 DEF Forget
    <3> QED BY <1>0, <3>1
  <2>2. CASE run.call \notin ids BY <2>2 DEF Forget, ConnectsFit
  <2> QED BY <2>1, <2>2
<1>3. DOMAIN wire' = DOMAIN stream /\ \A i \in DOMAIN wire' :
        \/ wire'[i] = stream[i] /\ ~(IsAnswer(stream[i]) /\ stream[i].call \in ids)
        \/ IsAnswer(stream[i]) /\ wire'[i] = Answer(NoCall, FALSE)
  BY DEF Forget
<1> QED BY <1>0, <1>1, <1>2, <1>3

\* Every step keeps the connects apart from the other requests.
LEMMA ConnectsKept ==
  ASSUME RouteInv, ConnectsFit, [RouteNext]_routeVars
  PROVE  ConnectsFit'
<1>0. /\ wire \in Seq(Sendable) /\ wire \in Seq(Sendable') /\ toWorker \in Seq(CallType) /\ calls \in SUBSET CallType
      /\ run \in [active : BOOLEAN, call : CallIds, stopping : BOOLEAN]
      /\ worker \in [phase : {"cold", "greeting", "recovering", "ready"}, hello : hellos \cup {NoHello}]
      /\ NoCall # ConnectCall /\ RecoverCall # ConnectCall /\ run.call # ConnectCall /\ OffscreenTyped
  BY StreamPart DEF RouteInv, OffscreenTyped, WorkerTyped, PortTyped, NoCall, ConnectCall, RecoverCall, ConnectsFit
<1>1. CASE AgentAnnounces \/ HandleCall \/ PromptSucceeds \/ PromptStops
  <2>1. UNCHANGED <<up, worker, replies, toWorker>>
    BY <1>1 DEF AgentAnnounces, HandleCall, PromptSucceeds, PromptStops, FinishPrompt, HostOnly, workerVars, portVars
  <2>2. calls' \subseteq calls
    BY <1>1 DEF AgentAnnounces, HandleCall, PromptSucceeds, PromptStops, FinishPrompt
  <2>3. run'.call # ConnectCall
    <3>1. CASE AgentAnnounces \/ PromptSucceeds \/ PromptStops
      <4>1. run' = run \/ run' = NoRun BY <3>1 DEF AgentAnnounces, PromptSucceeds, PromptStops, FinishPrompt
      <4> QED BY <1>0, <4>1 DEF NoRun
    <3>2. CASE HandleCall
      <4>1. PICK c \in calls :
              HandleConnect(c) \/ HandleRead(c) \/ HandleCreate(c) \/ HandlePrompt(c) \/ HandleAbort(c) \/ Refuse(c)
        BY <3>2 DEF HandleCall
      <4>2. CASE HandlePrompt(c)
        <5>1. c.id # ConnectCall /\ run' = [active |-> TRUE, call |-> c.id, stopping |-> FALSE]
          BY <4>2 DEF HandlePrompt, ConnectsFit
        <5> QED BY <5>1
      <4>3. CASE HandleAbort(c) BY <1>0, <4>3 DEF HandleAbort
      <4>4. CASE ~HandlePrompt(c) /\ ~HandleAbort(c)
        BY <1>0, <4>1, <4>4 DEF HandleConnect, HandleRead, HandleCreate, Refuse
      <4> QED BY <4>2, <4>3, <4>4
    <3> QED BY <1>1, <3>1, <3>2
  <2>4. PICK more \in Seq(Sendable') : wire' = wire \o more /\ Welcome(more) BY <1>1, HostWelcome
  <2>5. \A i \in DOMAIN wire' : (\E j \in DOMAIN wire : wire'[i] = wire[j]) \/ (\E k \in DOMAIN more : wire'[i] = more[k])
    BY <1>0, <2>4
  <2>6. \A i \in DOMAIN wire' :
           \/ \E j \in DOMAIN wire : wire'[i] = wire[j]
           \/ IsAnswer(wire'[i]) /\ wire'[i].call = ConnectCall =>
                worker.phase # "cold" /\ wire'[i] # Answer(ConnectCall, FALSE)
    BY <2>4, <2>5 DEF Welcome
  <2> QED BY <2>1, <2>2, <2>3, <2>6, ConnectsFrame
<1>2. CASE OffscreenDies
  <2>1. calls' = {} /\ wire' = <<>> /\ run' = NoRun /\ up' = FALSE /\ UNCHANGED <<worker, toWorker>>
    BY <1>2 DEF OffscreenDies, portVars
  <2>2. ASSUME worker.phase = "cold", NEW r \in replies' PROVE r.call # ConnectCall
    <3>1. CASE r \in replies BY <2>2, <3>1 DEF ConnectsFit
    <3>2. CASE r \notin replies
      <4>1. PICK id \in {c.id : c \in calls} \cup {run.call}
                        \cup {wire[i].call : i \in {j \in DOMAIN wire : IsAnswer(wire[j])}} : r = Answer(id, FALSE)
        BY <1>2, <3>2 DEF OffscreenDies
      <4>2. id # ConnectCall BY <1>0, <2>2, <4>1 DEF ConnectsFit
      <4> QED BY <4>1, <4>2 DEF Answer
    <3> QED BY <3>1, <3>2
  <2>3. run'.call # ConnectCall BY <1>0, <2>1 DEF NoRun
  <2>4. \A i \in DOMAIN wire' : FALSE BY <2>1
  <2> QED BY <2>1, <2>2, <2>3, <2>4 DEF ConnectsFit
<1>3. CASE PortDrops \/ ReopenPanel
  <2>1. PICK ids : Forget(ids, wire) BY <1>3 DEF PortDrops, ReopenPanel
  <2>2. UNCHANGED <<up, worker>> /\ replies' \subseteq replies /\ toWorker' = <<>>
    BY <1>3 DEF PortDrops, ReopenPanel, ClosePort
  <2>3. Answer(NoCall, FALSE).call = NoCall BY DEF Answer
  <2>4. /\ \A c \in calls' : c \in calls \/ c.id = NoCall
        /\ run'.call # ConnectCall
        /\ DOMAIN wire' = DOMAIN wire /\ \A i \in DOMAIN wire' : wire'[i] = wire[i] \/ wire'[i] = Answer(NoCall, FALSE)
    <3>1. OffscreenTyped BY <1>0
    <3>2. Forget(ids, wire) BY <2>1
    <3>3. /\ \A c \in calls' : c \in calls \/ c.id = NoCall
          /\ run'.call # ConnectCall
          /\ DOMAIN wire' = DOMAIN wire
          /\ \A i \in DOMAIN wire' :
               \/ wire'[i] = wire[i] /\ ~(IsAnswer(wire[i]) /\ wire[i].call \in ids)
               \/ IsAnswer(wire[i]) /\ wire'[i] = Answer(NoCall, FALSE)
      BY <3>1, <3>2, ForgetConnects
    <3> QED BY <3>3
  <2>5. \A i \in DOMAIN toWorker' : FALSE BY <2>2
  <2> QED BY <1>0, <2>2, <2>3, <2>4, <2>5, ConnectsFrame
<1>4. CASE WorkerDies
  <2>1. UNCHANGED up /\ worker' = ColdWorker /\ replies' = {} /\ toWorker' = <<>> BY <1>4 DEF WorkerDies, ClosePort
  <2> DEFINE ids == {ConnectCall, RecoverCall} \cup PanelCalls
  <2>2. PICK stream \in {wire, IF wire = <<>> THEN wire ELSE Tail(wire)} : Forget(ids, stream) BY <1>4 DEF WorkerDies
  <2>3. ConnectCall \in ids OBVIOUS
  <2> HIDE DEF ids
  <2>4. /\ \A c \in calls' : c.id # ConnectCall
        /\ run'.call # ConnectCall
        /\ \A i \in DOMAIN wire' : \/ ~(IsAnswer(wire'[i]) /\ wire'[i].call = ConnectCall)
                                   \/ wire'[i] = Answer(NoCall, FALSE)
    <3>1. OffscreenTyped BY <1>0
    <3>2. Forget(ids, stream) BY <2>2
    <3>3. /\ \A c \in calls' : c.id # ConnectCall
          /\ run'.call # ConnectCall
          /\ \A i \in DOMAIN wire' :
               \/ wire'[i] = stream[i] /\ ~(IsAnswer(stream[i]) /\ stream[i].call \in ids)
               \/ IsAnswer(stream[i]) /\ wire'[i] = Answer(NoCall, FALSE)
      BY <2>3, <3>1, <3>2, ForgetConnects
    <3> QED BY <2>3, <3>3
  <2>5. Answer(NoCall, FALSE).call = NoCall /\ IsAnswer(Answer(ConnectCall, FALSE)) /\ Answer(ConnectCall, FALSE).call = ConnectCall
    BY DEF Answer, IsAnswer
  <2>6. \A i \in DOMAIN wire' : IsAnswer(wire'[i]) => wire'[i].call # ConnectCall BY <1>0, <2>4, <2>5
  <2>7. \A i \in DOMAIN toWorker' : FALSE BY <2>1
  <2> QED BY <2>1, <2>4, <2>5, <2>6, <2>7 DEF ConnectsFit
<1>5. CASE RouteStream
  <2>1. wire # <<>> /\ wire' = Tail(wire) /\ UNCHANGED <<up, run, calls, toWorker>> BY <1>5 DEF RouteStream
  <2>2. \A i \in DOMAIN wire' : i + 1 \in DOMAIN wire /\ wire'[i] = wire[i + 1] BY <1>0, <2>1
  <2>3. worker'.phase = worker.phase BY <1>0, <1>5 DEF RouteStream, RouteHello, RouteEnvelope
  <2>4. 1 \in DOMAIN wire /\ Head(wire) = wire[1] BY <1>0, <2>1
  <2>5. \A r \in replies' : r \in replies \/ (r = Head(wire) /\ IsAnswer(Head(wire)))
    BY <1>5 DEF RouteStream, RouteHello, RouteEnvelope
  <2> QED BY <1>0, <2>1, <2>2, <2>3, <2>4, <2>5, ConnectsFrame
<1>6. CASE Initialize
  <2>1. worker.phase = "cold" /\ UNCHANGED <<run, wire, replies, toWorker>> BY <1>6 DEF Initialize, portVars
  <2>2. worker'.phase # "cold" BY <1>0, <1>6 DEF Initialize
  <2>3. \A c \in calls' : c \in calls \/ c = Call(ConnectCall, "connect", NoEpoch) BY <1>6 DEF Initialize
  <2>4. \A c \in calls' : c \in calls \/ c.op = "connect" BY <2>3 DEF Call
  <2> QED BY <1>0, <2>1, <2>2, <2>4, ConnectsFrame
<1>7. CASE RecoverAccepted
  <2>1. UNCHANGED <<up, run, wire, toWorker>> /\ replies' \subseteq replies BY <1>7 DEF RecoverAccepted, portVars
  <2>2. worker'.phase # "cold" BY <1>0, <1>7 DEF RecoverAccepted
  <2>3. \A c \in calls' : c \in calls \/ c.id = RecoverCall BY <1>7 DEF RecoverAccepted, Call
  <2> QED BY <1>0, <2>1, <2>2, <2>3, ConnectsFrame
<1>8. CASE BindRoute
  <2>1. UNCHANGED <<up, run, wire, replies, worker, toWorker>> /\ worker.phase = "ready" BY <1>8 DEF BindRoute, workerVars
  <2>2. \A c \in calls' : c \in calls \/ c = Call(ConnectCall, "connect", NoEpoch) BY <1>8 DEF BindRoute
  <2>3. \A c \in calls' : c \in calls \/ c.op = "connect" BY <2>2 DEF Call
  <2> QED BY <1>0, <2>1, <2>3, ConnectsFrame
<1>9. CASE FinishRecovery \/ FinishBind \/ Respond \/ SaveCheckpoint \/ Reconnect
  <2>1. UNCHANGED <<up, run, calls, wire>> /\ replies' \subseteq replies
    BY <1>9 DEF FinishRecovery, FinishBind, Respond, SaveCheckpoint, Reconnect, offscreenVars, workerVars
  <2>2. worker'.phase = "cold" => worker.phase = "cold"
    BY <1>0, <1>9 DEF FinishRecovery, FinishBind, Respond, SaveCheckpoint, Reconnect, workerVars
  <2>3. toWorker' = toWorker \/ toWorker' = <<>>
    BY <1>9 DEF FinishRecovery, FinishBind, ClosePort, Respond, SaveCheckpoint, Reconnect, portVars
  <2>4. \A i \in DOMAIN toWorker' : i \in DOMAIN toWorker /\ toWorker'[i] = toWorker[i] BY <2>3
  <2> QED BY <1>0, <2>1, <2>2, <2>4, ConnectsFrame
<1>10. CASE ForwardRequest
  <2>1. UNCHANGED <<up, run, wire, replies, worker>> /\ toWorker # <<>> /\ toWorker' = Tail(toWorker)
    BY <1>10 DEF ForwardRequest, workerVars
  <2>2. \A i \in DOMAIN toWorker' : i + 1 \in DOMAIN toWorker /\ toWorker'[i] = toWorker[i + 1] BY <1>0, <2>1
  <2>3. 1 \in DOMAIN toWorker /\ Head(toWorker) = toWorker[1] BY <1>0, <2>1
  <2>4. Head(toWorker).id # ConnectCall BY <2>3 DEF ConnectsFit
  <2>5. \A c \in calls' : c \in calls \/ c = Head(toWorker) BY <1>10 DEF ForwardRequest
  <2> QED BY <1>0, <2>1, <2>2, <2>4, <2>5, ConnectsFrame
<1>11. CASE PanelReceives \/ RecoveryTimeout \/ ResyncTimeout \/ EnsureConnected \/ SendPrompt \/ AbortActive
  <2>1. UNCHANGED <<up, run, calls, wire, worker, replies>>
    BY <1>11 DEF PanelReceives, PanelReceivesHello, PanelReceivesEnvelope, PanelReceivesAnswer, PanelOnly,
         RecoveryTimeout, ResyncTimeout, EnsureConnected, SendPrompt, AbortActive, offscreenVars, workerVars
  <2>2. toWorker' = toWorker \/ (CanCall /\ \E op, ep : Posts(toWorker, FreshCall, op, ep))
    <3>1. CASE PanelReceivesHello BY <3>1 DEF PanelReceivesHello, BeginRecovery
    <3>2. CASE PanelReceivesEnvelope BY <3>2 DEF PanelReceivesEnvelope, BeginRecovery
    <3>3. CASE PanelReceivesAnswer BY <3>3 DEF PanelReceivesAnswer
    <3>4. CASE RecoveryTimeout \/ ResyncTimeout BY <3>4 DEF RecoveryTimeout, ResyncTimeout, portVars
    <3>5. CASE EnsureConnected \/ SendPrompt \/ AbortActive
      BY <3>5 DEF EnsureConnected, BeginRecovery, SendPrompt, AbortActive
    <3> QED BY <1>11, <3>1, <3>2, <3>3, <3>4, <3>5 DEF PanelReceives
  <2>3. \A i \in DOMAIN toWorker' : (\E j \in DOMAIN toWorker : toWorker'[i] = toWorker[j]) \/ toWorker'[i].id # ConnectCall
    BY <1>0, <2>2, PostsFit
  <2> QED BY <1>0, <2>1, <2>3, ConnectsFrame
<1>12. CASE UNCHANGED routeVars
  <2>1. UNCHANGED <<up, run, calls, wire, worker, replies, toWorker>>
    BY <1>12 DEF routeVars, offscreenVars, workerVars, portVars
  <2> QED BY <2>1 DEF ConnectsFit
<1> QED
  BY <1>1, <1>2, <1>3, <1>4, <1>5, <1>6, <1>7, <1>8, <1>9, <1>10, <1>11, <1>12 DEF RouteNext, WorkerStarts, WorkerServes

\* No connect is answered before its hello.
LEMMA GreetsKept ==
  ASSUME RouteInv, ConnectsFit, [RouteNext]_routeVars, ~RouteStream, ~WorkerDies,
         NEW known \in BOOLEAN, GreetedIn(wire, replies, known)
  PROVE  GreetedIn(wire', replies', known)
<1> DEFINE yes == Answer(ConnectCall, TRUE)
<1>0. /\ wire \in Seq(Sendable) /\ wire \in Seq(Sendable') /\ OffscreenTyped
      /\ IsAnswer(yes) /\ yes.call = ConnectCall /\ yes.ok = TRUE
  BY StreamPart DEF RouteInv, OffscreenTyped, Answer, IsAnswer
<1> HIDE DEF yes
<1>1. /\ yes \in replies => known
      /\ \A i \in DOMAIN wire : wire[i] = yes => known \/ \E j \in DOMAIN wire : j < i /\ IsHello(wire[j])
  BY DEF GreetedIn, yes
<1> SUFFICES /\ yes \in replies' => known
             /\ \A i \in DOMAIN wire' : wire'[i] = yes => known \/ \E j \in DOMAIN wire' : j < i /\ IsHello(wire'[j])
  BY DEF GreetedIn, yes
<1>2. CASE AgentAnnounces \/ HandleCall \/ PromptSucceeds \/ PromptStops
  <2>1. replies' = replies
    BY <1>2 DEF AgentAnnounces, HandleCall, PromptSucceeds, PromptStops, FinishPrompt, HostOnly, workerVars
  <2>2. PICK more \in Seq(Sendable') : wire' = wire \o more /\ Welcome(more) BY <1>2, HostWelcome
  <2>3. \A i \in DOMAIN wire : i \in DOMAIN wire' /\ wire'[i] = wire[i] BY <1>0, <2>2
  <2>4. ASSUME NEW i \in DOMAIN wire', wire'[i] = yes PROVE known \/ \E j \in DOMAIN wire' : j < i /\ IsHello(wire'[j])
    <3>1. CASE i \in DOMAIN wire BY <1>1, <2>3, <2>4, <3>1
    <3>2. CASE i \notin DOMAIN wire
      <4> DEFINE k == i - Len(wire)
      <4>1. k \in DOMAIN more /\ more[k] = wire'[i] /\ Len(wire) \in Nat /\ i \in Nat BY <1>0, <2>2, <3>2
      <4>2. PICK j \in DOMAIN more : j < k /\ IsHello(more[j]) BY <1>0, <2>2, <2>4, <4>1 DEF Welcome
      <4>3. Len(wire) + j \in DOMAIN wire' /\ wire'[Len(wire) + j] = more[j] /\ Len(wire) + j < i
        BY <1>0, <2>2, <4>1, <4>2
      <4> QED BY <4>2, <4>3
    <3> QED BY <3>1, <3>2
  <2> QED BY <1>1, <2>1, <2>4
<1>3. CASE OffscreenDies
  <2>1. wire' = <<>> BY <1>3 DEF OffscreenDies
  <2>2. \A r \in replies' : r \in replies \/ r.ok = FALSE BY <1>3 DEF OffscreenDies, Answer
  <2>3. \A i \in DOMAIN wire' : FALSE BY <2>1
  <2> QED BY <1>0, <1>1, <2>2, <2>3
<1>4. CASE PortDrops \/ ReopenPanel
  <2>1. PICK ids : Forget(ids, wire) BY <1>4 DEF PortDrops, ReopenPanel
  <2>2. replies' \subseteq replies BY <1>4 DEF PortDrops, ReopenPanel
  <2>3. /\ DOMAIN wire' = DOMAIN wire
        /\ \A i \in DOMAIN wire' :
             \/ wire'[i] = wire[i] /\ ~(IsAnswer(wire[i]) /\ wire[i].call \in ids)
             \/ IsAnswer(wire[i]) /\ wire'[i] = Answer(NoCall, FALSE)
    BY <1>0, <2>1, ForgetConnects
  <2>4. yes # Answer(NoCall, FALSE) BY DEF Answer, yes
  <2>5. \A j \in DOMAIN wire : IsHello(wire[j]) => IsHello(wire'[j]) BY <2>3 DEF IsHello
  <2> QED BY <1>1, <2>2, <2>3, <2>4, <2>5
<1>5. (wire' = wire /\ replies' \subseteq replies) \/ AgentAnnounces \/ HandleCall \/ PromptSucceeds \/ PromptStops
      \/ OffscreenDies \/ PortDrops \/ ReopenPanel
  <2>1. CASE SaveCheckpoint \/ Initialize \/ RecoverAccepted \/ FinishRecovery \/ WorkerServes \/ Reconnect
    BY <2>1 DEF SaveCheckpoint, Initialize, RecoverAccepted, FinishRecovery, WorkerServes, BindRoute, FinishBind,
       ForwardRequest, Respond, Reconnect, offscreenVars, workerVars
  <2>2. CASE PanelReceives \/ RecoveryTimeout \/ ResyncTimeout \/ EnsureConnected \/ SendPrompt \/ AbortActive
    BY <2>2 DEF PanelReceives, PanelReceivesHello, PanelReceivesEnvelope, PanelReceivesAnswer, PanelOnly,
       RecoveryTimeout, ResyncTimeout, EnsureConnected, SendPrompt, AbortActive, offscreenVars, workerVars
  <2>3. CASE UNCHANGED routeVars BY <2>3 DEF routeVars, offscreenVars, workerVars
  <2> QED BY <2>1, <2>2, <2>3 DEF RouteNext, WorkerStarts
<1>6. CASE wire' = wire /\ replies' \subseteq replies BY <1>1, <1>6
<1> QED BY <1>2, <1>3, <1>4, <1>5, <1>6

\* Nor on its way to the worker.
LEMMA GreetsRouted ==
  ASSUME RouteInv, RouteStream, NEW known \in BOOLEAN, GreetedIn(wire, replies, known),
         NEW knows \in BOOLEAN, known => knows, IsHello(Head(wire)) => knows
  PROVE  GreetedIn(wire', replies', knows)
<1> DEFINE yes == Answer(ConnectCall, TRUE)
<1>0. wire \in Seq(Sendable) /\ wire # <<>> /\ wire' = Tail(wire) BY DEF RouteInv, OffscreenTyped, RouteStream
<1>1. /\ yes \in replies => known
      /\ \A i \in DOMAIN wire : wire[i] = yes => known \/ \E j \in DOMAIN wire : j < i /\ IsHello(wire[j])
  BY DEF GreetedIn
<1>2. yes \in replies' => yes \in replies \/ Head(wire) = yes BY DEF RouteStream, RouteHello, RouteEnvelope
<1> HIDE DEF yes
<1>3. 1 \in DOMAIN wire /\ Head(wire) = wire[1] /\ \A j \in DOMAIN wire : ~(j < 1) BY <1>0
<1>4. yes \in replies' => knows BY <1>1, <1>2, <1>3
<1>5. ASSUME NEW i \in DOMAIN wire', wire'[i] = yes PROVE knows \/ \E j \in DOMAIN wire' : j < i /\ IsHello(wire'[j])
  <2>1. i \in Nat /\ i + 1 \in DOMAIN wire /\ wire[i + 1] = yes BY <1>0, <1>5
  <2>2. known \/ \E j \in DOMAIN wire : j < i + 1 /\ IsHello(wire[j]) BY <1>1, <2>1
  <2>3. ASSUME NEW j \in DOMAIN wire, j < i + 1, IsHello(wire[j]), j # 1
        PROVE  \E k \in DOMAIN wire' : k < i /\ IsHello(wire'[k])
    <3>1. j - 1 \in DOMAIN wire' /\ wire'[j - 1] = wire[j] /\ j - 1 < i BY <1>0, <2>1, <2>3
    <3> QED BY <2>3, <3>1
  <2> QED BY <1>3, <2>2, <2>3
<1> QED BY <1>4, <1>5 DEF GreetedIn, yes

\* A step that leaves the worker's knowledge and the port's binding as they are.
LEMMA WorkerFrame ==
  ASSUME RouteInv, ConnectsFit, WorkerKnows, [RouteNext]_routeVars, ~RouteStream, ~WorkerDies,
         worker' = worker, accepted' = accepted, up' => up,
         port'.state \in {"closed", "opened"} \/ (port'.state = port.state /\ port'.greeted = port.greeted)
  PROVE  WorkerKnows'
<1>1. \A known \in BOOLEAN : GreetedIn(wire, replies, known) => GreetedIn(wire', replies', known) BY GreetsKept
<1>2. (worker.hello # NoHello) \in BOOLEAN /\ (worker.hello.epoch \in port.greeted) \in BOOLEAN OBVIOUS
<1>3. worker'.phase = "greeting" => accepted' /\ GreetedIn(wire', replies', worker.hello # NoHello)
  BY <1>1, <1>2 DEF WorkerKnows
<1>4. port'.state = "binding" => ~accepted' /\ GreetedIn(wire', replies', worker.hello.epoch \in port.greeted)
  BY <1>1, <1>2 DEF WorkerKnows
<1>5. port'.state = "bound" => accepted' /\ worker.hello.epoch \in port.greeted BY DEF WorkerKnows
<1>6. /\ worker'.phase = "recovering" => worker.hello # NoHello
      /\ accepted' /\ worker'.phase = "ready" /\ up' => worker.hello # NoHello
  BY DEF WorkerKnows
<1>7. port'.state \in {"binding", "bound"} => port'.greeted = port.greeted OBVIOUS
<1> QED BY <1>3, <1>4, <1>5, <1>6, <1>7 DEF WorkerKnows

\* A connect that has an answer was greeted, or there is no document.
LEMMA AnsweredKnows ==
  ASSUME RouteInv, ConnectsFit, NEW known \in BOOLEAN, GreetedIn(wire, replies, known), up,
         NEW r \in replies, r.call = ConnectCall
  PROVE  known /\ r.ok
<1>1. r \in AnswerType BY DEF RouteInv, WorkerTyped
<1>2. r = Answer(ConnectCall, r.ok) /\ r.ok \in BOOLEAN BY <1>1 DEF AnswerType, Answer
<1>3. r.ok BY <1>2 DEF ConnectsFit
<1>4. r = Answer(ConnectCall, TRUE) BY <1>2, <1>3
<1> QED BY <1>3, <1>4 DEF GreetedIn

\* Every step keeps the worker's knowledge of the document it was accepted by.
LEMMA WorkerKnowsKept ==
  ASSUME RouteInv, ConnectsFit, WorkerKnows, WireFits, [RouteNext]_routeVars
  PROVE  WorkerKnows'
<1>0. /\ wire \in Seq(Sendable) /\ StreamInv /\ accepted \in BOOLEAN
      /\ worker \in [phase : {"cold", "greeting", "recovering", "ready"}, hello : hellos \cup {NoHello}]
      /\ port \in [state : {"closed", "opened", "binding", "bound"}, busy : CallIds,
                   greeted : SUBSET Epochs, seen : [Epochs -> Nat]]
      /\ NoHello.epoch \notin Epochs
  BY DEF RouteInv, OffscreenTyped, WorkerTyped, PortTyped, NoHello, Hello, NoEpoch, Epochs
<1> DEFINE knows == worker.hello # NoHello
           greets == worker.hello.epoch \in port.greeted
<1>1. CASE RouteStream
  <2> DEFINE e == Head(wire)
  <2>0. UNCHANGED <<up, accepted>> /\ wire # <<>> BY <1>1 DEF RouteStream
  <2>1. CASE IsHello(e)
    <3>1. RouteHello(e) BY <1>1, <2>1 DEF RouteStream, IsHello
    <3>2. e.epoch \in Epochs
      <4>1. e = wire[1] /\ 1 \in DOMAIN wire BY <1>0, <2>0
      <4> QED BY <1>0, <2>1, <4>1, Sourced
    <3>3. e # NoHello BY <1>0, <3>2
    <3>4. worker'.phase = worker.phase /\ (worker'.hello = e \/ worker'.hello = worker.hello) BY <1>0, <3>1 DEF RouteHello
    <3>5. DescriptorKnown => worker'.hello = e BY <1>0, <3>1 DEF RouteHello
    <3>6. port'.state = port.state BY <1>0, <3>1 DEF RouteHello
    <3>7. Bound => e.epoch \in port'.greeted
      <4>1. CASE Bound /\ e.epoch \notin port.greeted
        <5>1. port' = [port EXCEPT !.greeted = port.greeted \cup {e.epoch}] BY <3>1, <4>1 DEF RouteHello
        <5> QED BY <1>0, <5>1
      <4>2. CASE Bound /\ e.epoch \in port.greeted
        <5>1. port' = port BY <3>1, <4>2 DEF RouteHello
        <5> QED BY <4>2, <5>1
      <4> QED BY <4>1, <4>2
    <3> HIDE DEF e
    <3>8. ASSUME worker'.phase = "greeting" PROVE accepted' /\ GreetedIn(wire', replies', worker'.hello # NoHello)
      <4>1. worker.phase = "greeting" BY <3>4, <3>8
      <4>2. accepted /\ GreetedIn(wire, replies, knows) BY <4>1 DEF WorkerKnows
      <4>3. DescriptorKnown BY <4>1, <4>2 DEF DescriptorKnown
      <4>4. worker'.hello # NoHello BY <3>3, <3>5, <4>3
      <4>5. GreetedIn(wire', replies', TRUE)
        <5>1. knows \in BOOLEAN OBVIOUS
        <5> HIDE DEF knows
        <5> QED BY <1>1, <4>2, <5>1, GreetsRouted
      <4>6. (worker'.hello # NoHello) = TRUE BY <4>4
      <4> QED BY <2>0, <4>2, <4>5, <4>6
    <3>9. ASSUME port'.state = "binding" PROVE ~accepted' /\ GreetedIn(wire', replies', worker'.hello.epoch \in port'.greeted)
      <4>1. Bound /\ port.state = "binding" BY <3>6, <3>9 DEF Bound
      <4>2. ~accepted /\ GreetedIn(wire, replies, greets) BY <4>1 DEF WorkerKnows
      <4>3. DescriptorKnown BY <4>1 DEF DescriptorKnown
      <4>4. worker'.hello.epoch \in port'.greeted BY <3>5, <3>7, <4>1, <4>3
      <4>5. GreetedIn(wire', replies', TRUE)
        <5>1. greets \in BOOLEAN OBVIOUS
        <5> HIDE DEF greets
        <5> QED BY <1>1, <4>2, <5>1, GreetsRouted
      <4>6. (worker'.hello.epoch \in port'.greeted) = TRUE BY <4>4
      <4> QED BY <2>0, <4>2, <4>5, <4>6
    <3>10. ASSUME port'.state = "bound" PROVE accepted' /\ worker'.hello.epoch \in port'.greeted
      <4>1. Bound /\ port.state = "bound" BY <3>6, <3>10 DEF Bound
      <4>2. accepted BY <4>1 DEF WorkerKnows
      <4>3. DescriptorKnown BY <4>1 DEF DescriptorKnown
      <4> QED BY <2>0, <3>5, <3>7, <4>1, <4>2, <4>3
    <3>11. worker.hello # NoHello => worker'.hello # NoHello BY <3>3, <3>4
    <3>12. /\ worker'.phase = "recovering" => worker'.hello # NoHello
           /\ accepted' /\ worker'.phase = "ready" /\ up' => worker'.hello # NoHello
      BY <2>0, <3>4, <3>11 DEF WorkerKnows
    <3> QED BY <3>8, <3>9, <3>10, <3>12 DEF WorkerKnows
  <2>2. CASE ~IsHello(e)
    <3>1. worker' = worker BY <1>1, <2>2 DEF RouteStream, RouteEnvelope, IsHello
    <3>2. port'.state = port.state /\ port'.greeted = port.greeted
      <4>1. CASE IsAnswer(e) BY <1>1, <4>1 DEF RouteStream
      <4>2. CASE ~IsAnswer(e)
        <5>1. RouteEnvelope(e) BY <1>1, <2>2, <4>2 DEF RouteStream, IsHello
        <5>2. port' = port \/ port' = [port EXCEPT !.seen[e.epoch] = e.seq] BY <5>1 DEF RouteEnvelope
        <5> QED BY <1>0, <5>2
      <4> QED BY <4>1, <4>2
    <3>3. knows \in BOOLEAN /\ greets \in BOOLEAN OBVIOUS
    <3> HIDE DEF knows, greets
    <3>4. \A known \in BOOLEAN : GreetedIn(wire, replies, known) => GreetedIn(wire', replies', known)
      BY <1>1, <2>2, GreetsRouted
    <3>5. GreetedIn(wire, replies, knows) => GreetedIn(wire', replies', knows) BY <3>3, <3>4
    <3>6. GreetedIn(wire, replies, greets) => GreetedIn(wire', replies', greets) BY <3>3, <3>4
    <3> USE DEF knows, greets
    <3> QED BY <2>0, <3>1, <3>2, <3>5, <3>6 DEF WorkerKnows
  <2> QED BY <2>1, <2>2
<1>2. CASE WorkerDies
  <2>1. worker'.phase = "cold" /\ port'.state = "closed"
    BY <1>2 DEF WorkerDies, ColdWorker, ClosePort, ClosedPort
  <2> QED BY <2>1 DEF WorkerKnows
<1> DEFINE steady == /\ worker' = worker /\ accepted' = accepted /\ (up' => up)
                     /\ \/ port'.state \in {"closed", "opened"}
                        \/ port'.state = port.state /\ port'.greeted = port.greeted
<1>3. ASSUME ~RouteStream, ~WorkerDies, steady PROVE WorkerKnows'
  BY <1>3, WorkerFrame
<1>4. ASSUME ~RouteStream, ~WorkerDies
      PROVE  \A known \in BOOLEAN : GreetedIn(wire, replies, known) => GreetedIn(wire', replies', known)
  BY <1>4, GreetsKept
<1>5. ASSUME Initialize, ~RouteStream, ~WorkerDies PROVE WorkerKnows'
  <2>1. worker.phase = "cold" /\ UNCHANGED <<wire, replies, accepted, port>> BY <1>5 DEF Initialize, portVars
  <2>2. worker'.hello = worker.hello /\ worker'.phase = (IF accepted THEN "greeting" ELSE "ready") BY <1>0, <1>5 DEF Initialize
  <2>3. \A known \in BOOLEAN : GreetedIn(wire, replies, known)
    <3>1. Answer(ConnectCall, TRUE).call = ConnectCall /\ IsAnswer(Answer(ConnectCall, TRUE)) BY DEF Answer, IsAnswer
    <3>2. Answer(ConnectCall, TRUE) \notin replies /\ \A i \in DOMAIN wire : wire[i] # Answer(ConnectCall, TRUE)
      BY <2>1, <3>1 DEF ConnectsFit
    <3> QED BY <3>2 DEF GreetedIn
  <2>4. (worker.hello # NoHello) \in BOOLEAN OBVIOUS
  <2>5. GreetedIn(wire', replies', worker'.hello # NoHello) BY <2>1, <2>2, <2>3, <2>4
  <2>6. port'.state = "binding" => ~accepted' /\ GreetedIn(wire', replies', worker'.hello.epoch \in port'.greeted)
    BY <2>1, <2>2 DEF WorkerKnows
  <2>7. port'.state = "bound" => accepted' /\ worker'.hello.epoch \in port'.greeted BY <2>1, <2>2 DEF WorkerKnows
  <2>8. worker'.phase = "greeting" => accepted' BY <2>1, <2>2
  <2>9. ~(accepted' /\ worker'.phase = "ready") /\ worker'.phase # "recovering" BY <2>1, <2>2
  <2> QED BY <2>5, <2>6, <2>7, <2>8, <2>9 DEF WorkerKnows
<1>6. ASSUME RecoverAccepted, ~RouteStream, ~WorkerDies PROVE WorkerKnows'
  <2>1. worker.phase = "greeting" /\ UNCHANGED <<up, accepted, port>> BY <1>6 DEF RecoverAccepted, portVars
  <2>2. PICK r \in replies :
          /\ r.call = ConnectCall
          /\ worker' = [worker EXCEPT !.phase = IF r.ok /\ worker.hello # NoHello /\ up THEN "recovering" ELSE "ready"]
    BY <1>6 DEF RecoverAccepted
  <2>3. worker'.hello = worker.hello /\ worker'.phase = (IF r.ok /\ worker.hello # NoHello /\ up THEN "recovering" ELSE "ready")
    BY <1>0, <2>2
  <2>4. accepted /\ GreetedIn(wire, replies, knows) BY <2>1 DEF WorkerKnows
  <2>5. knows \in BOOLEAN OBVIOUS
  <2>6. up => knows BY <2>2, <2>4, <2>5, AnsweredKnows
  <2>7. port.state # "binding" BY <2>4 DEF WorkerKnows
  <2>8. port.state = "bound" => worker.hello.epoch \in port.greeted BY DEF WorkerKnows
  <2> QED BY <2>1, <2>3, <2>4, <2>6, <2>7, <2>8 DEF WorkerKnows
<1>7. ASSUME FinishRecovery, ~RouteStream, ~WorkerDies PROVE WorkerKnows'
  <2>1. worker.phase = "recovering" /\ UNCHANGED <<up, accepted, port>> /\ worker' = [worker EXCEPT !.phase = "ready"]
    BY <1>7 DEF FinishRecovery, offscreenVars, portVars
  <2>2. worker'.hello = worker.hello /\ worker'.phase = "ready" BY <1>0, <2>1
  <2>3. worker.hello # NoHello BY <2>1 DEF WorkerKnows
  <2>4. greets \in BOOLEAN OBVIOUS
  <2>5. port.state = "binding" => ~accepted /\ GreetedIn(wire', replies', greets) BY <1>4, <1>7, <2>4 DEF WorkerKnows
  <2>6. port.state = "bound" => accepted /\ greets BY DEF WorkerKnows
  <2> QED BY <2>1, <2>2, <2>3, <2>5, <2>6 DEF WorkerKnows
<1>8. ASSUME BindRoute, ~RouteStream, ~WorkerDies PROVE WorkerKnows'
  <2>1. worker.phase = "ready" /\ ConnectCall \notin Used /\ UNCHANGED <<up, wire, worker, accepted, replies>>
    BY <1>8 DEF BindRoute, workerVars
  <2>2. CASE accepted /\ worker.hello # NoHello
    <3>1. port' = [port EXCEPT !.state = "bound", !.greeted = {worker.hello.epoch}] BY <1>8, <2>2 DEF BindRoute
    <3>2. port'.state = "bound" /\ port'.greeted = {worker.hello.epoch} BY <1>0, <3>1
    <3> QED BY <2>1, <2>2, <3>2 DEF WorkerKnows
  <2>3. CASE ~(accepted /\ worker.hello # NoHello)
    <3>1. up /\ port' = [port EXCEPT !.state = "binding"] BY <1>8, <2>3 DEF BindRoute
    <3>2. port'.state = "binding" BY <1>0, <3>1
    <3>3. ~accepted BY <2>1, <2>3, <3>1 DEF WorkerKnows
    <3>4. \A known \in BOOLEAN : GreetedIn(wire, replies, known)
      <4>1. Answer(ConnectCall, TRUE).call = ConnectCall /\ IsAnswer(Answer(ConnectCall, TRUE)) BY DEF Answer, IsAnswer
      <4>2. Answer(ConnectCall, TRUE) \notin replies BY <2>1, <4>1 DEF Used
      <4>3. \A i \in DOMAIN wire : wire[i] # Answer(ConnectCall, TRUE) BY <2>1, <4>1 DEF Used
      <4> QED BY <4>2, <4>3 DEF GreetedIn
    <3>5. (worker'.hello.epoch \in port'.greeted) \in BOOLEAN OBVIOUS
    <3>6. GreetedIn(wire', replies', worker'.hello.epoch \in port'.greeted) BY <2>1, <3>4, <3>5
    <3> QED BY <2>1, <3>2, <3>3, <3>6 DEF WorkerKnows
  <2> QED BY <2>2, <2>3
<1>9. ASSUME FinishBind, ~RouteStream, ~WorkerDies PROVE WorkerKnows'
  <2>1. worker.phase = "ready" /\ UNCHANGED <<up, worker>> BY <1>9 DEF FinishBind, offscreenVars
  <2>2. PICK r \in replies :
          /\ r.call = ConnectCall
          /\ \/ port.state = "binding" /\ ~r.ok /\ ClosePort /\ UNCHANGED accepted
             \/ port.state = "binding" /\ r.ok /\ accepted' = TRUE /\ port' = [port EXCEPT !.state = "bound"]
             \/ port.state # "binding" /\ UNCHANGED <<accepted, port>>
    BY <1>9 DEF FinishBind
  <2>3. CASE port.state = "binding" /\ ~r.ok /\ ClosePort /\ UNCHANGED accepted
    <3>1. port'.state = "closed" BY <2>3 DEF ClosePort, ClosedPort
    <3> QED BY <1>3, <1>9, <2>1, <2>3, <3>1
  <2>4. CASE port.state # "binding" /\ UNCHANGED <<accepted, port>> BY <1>3, <1>9, <2>1, <2>4
  <2>5. CASE port.state = "binding" /\ r.ok /\ accepted' = TRUE /\ port' = [port EXCEPT !.state = "bound"]
    <3>1. port'.state = "bound" /\ port'.greeted = port.greeted BY <1>0, <2>5
    <3>2. GreetedIn(wire, replies, greets) BY <2>5 DEF WorkerKnows
    <3>3. r = Answer(ConnectCall, TRUE)
      <4>1. r \in AnswerType BY DEF RouteInv, WorkerTyped
      <4> QED BY <2>2, <2>5, <4>1 DEF AnswerType, Answer
    <3>4. greets BY <3>2, <3>3 DEF GreetedIn
    <3>5. worker.hello # NoHello BY <1>0, <3>4
    <3> QED BY <2>1, <2>5, <3>1, <3>4, <3>5 DEF WorkerKnows
  <2> QED BY <2>2, <2>3, <2>4, <2>5
<1>10. ASSUME ForwardRequest \/ Respond \/ Reconnect \/ PortDrops \/ ReopenPanel, ~RouteStream, ~WorkerDies
       PROVE  WorkerKnows'
  <2>1. UNCHANGED <<up, worker, accepted>>
    BY <1>10 DEF ForwardRequest, Respond, Reconnect, PortDrops, ReopenPanel, offscreenVars, workerVars
  <2>2. CASE ForwardRequest \/ Respond
    <3>1. port'.state = port.state /\ port'.greeted = port.greeted
      <4>1. CASE ForwardRequest
        <5>1. port' = port \/ port' = [port EXCEPT !.busy = Head(toWorker).id] BY <4>1 DEF ForwardRequest
        <5> QED BY <1>0, <5>1
      <4>2. CASE Respond BY <1>0, <4>2 DEF Respond
      <4> QED BY <2>2, <4>1, <4>2
    <3> QED BY <1>3, <1>10, <2>1, <3>1
  <2>3. CASE Reconnect
    <3>1. port'.state = "opened" BY <1>0, <2>3 DEF Reconnect
    <3> QED BY <1>3, <1>10, <2>1, <3>1
  <2>4. CASE PortDrops \/ ReopenPanel
    <3>1. port'.state = "closed" BY <2>4 DEF PortDrops, ReopenPanel, ClosePort, ClosedPort
    <3> QED BY <1>3, <1>10, <2>1, <3>1
  <2> QED BY <1>10, <2>2, <2>3, <2>4
<1> DEFINE calm == UNCHANGED <<worker, accepted, port>> /\ (up' => up)
<1>11. ASSUME AgentAnnounces \/ HandleCall \/ PromptSucceeds \/ PromptStops \/ OffscreenDies \/ SaveCheckpoint
       PROVE  calm
  BY <1>11 DEF AgentAnnounces, HandleCall, PromptSucceeds, PromptStops, FinishPrompt, HostOnly, OffscreenDies,
     SaveCheckpoint, offscreenVars, workerVars, portVars
<1>12. ASSUME \/ PanelReceives \/ RecoveryTimeout \/ ResyncTimeout \/ EnsureConnected \/ SendPrompt \/ AbortActive
              \/ UNCHANGED routeVars
       PROVE  calm
  BY <1>12 DEF PanelReceives, PanelReceivesHello, PanelReceivesEnvelope, PanelReceivesAnswer, PanelOnly,
     RecoveryTimeout, ResyncTimeout, EnsureConnected, SendPrompt, AbortActive, routeVars, offscreenVars, workerVars,
     portVars
<1>13. calm => steady OBVIOUS
<1> HIDE DEF calm, steady
<1> QED
  BY <1>1, <1>2, <1>3, <1>5, <1>6, <1>7, <1>8, <1>9, <1>10, <1>11, <1>12, <1>13
     DEF RouteNext, WorkerStarts, WorkerServes

\* All that the port has seen of an epoch behind a position is on its way to the panel.
FollowsIn(streams, queue, seen, ep, seq) ==
  /\ seen[ep] > 0
  /\ \A n \in Nat : seq < n /\ n <= seen[ep] => Has(streams, queue, ep, n)
Follows == FollowsIn(sent, toPanel, port.seen, channel.epoch, channel.sess.seq)
HelloFirst == toPanel # <<>> /\ IsHello(Head(toPanel))
NoHelloOf(queue, ep) == \A i \in DOMAIN queue : IsHello(queue[i]) => queue[i].epoch # ep

\* A client that is fresh, or is about to say so, gets all that follows.
ClientFits ==
  /\ recovery.seen =>
       /\ ~recovery.answered /\ recovery.epoch = channel.epoch /\ Fresh /\ Bound /\ Follows
       /\ NoHelloOf(toPanel, channel.epoch)
  /\ attached # NoEpoch =>
       attached = channel.epoch /\ Fresh /\ (~Bound \/ HelloFirst \/ Follows)

\* What follows stays on its way while none of the stream is taken.
LEMMA FollowsMore ==
  ASSUME NEW s, NEW t, Extends(s, t), NEW ep \in Epochs, NEW queue, NEW other,
         \A i \in DOMAIN queue : IsStream(queue[i]) => \E j \in DOMAIN other : other[j] = queue[i],
         NEW seen \in [Epochs -> Nat], seen[ep] <= Len(s[ep]), NEW seq \in Nat,
         FollowsIn(s, queue, seen, ep, seq)
  PROVE  FollowsIn(t, other, seen, ep, seq)
<1>1. s[ep] \in Seq(EntryType) /\ seen[ep] \in Nat /\ Len(s[ep]) \in Nat BY DEF Extends
<1>2. ASSUME NEW n \in Nat, seq < n, n <= seen[ep] PROVE Has(t, other, ep, n)
  <2>1. n \in 1..Len(s[ep]) BY <1>1, <1>2
  <2>2. PICK i \in DOMAIN queue : queue[i] = Env(s, ep, n) BY <1>2 DEF FollowsIn, Has
  <2>3. IsStream(queue[i]) BY <1>1, <2>1, <2>2, EnvIs
  <2>4. PICK j \in DOMAIN other : other[j] = queue[i] BY <2>3
  <2>5. Env(t, ep, n) = Env(s, ep, n) BY <2>1, EnvKept
  <2> QED BY <2>2, <2>4, <2>5 DEF Has
<1> QED BY <1>2 DEF FollowsIn

\* What each step of the route has to do with: the panel's channel, when it is fresh.
LEMMA FreshTyped ==
  ASSUME RouteInv, Fresh
  PROVE  /\ channel.epoch \in Epochs /\ channel.sess.seq \in 1..Len(sent[channel.epoch]) /\ channel.sess.seq \in Nat
         /\ channel.sess.rev = sent[channel.epoch][channel.sess.seq].rev
<1>1. StreamInv BY DEF RouteInv
<1>2. channel.epoch \in Epochs BY <1>1 DEF StreamInv, TypeOK, Fresh
<1>3. sent[channel.epoch] \in Seq(EntryType) BY <1>1, <1>2 DEF StreamInv, TypeOK
<1> QED BY <1>1, <1>2, <1>3 DEF StreamInv, ViewFollowsStream, Fresh

\* A step of the host, of the worker or of the port that takes nothing from the panel.
LEMMA ClientFrame ==
  ASSUME RouteInv, PortFits, ClientFits, [RouteNext]_routeVars, channel' = channel,
         attached' = attached, recovery' = recovery \/ ~recovery'.seen,
         port'.seen = port.seen, Bound' = Bound,
         \/ toPanel' = toPanel
         \/ \E more \in Seq(Sendable) :
              toPanel' = toPanel \o more /\ \A k \in DOMAIN more : IsAnswer(more[k]) \/ more[k].epoch \notin port.greeted
  PROVE  ClientFits'
<1>0. /\ StreamInv /\ Extends(sent, sent') /\ toPanel \in Seq(Sendable) /\ port.seen \in [Epochs -> Nat]
      /\ \A ep \in Epochs : port.seen[ep] <= Len(sent[ep]) /\ (port.seen[ep] > 0 => ep \in port.greeted)
  BY StreamPart, SentExtends DEF RouteInv, PortTyped, PortFits
<1>1. \A i \in DOMAIN toPanel : i \in DOMAIN toPanel' /\ toPanel'[i] = toPanel[i]
  <2>1. CASE toPanel' = toPanel BY <2>1
  <2>2. CASE \E more \in Seq(Sendable) : toPanel' = toPanel \o more
    <3>1. PICK more \in Seq(Sendable) : toPanel' = toPanel \o more BY <2>2
    <3> QED BY <1>0, <3>1
  <2> QED BY <2>1, <2>2
<1>2. ASSUME Fresh, Follows PROVE Fresh' /\ Follows'
  <2>1. /\ channel.epoch \in Epochs /\ channel.sess.seq \in Nat BY <1>2, FreshTyped
  <2>2. \A i \in DOMAIN toPanel : IsStream(toPanel[i]) => \E j \in DOMAIN toPanel' : toPanel'[j] = toPanel[i] BY <1>1
  <2>3. FollowsIn(sent', toPanel', port.seen, channel.epoch, channel.sess.seq)
    BY <1>0, <1>2, <2>1, <2>2, FollowsMore DEF Follows
  <2>4. Fresh' BY <1>2 DEF Fresh
  <2> QED BY <2>3, <2>4 DEF Follows
<1>3. ASSUME recovery'.seen
      PROVE  /\ ~recovery'.answered /\ recovery'.epoch = channel'.epoch /\ Fresh' /\ Bound' /\ Follows'
             /\ NoHelloOf(toPanel', channel'.epoch)
  <2>1. recovery' = recovery /\ recovery.seen BY <1>3
  <2>2. Fresh /\ Follows /\ Bound /\ NoHelloOf(toPanel, channel.epoch) BY <2>1 DEF ClientFits
  <2>3. channel.epoch \in Epochs BY <2>2, FreshTyped
  <2>4. channel.epoch \in port.greeted BY <1>0, <2>2, <2>3 DEF Follows, FollowsIn
  <2>5. NoHelloOf(toPanel', channel.epoch)
    <3>1. CASE toPanel' = toPanel BY <2>2, <3>1
    <3>2. CASE toPanel' # toPanel
      <4>1. PICK more \in Seq(Sendable) :
              toPanel' = toPanel \o more /\ \A k \in DOMAIN more : IsAnswer(more[k]) \/ more[k].epoch \notin port.greeted
        BY <3>2
      <4>2. \A i \in DOMAIN toPanel' : \/ i \in DOMAIN toPanel /\ toPanel'[i] = toPanel[i]
                                       \/ \E k \in DOMAIN more : toPanel'[i] = more[k]
        BY <1>0, <4>1
      <4> QED BY <2>2, <2>4, <4>1, <4>2 DEF NoHelloOf, IsHello
    <3> QED BY <3>1, <3>2
  <2>6. Fresh' /\ Follows' BY <1>2, <2>2
  <2> QED BY <2>1, <2>2, <2>5, <2>6 DEF ClientFits
<1>4. ASSUME attached' # NoEpoch
      PROVE  attached' = channel'.epoch /\ Fresh' /\ (~Bound' \/ HelloFirst' \/ Follows')
  <2>1. attached = channel.epoch /\ Fresh /\ (~Bound \/ HelloFirst \/ Follows) BY <1>4 DEF ClientFits
  <2>2. Fresh' BY <2>1 DEF Fresh
  <2>3. HelloFirst => HelloFirst'
    <3>1. ASSUME HelloFirst PROVE 1 \in DOMAIN toPanel /\ Head(toPanel) = toPanel[1] BY <1>0, <3>1 DEF HelloFirst
    <3>2. toPanel # <<>> => toPanel' # <<>> /\ Head(toPanel') = Head(toPanel) BY <1>0
    <3> QED BY <3>2 DEF HelloFirst
  <2>4. Follows => Follows' BY <1>2, <2>1
  <2> QED BY <2>1, <2>2, <2>3, <2>4
<1> QED BY <1>3, <1>4 DEF ClientFits

\* A client of a session that nobody was accepted for is not fresh.
LEMMA NotYetFresh ==
  ASSUME RouteInv, NothingBeforeAccepted, ~accepted
  PROVE  ~Fresh
<1> SUFFICES ASSUME Fresh PROVE FALSE OBVIOUS
<1>1. channel.epoch \in Epochs /\ channel.sess.seq \in 1..Len(sent[channel.epoch]) BY FreshTyped
<1>2. sent[channel.epoch] = <<>> BY <1>1 DEF NothingBeforeAccepted
<1>3. Len(sent[channel.epoch]) = 0 BY <1>2
<1> QED BY <1>1, <1>3

\* With the port go the recovery's snapshot and what was to follow.
LEMMA ClosedClient ==
  ASSUME ClientFits, port'.state \in {"closed", "opened"}, ~recovery'.seen,
         attached' = NoEpoch \/ (attached' = attached /\ channel' = channel)
  PROVE  ClientFits'
<1>1. ~Bound' BY DEF Bound
<1>2. ASSUME attached' # NoEpoch PROVE attached' = channel'.epoch /\ Fresh'
  <2>1. attached # NoEpoch /\ attached' = attached /\ channel' = channel BY <1>2
  <2> QED BY <2>1 DEF ClientFits, Fresh
<1> QED BY <1>1, <1>2 DEF ClientFits

\* A route bound at once begins with a hello; one that is connected first has sent nothing yet.
LEMMA BoundClient ==
  ASSUME RouteInv, PortFits, ClientFits, NothingBeforeAccepted, WorkerKnows', accepted' = accepted,
         [RouteNext]_routeVars, BindRoute
  PROVE  ClientFits'
<1>0. /\ port \in [state : {"closed", "opened", "binding", "bound"}, busy : CallIds,
                   greeted : SUBSET Epochs, seen : [Epochs -> Nat]]
      /\ worker.hello \in hellos \cup {NoHello} /\ StreamInv
  BY DEF RouteInv, WorkerTyped, PortTyped
<1>1. UNCHANGED <<channel, attached, recovery>> BY DEF BindRoute, vars, clientVars
<1>2. ~Bound /\ toPanel = <<>> BY DEF BindRoute, Bound, PortFits
<1>3. ~recovery.seen BY <1>2 DEF ClientFits
<1>4. attached # NoEpoch => attached = channel.epoch /\ Fresh BY DEF ClientFits
<1>5. CASE accepted /\ worker.hello # NoHello
  <2>1. toPanel' = <<worker.hello>> BY <1>2, <1>5 DEF BindRoute
  <2>2. worker.hello.type = "hello" BY <1>0, <1>5 DEF StreamInv, TypeOK, HelloType
  <2>3. IsHello(worker.hello) BY <2>2 DEF IsHello, IsAnswer
  <2>4. HelloFirst' BY <2>1, <2>3 DEF HelloFirst
  <2> QED BY <1>1, <1>3, <1>4, <2>4 DEF ClientFits, Fresh
<1>6. CASE ~(accepted /\ worker.hello # NoHello)
  <2>1. port' = [port EXCEPT !.state = "binding"] BY <1>6 DEF BindRoute
  <2>2. port'.state = "binding" BY <1>0, <2>1
  <2>3. ~accepted BY <2>2 DEF WorkerKnows
  <2>4. attached = NoEpoch BY <1>4, <2>3, NotYetFresh
  <2> QED BY <1>1, <1>3, <2>4 DEF ClientFits
<1> QED BY <1>5, <1>6

\* What the port is given next is what the panel needs next.
LEMMA RoutedClient ==
  ASSUME RouteInv, WireFits, PortFits, ClientFits, [RouteNext]_routeVars, RouteStream,
         ~IsAnswer(Head(wire)), Head(wire).type # "hello",
         Bound, Head(wire).epoch = worker.hello.epoch, Head(wire).seq > port.seen[Head(wire).epoch]
  PROVE  ClientFits'
<1> DEFINE e == Head(wire)
           n == e.seq
<1>0. /\ StreamInv /\ wire \in Seq(Sendable) /\ toPanel \in Seq(Sendable) /\ epoch \in Epochs
      /\ port \in [state : {"closed", "opened", "binding", "bound"}, busy : CallIds,
                   greeted : SUBSET Epochs, seen : [Epochs -> Nat]]
      /\ \A ep \in Epochs : sent[ep] \in Seq(EntryType)
  BY DEF RouteInv, OffscreenTyped, PortTyped, StreamInv, TypeOK
<1>1. wire # <<>> /\ UNCHANGED <<epoch, sent, channel, attached, recovery>> BY DEF RouteStream, vars, clientVars
<1>2. 1 \in DOMAIN wire /\ e = wire[1] BY <1>0, <1>1
<1>3. up BY <1>1 DEF WireFits
<1>4. e.epoch = epoch /\ IsStream(e) /\ ~IsHello(e) BY <1>2 DEF WireFits, IsHello, IsStream
<1>5. RouteEnvelope(e) BY DEF RouteStream
<1>6. port' = [port EXCEPT !.seen[epoch] = n] /\ toPanel' = Append(toPanel, e) BY <1>4, <1>5 DEF RouteEnvelope
<1>7. port'.state = port.state /\ port'.seen = [port.seen EXCEPT ![epoch] = n]
  <2>1. port' = [port EXCEPT !.seen = [port.seen EXCEPT ![epoch] = n]] BY <1>6
  <2> QED BY <1>0, <2>1
<1>8. FromStreams(sent, wire) BY <1>0, Sourced
<1>9. n \in 1..Len(sent[epoch]) /\ e = Env(sent, epoch, n) BY <1>2, <1>4, <1>8 DEF FromStreams
<1>10. port.seen[epoch] > 0 => n = port.seen[epoch] + 1 BY <1>1, <1>3, <1>4, NextRouted
<1>11. e \in Sendable BY <1>0, <1>2
<1> HIDE DEF n, e
<1>12. /\ \A i \in DOMAIN toPanel : i \in DOMAIN toPanel' /\ toPanel'[i] = toPanel[i]
       /\ \A i \in DOMAIN toPanel' : (i \in DOMAIN toPanel /\ toPanel'[i] = toPanel[i]) \/ toPanel'[i] = e
       /\ Len(toPanel) + 1 \in DOMAIN toPanel' /\ toPanel'[Len(toPanel) + 1] = e
  BY <1>0, <1>6, <1>11
<1>13. ASSUME Fresh, Follows PROVE Fresh' /\ Follows'
  <2> DEFINE ep == channel.epoch
  <2>1. ep \in Epochs BY <1>13, FreshTyped
  <2>2. port.seen[ep] > 0 /\ \A k \in Nat : channel.sess.seq < k /\ k <= port.seen[ep] => Has(sent, toPanel, ep, k)
    BY <1>13 DEF Follows, FollowsIn
  <2>3. port'.seen[ep] = (IF ep = epoch THEN n ELSE port.seen[ep]) BY <1>0, <1>7, <2>1
  <2>4. port'.seen[ep] \in Nat /\ port'.seen[ep] > 0 BY <1>0, <1>9, <2>1, <2>2, <2>3
  <2>5. ASSUME NEW k \in Nat, channel.sess.seq < k, k <= port'.seen[ep] PROVE Has(sent, toPanel', ep, k)
    <3>1. CASE k <= port.seen[ep]
      <4>1. PICK i \in DOMAIN toPanel : toPanel[i] = Env(sent, ep, k) BY <2>2, <2>5, <3>1 DEF Has
      <4> QED BY <1>12, <4>1 DEF Has
    <3>2. CASE ~(k <= port.seen[ep])
      <4>1. ep = epoch /\ port.seen[epoch] \in Nat BY <1>0, <2>3, <2>5, <3>2
      <4>2. k = n BY <1>10, <2>2, <2>3, <2>5, <3>2, <4>1
      <4> QED BY <1>9, <1>12, <4>1, <4>2 DEF Has
    <3> QED BY <3>1, <3>2
  <2>6. FollowsIn(sent, toPanel', port'.seen, ep, channel.sess.seq) BY <2>4, <2>5 DEF FollowsIn
  <2> QED BY <1>1, <1>13, <2>6 DEF Follows, Fresh
<1>14. Bound' BY <1>7 DEF Bound
<1>15. ASSUME recovery.seen
       PROVE  /\ ~recovery.answered /\ recovery.epoch = channel.epoch /\ Fresh' /\ Follows'
              /\ NoHelloOf(toPanel', channel.epoch)
  <2>1. NoHelloOf(toPanel', channel.epoch) BY <1>4, <1>12, <1>15 DEF ClientFits, NoHelloOf
  <2> QED BY <1>13, <1>15, <2>1 DEF ClientFits
<1>16. ASSUME attached # NoEpoch PROVE attached = channel.epoch /\ Fresh' /\ (HelloFirst' \/ Follows')
  <2>1. attached = channel.epoch /\ Fresh /\ (HelloFirst \/ Follows) BY <1>16 DEF ClientFits
  <2>2. Fresh' BY <1>1, <2>1 DEF Fresh
  <2>3. HelloFirst => HelloFirst'
    <3>1. toPanel # <<>> => toPanel' # <<>> /\ Head(toPanel') = Head(toPanel) BY <1>0, <1>6, <1>11
    <3> QED BY <3>1 DEF HelloFirst
  <2> QED BY <1>13, <2>1, <2>2, <2>3
<1> QED BY <1>1, <1>14, <1>15, <1>16 DEF ClientFits

\* A fresh session ignores what it had and applies what is next.
LEMMA FreshReduces ==
  ASSUME TypeOK, Fresh, NEW e, e.epoch = channel.epoch, e.seq \in Nat, e.rev \in Nat
  PROVE  LET after == ReduceSessionStream(channel, e).sess IN
         /\ e.seq < channel.sess.seq => after = channel.sess
         /\ e.seq = channel.sess.seq /\ channel.sess.print = Fingerprint(e) => after = channel.sess
         /\ e.seq = channel.sess.seq + 1 /\ channel.sess.rev <= e.rev =>
              after.known /\ ~after.stale /\ after.seq = e.seq
<1> DEFINE s == channel.sess
           after == ReduceSessionStream(channel, e).sess
<1>1. s \in SessionType /\ s.known = TRUE /\ s.stale = FALSE /\ channel.epoch # NoEpoch /\ s.seq \in Nat /\ s.rev \in Nat
  BY DEF TypeOK, Fresh, SessionType
<1>2. CASE e.type = "snapshot"
  <2>1. after = ApplySnapshot(s, e).sess BY <1>1, <1>2 DEF ReduceSessionStream
  <2>2. e.seq < s.seq => after = s
    <3> SUFFICES ASSUME e.seq < s.seq PROVE after = s OBVIOUS
    <3>1. e.seq # s.seq BY <1>1
    <3> QED BY <1>1, <2>1, <3>1 DEF ApplySnapshot, Outcome
  <2>3. e.seq = s.seq /\ s.print = Fingerprint(e) => after = s
    BY <1>1, <2>1 DEF ApplySnapshot, Outcome
  <2>4. ASSUME e.seq = s.seq + 1, s.rev <= e.rev PROVE after.known /\ ~after.stale /\ after.seq = e.seq
    <3>1. e.seq # s.seq /\ ~(e.seq < s.seq) /\ ~(e.rev < s.rev) BY <1>1, <2>4
    <3>2. after = Applied(EmptySession(0, FALSE), e) BY <1>1, <2>1, <3>1 DEF ApplySnapshot, Outcome
    <3> QED BY <3>2 DEF Applied, EmptySession, Absent
  <2> QED BY <2>2, <2>3, <2>4
<1>3. CASE e.type # "snapshot"
  <2>1. after = ApplyEvent(s, e).sess BY <1>1, <1>3 DEF ReduceSessionStream
  <2>2. e.seq < s.seq => after = s
    <3> SUFFICES ASSUME e.seq < s.seq PROVE after = s OBVIOUS
    <3>1. e.seq # s.seq BY <1>1
    <3> QED BY <1>1, <2>1, <3>1 DEF ApplyEvent, Outcome
  <2>3. e.seq = s.seq /\ s.print = Fingerprint(e) => after = s
    BY <1>1, <2>1 DEF ApplyEvent, Outcome
  <2>4. ASSUME e.seq = s.seq + 1, s.rev <= e.rev PROVE after.known /\ ~after.stale /\ after.seq = e.seq
    <3>1. e.seq # s.seq /\ ~(e.seq < s.seq) /\ ~(e.rev < s.rev) BY <1>1, <2>4
    <3>2. after = Applied(s, e) BY <1>1, <2>1, <2>4, <3>1 DEF ApplyEvent, Outcome
    <3> QED BY <1>1, <3>2 DEF Applied, SessionType
  <2> QED BY <2>2, <2>3, <2>4
<1> QED BY <1>2, <1>3

\* What the reducer applies as a snapshot makes the session fresh, at the snapshot.
LEMMA SnapshotReduces ==
  ASSUME TypeOK, NEW e, ReduceSessionStream(channel, e).effect \in {"snapshot-applied", "resynced"}
  PROVE  LET after == ReduceSessionStream(channel, e).sess IN
         /\ e.epoch = channel.epoch /\ channel.epoch # NoEpoch
         /\ after.known /\ ~after.stale /\ after.seq = e.seq
<1> DEFINE s == channel.sess
           after == ReduceSessionStream(channel, e).sess
<1>1. channel.epoch # NoEpoch BY DEF ReduceSessionStream, Outcome
<1>2. e.epoch = channel.epoch BY <1>1 DEF ReduceSessionStream, Outcome
<1>3. e.type = "snapshot"
  BY <1>1, <1>2 DEF ReduceSessionStream, ApplyEvent, Outcome
<1>4. ReduceSessionStream(channel, e) = ApplySnapshot(s, e) BY <1>1, <1>2, <1>3 DEF ReduceSessionStream
<1>5. after = Applied(EmptySession(0, FALSE), e)
  <2> DEFINE fresh == Applied(EmptySession(0, FALSE), e)
             marked == MarkStale(s)
  <2>1. ApplySnapshot(s, e).effect \in {"snapshot-applied", "resynced"} BY <1>4
  <2>2. \/ ApplySnapshot(s, e) \in {Outcome(s, "duplicate"), Outcome(marked, "sequence-conflict"),
                                    Outcome(s, "stale-sequence"), Outcome(marked, "revision-regression")}
        \/ \E effect : ApplySnapshot(s, e) = Outcome(fresh, effect)
    BY DEF ApplySnapshot
  <2> HIDE DEF fresh, marked, s
  <2>3. \E effect : ApplySnapshot(s, e) = Outcome(fresh, effect) BY <2>1, <2>2 DEF Outcome
  <2>4. ApplySnapshot(s, e).sess = fresh BY <2>3 DEF Outcome
  <2> QED BY <1>4, <2>4 DEF fresh
<1>6. after.known /\ ~after.stale /\ after.seq = e.seq BY <1>5 DEF Applied, EmptySession, Absent
<1> QED BY <1>1, <1>2, <1>6

\* A client that gets all that follows is still fresh after the next envelope.
LEMMA EnvelopeKeepsFresh ==
  ASSUME RouteInv, RevsRise, PrintFits, PortFits, PanelReceivesEnvelope, Fresh, Follows
  PROVE  Fresh' /\ Follows' /\ channel'.epoch = channel.epoch
<1> DEFINE e == Head(toPanel)
           s == channel.sess
           ep == channel.epoch
           after == ReduceSessionStream(channel, e).sess
<1>0. /\ StreamInv /\ TypeOK /\ toPanel \in Seq(Sendable) /\ port.seen \in [Epochs -> Nat]
      /\ ep \in Epochs /\ s.seq \in 1..Len(sent[ep]) /\ s.seq \in Nat /\ s.rev = sent[ep][s.seq].rev
      /\ sent[ep] \in Seq(EntryType)
  BY FreshTyped DEF RouteInv, PortTyped, StreamInv, TypeOK
<1>1. toPanel # <<>> /\ IsStream(e) /\ toPanel' = Tail(toPanel) /\ UNCHANGED <<port, sent>>
  BY DEF PanelReceivesEnvelope, PanelOnly, Receive, IsStream
<1>2. channel' = [channel EXCEPT !.sess = after] BY DEF PanelReceivesEnvelope, Receive
<1>3. channel'.epoch = ep /\ channel'.sess = after
  <2>1. channel \in [epoch : Epochs \cup {NoEpoch}, sess : SessionType] BY <1>0 DEF TypeOK
  <2> HIDE DEF after
  <2> QED BY <1>2, <2>1
<1>4. 1 \in DOMAIN toPanel /\ e = toPanel[1] /\ DOMAIN toPanel = 1..Len(toPanel) BY <1>0, <1>1
<1>5. FromStreams(sent, toPanel) BY <1>0, Sourced
<1>6. e.epoch \in Epochs /\ e.seq \in 1..Len(sent[e.epoch]) /\ e = Env(sent, e.epoch, e.seq)
  BY <1>1, <1>4, <1>5 DEF FromStreams
<1>7. /\ port.seen[ep] > 0
      /\ \A k \in Nat : s.seq < k /\ k <= port.seen[ep] => Has(sent, toPanel, ep, k)
  BY DEF Follows, FollowsIn
<1>8. InOrder(toPanel) /\ (e.epoch = ep => e.seq <= port.seen[ep])
  BY <1>1, <1>4 DEF PortFits, Contiguous, NoGap
<1>9. Len(sent[ep]) \in Nat /\ port.seen[ep] \in Nat BY <1>0
\* What is not at the head is still to come.
<1>10. ASSUME NEW k \in Nat, s.seq < k, k <= port.seen[ep], e.epoch # ep \/ e.seq # k
       PROVE  Has(sent, toPanel', ep, k)
  <2>1. PICK j \in DOMAIN toPanel : toPanel[j] = Env(sent, ep, k) BY <1>7, <1>10 DEF Has
  <2>2. k \in 1..Len(sent[ep]) BY <1>0, <1>9, <1>10 DEF PortFits
  <2>3. toPanel[j].seq = k /\ toPanel[j].epoch = ep BY <1>0, <2>1, <2>2, EnvIs
  <2>4. j # 1 BY <1>4, <1>10, <2>3
  <2>5. j - 1 \in DOMAIN toPanel' /\ toPanel'[j - 1] = toPanel[j] BY <1>0, <1>1, <2>4
  <2> QED BY <2>1, <2>5 DEF Has
<1>11. CASE e.epoch # ep
  <2>1. after = s BY <1>0, <1>11 DEF ReduceSessionStream, Outcome, Fresh
  <2>2. \A k \in Nat : s.seq < k /\ k <= port.seen[ep] => Has(sent, toPanel', ep, k) BY <1>10, <1>11
  <2>3. Fresh' BY <1>3, <2>1 DEF Fresh
  <2> QED BY <1>1, <1>3, <1>7, <2>1, <2>2, <2>3 DEF Follows, FollowsIn
<1>12. CASE e.epoch = ep
  <2>1. e.seq \in Nat /\ e.rev \in Nat /\ e.seq \in 1..Len(sent[ep]) /\ e.rev = sent[ep][e.seq].rev
    <3> HIDE DEF e, s, ep, after
    <3>1. e.seq \in 1..Len(sent[ep]) /\ e = Env(sent, ep, e.seq) BY <1>6, <1>12
    <3>2. sent[ep][e.seq] \in EntryType BY <1>0, <3>1
    <3>3. e.rev = sent[ep][e.seq].rev
      <4> DEFINE n == e.seq
      <4>1. e = Env(sent, ep, n) BY <3>1
      <4> HIDE DEF n
      <4>2. Env(sent, ep, n).rev = sent[ep][n].rev BY DEF Env, AsEnvelope, Stream
      <4>3. e.rev = sent[ep][n].rev BY <4>1, <4>2
      <4> QED BY <4>3 DEF n
    <3>4. sent[ep][e.seq].rev \in Nat BY <3>2 DEF EntryType
    <3>5. e.seq \in Nat BY <1>9, <3>1
    <3> QED BY <3>1, <3>3, <3>4, <3>5
  <2>2. e.seq <= s.seq + 1
    <3> SUFFICES ASSUME s.seq + 1 < e.seq PROVE FALSE BY <1>0, <2>1
    <3> DEFINE next == s.seq + 1
    <3>1. next \in Nat /\ s.seq < next /\ next <= port.seen[ep] /\ next \in 1..Len(sent[ep]) /\ next < e.seq
      <4> HIDE DEF e, s, ep, after
      <4>1. s.seq \in Nat /\ e.seq \in Nat /\ e.seq <= Len(sent[ep]) BY <1>0, <1>9, <2>1
      <4>2. e.seq <= port.seen[ep] BY <1>8, <1>12
      <4> QED BY <1>9, <4>1, <4>2
    <3> HIDE DEF next
    <3>2. PICK j \in DOMAIN toPanel : toPanel[j] = Env(sent, ep, next) BY <1>7, <3>1 DEF Has
    <3>3. toPanel[j].seq = next /\ toPanel[j].epoch = ep /\ IsStream(toPanel[j]) BY <1>0, <3>1, <3>2, EnvIs
    <3>4. j # 1 BY <1>4, <2>1, <3>1, <3>3
    <3>5. 1 < j BY <1>4, <3>4
    <3>6. e.seq < next BY <1>1, <1>4, <1>8, <1>12, <3>3, <3>5 DEF InOrder
    <3> QED BY <2>1, <3>1, <3>6
  <2>3. CASE e.seq <= s.seq
    <3>1. after = s
      <4>1. CASE e.seq < s.seq BY <1>0, <1>12, <2>1, <4>1, FreshReduces
      <4>2. CASE e.seq = s.seq
        <5>1. s.print = Fingerprint(e) BY <1>6, <1>12, <4>2 DEF PrintFits
        <5> QED BY <1>0, <1>12, <2>1, <4>2, <5>1, FreshReduces
      <4> QED BY <1>0, <2>1, <2>3, <4>1, <4>2
    <3>2. \A k \in Nat : s.seq < k /\ k <= port.seen[ep] => Has(sent, toPanel', ep, k)
      <4> SUFFICES ASSUME NEW k \in Nat, s.seq < k, k <= port.seen[ep] PROVE Has(sent, toPanel', ep, k) OBVIOUS
      <4>1. e.seq # k BY <1>0, <2>1, <2>3
      <4> QED BY <1>10, <4>1
    <3>3. Fresh' BY <1>3, <3>1 DEF Fresh
    <3> QED BY <1>1, <1>3, <1>7, <3>1, <3>2, <3>3 DEF Follows, FollowsIn
  <2>4. CASE e.seq = s.seq + 1
    <3>1. s.rev <= e.rev
      <4>1. s.seq <= e.seq BY <1>0, <2>1, <2>4
      <4> QED BY <1>0, <2>1, <4>1 DEF RevsRise
    <3>2. after.known /\ ~after.stale /\ after.seq = e.seq BY <1>0, <1>12, <2>1, <2>4, <3>1, FreshReduces
    <3>3. \A k \in Nat : e.seq < k /\ k <= port.seen[ep] => Has(sent, toPanel', ep, k)
      <4> SUFFICES ASSUME NEW k \in Nat, e.seq < k, k <= port.seen[ep] PROVE Has(sent, toPanel', ep, k) OBVIOUS
      <4>1. e.seq # k /\ s.seq < k BY <1>0, <2>1, <2>4
      <4> QED BY <1>10, <4>1
    <3>4. Fresh' BY <1>0, <1>3, <3>2 DEF Fresh
    <3> QED BY <1>1, <1>3, <1>7, <3>2, <3>3, <3>4 DEF Follows, FollowsIn
  <2> QED BY <1>0, <2>1, <2>2, <2>3, <2>4
<1> QED BY <1>3, <1>11, <1>12

\* All that follows an applied snapshot is behind it on the port, and no hello of its epoch.
LEMMA SnapshotFollows ==
  ASSUME RouteInv, PortFits, PanelReceivesEnvelope,
         ReduceSessionStream(channel, Head(toPanel)).effect \in {"snapshot-applied", "resynced"}
  PROVE  /\ Head(toPanel).epoch = channel.epoch /\ channel'.epoch = channel.epoch /\ Fresh' /\ Follows' /\ Bound'
         /\ NoHelloOf(toPanel', channel.epoch)
<1> DEFINE e == Head(toPanel)
           ep == channel.epoch
           after == ReduceSessionStream(channel, e).sess
<1>0. /\ StreamInv /\ TypeOK /\ toPanel \in Seq(Sendable) /\ port.seen \in [Epochs -> Nat]
      /\ \A k \in Epochs : sent[k] \in Seq(EntryType)
  BY DEF RouteInv, PortTyped, StreamInv, TypeOK
<1>1. toPanel # <<>> /\ IsStream(e) /\ toPanel' = Tail(toPanel) /\ UNCHANGED <<port, sent>>
  BY DEF PanelReceivesEnvelope, PanelOnly, Receive, IsStream
<1>2. channel' = [channel EXCEPT !.sess = after] BY DEF PanelReceivesEnvelope, Receive
<1>3. channel'.epoch = ep /\ channel'.sess = after
  <2>1. channel \in [epoch : Epochs \cup {NoEpoch}, sess : SessionType] BY <1>0 DEF TypeOK
  <2> HIDE DEF after
  <2> QED BY <1>2, <2>1
<1>4. e.epoch = ep /\ ep # NoEpoch /\ after.known /\ ~after.stale /\ after.seq = e.seq BY <1>0, SnapshotReduces
<1>5. 1 \in DOMAIN toPanel /\ e = toPanel[1] /\ DOMAIN toPanel = 1..Len(toPanel) BY <1>0, <1>1
<1>6. e.epoch \in Epochs /\ e.seq \in 1..Len(sent[e.epoch]) BY <1>0, <1>1, <1>5, Sourced DEF FromStreams
<1>7. ep \in Epochs /\ e.seq \in 1..Len(sent[ep]) /\ port.seen[ep] \in Nat /\ Len(sent[ep]) \in Nat BY <1>0, <1>4, <1>6
<1>8. /\ e.seq <= port.seen[ep] /\ port.seen[ep] <= Len(sent[ep])
      /\ \A k \in Nat : e.seq < k /\ k <= port.seen[ep] => Has(sent, toPanel, ep, k)
  BY <1>1, <1>4, <1>5, <1>7 DEF PortFits, Contiguous, NoGap
<1>9. ASSUME NEW k \in Nat, e.seq < k, k <= port.seen[ep] PROVE Has(sent, toPanel', ep, k)
  <2>1. PICK j \in DOMAIN toPanel : toPanel[j] = Env(sent, ep, k) BY <1>8, <1>9 DEF Has
  <2>2. k \in 1..Len(sent[ep]) BY <1>7, <1>8, <1>9
  <2>3. toPanel[j].seq = k BY <1>0, <1>7, <2>1, <2>2, EnvIs
  <2>4. j # 1 BY <1>5, <1>7, <1>9, <2>3
  <2>5. j - 1 \in DOMAIN toPanel' /\ toPanel'[j - 1] = toPanel[j] BY <1>0, <1>1, <2>4
  <2> QED BY <2>1, <2>5 DEF Has
<1>10. Follows'
  <2>1. port.seen[ep] > 0 BY <1>7, <1>8
  <2> QED BY <1>1, <1>3, <1>4, <1>9, <2>1 DEF Follows, FollowsIn
<1>11. Fresh' BY <1>3, <1>4 DEF Fresh
<1>12. Bound' BY <1>1 DEF PortFits, Bound
<1>13. NoHelloOf(toPanel', ep)
  <2> SUFFICES ASSUME NEW i \in DOMAIN toPanel', IsHello(toPanel'[i]), toPanel'[i].epoch = ep PROVE FALSE
    BY DEF NoHelloOf
  <2>1. i + 1 \in DOMAIN toPanel /\ toPanel'[i] = toPanel[i + 1] BY <1>0, <1>1
  <2>2. i + 1 < 1 BY <1>1, <1>4, <1>5, <2>1 DEF PortFits, HellosFirst
  <2> QED BY <1>5, <2>1, <2>2
<1> QED BY <1>3, <1>4, <1>10, <1>11, <1>12, <1>13

\* A closed port has nothing for the panel, and what is at its head is no hello.
LEMMA PanelHas ==
  ASSUME PortFits, ClientFits, toPanel # <<>>, ~IsHello(Head(toPanel)), attached # NoEpoch
  PROVE  attached = channel.epoch /\ Fresh /\ Follows
BY DEF PortFits, ClientFits, HelloFirst

\* The panel stays fresh by the envelopes it takes, and becomes it by a snapshot.
LEMMA EnvelopeClient ==
  ASSUME RouteInv, RevsRise, PrintFits, PortFits, ClientFits, PanelReceivesEnvelope
  PROVE  ClientFits'
<1> DEFINE e == Head(toPanel)
           applied == ReduceSessionStream(channel, e).effect \in {"snapshot-applied", "resynced"}
<1>0. recovery \in CycleType /\ toPanel \in Seq(Sendable) BY DEF RouteInv, ClientTyped, PortTyped
<1>1. toPanel # <<>> /\ ~IsHello(e) /\ toPanel' = Tail(toPanel) /\ UNCHANGED port
  BY DEF PanelReceivesEnvelope, PanelOnly, IsHello
<1>2. attached' = IF applied /\ recovery.epoch = e.epoch /\ recovery.answered THEN e.epoch ELSE attached
  BY DEF PanelReceivesEnvelope
<1>3. \/ recovery' = recovery
      \/ applied /\ recovery' = SeenBy(recovery, e.epoch)
      \/ ~recovery'.seen
  BY DEF PanelReceivesEnvelope, BeginRecovery, Cycle
<1>4. Bound BY <1>1 DEF PortFits
<1>5. Bound' BY <1>1, <1>4 DEF Bound
<1>6. Fresh /\ Follows => Fresh' /\ Follows' /\ channel'.epoch = channel.epoch BY EnvelopeKeepsFresh
<1>7. applied => /\ e.epoch = channel.epoch /\ channel'.epoch = channel.epoch /\ Fresh' /\ Follows'
                 /\ NoHelloOf(toPanel', channel.epoch)
  BY SnapshotFollows
<1>8. ASSUME attached' # NoEpoch PROVE attached' = channel'.epoch /\ Fresh' /\ Follows'
  <2>1. CASE applied /\ recovery.epoch = e.epoch /\ recovery.answered BY <1>2, <1>7, <2>1
  <2>2. CASE ~(applied /\ recovery.epoch = e.epoch /\ recovery.answered)
    <3>1. attached' = attached /\ attached # NoEpoch BY <1>2, <1>8, <2>2
    <3>2. attached = channel.epoch /\ Fresh /\ Follows BY <1>1, <3>1, PanelHas
    <3> QED BY <1>6, <3>1, <3>2
  <2> QED BY <2>1, <2>2
<1>9. ASSUME recovery'.seen
      PROVE  /\ ~recovery'.answered /\ recovery'.epoch = channel'.epoch /\ Fresh' /\ Follows'
             /\ NoHelloOf(toPanel', channel'.epoch)
  <2>1. CASE recovery' = recovery
    <3>1. recovery.seen BY <1>9, <2>1
    <3>2. ~recovery.answered /\ recovery.epoch = channel.epoch /\ Fresh /\ Follows /\ NoHelloOf(toPanel, channel.epoch)
      BY <3>1 DEF ClientFits
    <3>3. \A i \in DOMAIN toPanel' : i + 1 \in DOMAIN toPanel /\ toPanel'[i] = toPanel[i + 1] BY <1>0, <1>1
    <3>4. NoHelloOf(toPanel', channel.epoch) BY <3>2, <3>3 DEF NoHelloOf
    <3> QED BY <1>6, <2>1, <3>2, <3>4
  <2>2. CASE applied /\ recovery' = SeenBy(recovery, e.epoch) /\ recovery' # recovery
    <3>1. recovery.epoch = e.epoch /\ ~recovery.answered /\ recovery' = [recovery EXCEPT !.seen = TRUE]
      <4>1. NoCycle.seen = FALSE BY DEF NoCycle
      <4>2. SeenBy(recovery, e.epoch).seen BY <1>9, <2>2
      <4> HIDE DEF e
      <4> QED BY <2>2, <4>1, <4>2 DEF SeenBy
    <3>2. recovery'.epoch = recovery.epoch /\ recovery'.answered = recovery.answered BY <1>0, <3>1 DEF CycleType
    <3> QED BY <1>7, <2>2, <3>1, <3>2
  <2> QED BY <1>3, <1>9, <2>1, <2>2
<1> QED BY <1>5, <1>8, <1>9 DEF ClientFits

\* A hello takes the attachment back and begins a recovery of its epoch.
LEMMA HelloClient ==
  ASSUME RouteInv, ClientFits, PanelReceivesHello
  PROVE  ClientFits'
<1> DEFINE h == Head(toPanel)
<1>1. attached' = NoEpoch BY DEF PanelReceivesHello
<1>2. toPanel # <<>> /\ IsHello(h) BY DEF PanelReceivesHello, IsHello, IsAnswer
<1>3. 1 \in DOMAIN toPanel /\ h = toPanel[1]
  <2>1. toPanel \in Seq(Sendable) BY DEF RouteInv, PortTyped
  <2> QED BY <1>2, <2>1
<1>4. ~recovery'.seen
  <2>1. CASE recovery.epoch = h.epoch
    <3>1. recovery' = recovery BY <2>1 DEF PanelReceivesHello
    <3>2. ~recovery.seen BY <1>2, <1>3, <2>1 DEF ClientFits, NoHelloOf
    <3> QED BY <3>1, <3>2
  <2>2. CASE recovery.epoch # h.epoch
    BY <2>2 DEF PanelReceivesHello, BeginRecovery, Cycle
  <2> QED BY <2>1, <2>2
<1> QED BY <1>1, <1>4 DEF ClientFits

\* An answer attaches the client only when its snapshot was applied.
LEMMA AnswerClient ==
  ASSUME RouteInv, PortFits, ClientFits, PanelReceivesAnswer
  PROVE  ClientFits'
<1> DEFINE a == Head(toPanel)
<1>0. /\ StreamInv /\ toPanel \in Seq(Sendable) /\ recovery \in CycleType /\ port.seen \in [Epochs -> Nat]
      /\ \A ep \in Epochs : sent[ep] \in Seq(EntryType)
      /\ \A ep \in Epochs : port.seen[ep] <= Len(sent[ep])
  BY DEF RouteInv, PortTyped, ClientTyped, StreamInv, TypeOK, PortFits
<1>1. toPanel # <<>> /\ IsAnswer(a) /\ toPanel' = Tail(toPanel) /\ UNCHANGED <<port, channel, sent>>
  BY DEF PanelReceivesAnswer, PanelOnly, vars
<1>2. ~IsHello(a) /\ ~IsStream(a) BY <1>1 DEF IsHello, IsStream
<1>3. 1 \in DOMAIN toPanel /\ a = toPanel[1] BY <1>0, <1>1
<1>4. \A i \in DOMAIN toPanel : i # 1 => i - 1 \in DOMAIN toPanel' /\ toPanel'[i - 1] = toPanel[i] BY <1>0, <1>1
<1>5. \A i \in DOMAIN toPanel' : i + 1 \in DOMAIN toPanel /\ toPanel'[i] = toPanel[i + 1] BY <1>0, <1>1
<1>6. Extends(sent, sent) BY <1>0 DEF Extends
<1>7. ASSUME Fresh, Follows PROVE Fresh' /\ Follows'
  <2>1. channel.epoch \in Epochs /\ channel.sess.seq \in Nat BY <1>7, FreshTyped
  <2>2. \A i \in DOMAIN toPanel : IsStream(toPanel[i]) => \E j \in DOMAIN toPanel' : toPanel'[j] = toPanel[i]
    BY <1>2, <1>3, <1>4
  <2>3. FollowsIn(sent, toPanel', port.seen, channel.epoch, channel.sess.seq)
    BY <1>0, <1>6, <1>7, <2>1, <2>2, FollowsMore DEF Follows
  <2>4. Fresh' BY <1>1, <1>7 DEF Fresh
  <2> QED BY <1>1, <2>3, <2>4 DEF Follows
<1>8. attached' = IF recovery.id = a.call /\ a.ok /\ recovery.seen THEN recovery.epoch ELSE attached
  BY DEF PanelReceivesAnswer
<1>9. recovery' = recovery \/ ~recovery'.seen
  <2>1. recovery' = AnsweredBy(recovery, a) BY DEF PanelReceivesAnswer
  <2>2. NoCycle.seen = FALSE BY DEF NoCycle
  <2>3. ~recovery.seen => ~[recovery EXCEPT !.answered = TRUE].seen BY <1>0 DEF CycleType
  <2> HIDE DEF a
  <2> QED BY <2>1, <2>2, <2>3 DEF AnsweredBy
<1>10. ASSUME attached' # NoEpoch PROVE attached' = channel'.epoch /\ Fresh' /\ Follows'
  <2>1. CASE recovery.id = a.call /\ a.ok /\ recovery.seen
    BY <1>1, <1>7, <1>8, <2>1 DEF ClientFits
  <2>2. CASE ~(recovery.id = a.call /\ a.ok /\ recovery.seen)
    <3>1. attached' = attached BY <1>8, <2>2
    <3> QED BY <1>1, <1>2, <1>7, <1>10, <3>1, PanelHas
  <2> QED BY <2>1, <2>2
<1>11. ASSUME recovery'.seen
       PROVE  /\ ~recovery'.answered /\ recovery'.epoch = channel'.epoch /\ Fresh' /\ Bound' /\ Follows'
              /\ NoHelloOf(toPanel', channel'.epoch)
  <2>1. recovery' = recovery /\ recovery.seen BY <1>9, <1>11
  <2>2. /\ ~recovery.answered /\ recovery.epoch = channel.epoch /\ Fresh /\ Bound /\ Follows
        /\ NoHelloOf(toPanel, channel.epoch)
    BY <2>1 DEF ClientFits
  <2>3. NoHelloOf(toPanel', channel.epoch) BY <1>5, <2>2 DEF NoHelloOf
  <2>4. Bound' BY <1>1, <2>2 DEF Bound
  <2> QED BY <1>1, <1>7, <2>1, <2>2, <2>3, <2>4
<1> QED BY <1>10, <1>11 DEF ClientFits

\* The invariant behind AttachedIsFresh.
AttachInv ==
  /\ RevsRise /\ PrintFits /\ WireFits /\ PortFits /\ ConnectsFit /\ WorkerKnows /\ NothingBeforeAccepted
  /\ ClientFits

\* A cycle that is rejected has no snapshot any longer.
LEMMA RejectedUnseen ==
  ASSUME ClientFits, RejectPending
  PROVE  ~recovery'.seen
<1>1. recovery' = Unanswered(recovery) BY DEF RejectPending
<1>2. CASE recovery.answered
  <2>1. recovery' = recovery BY <1>1, <1>2 DEF Unanswered
  <2> QED BY <1>2, <2>1 DEF ClientFits
<1>3. CASE ~recovery.answered
  <2>1. recovery' = NoCycle BY <1>1, <1>3 DEF Unanswered
  <2> QED BY <2>1 DEF NoCycle
<1> QED BY <1>2, <1>3

\* Every step keeps the client fresh or takes its attachment back.
LEMMA ClientFitsKept ==
  ASSUME RouteInv, AttachInv, [RouteNext]_routeVars
  PROVE  ClientFits'
<1>0. /\ port \in [state : {"closed", "opened", "binding", "bound"}, busy : CallIds,
                   greeted : SUBSET Epochs, seen : [Epochs -> Nat]]
      /\ toPanel \in Seq(Sendable) /\ wire \in Seq(Sendable) /\ toWorker \in Seq(CallType)
      /\ replies \in SUBSET AnswerType /\ AnswerType \subseteq Sendable
      /\ ClientFits /\ PortFits /\ WorkerKnows /\ NothingBeforeAccepted /\ WireFits /\ WorkerKnows'
  BY WorkerKnowsKept DEF RouteInv, OffscreenTyped, WorkerTyped, PortTyped, Sendable, AttachInv
<1> DEFINE still == channel' = channel /\ attached' = attached /\ (recovery' = recovery \/ ~recovery'.seen)
           same == port'.seen = port.seen /\ Bound' = Bound
           more == \/ toPanel' = toPanel
                   \/ \E m \in Sendable : toPanel' = Append(toPanel, m) /\ (IsAnswer(m) \/ m.epoch \notin port.greeted)
<1>1. ASSUME still, same, more PROVE ClientFits'
  <2>1. \/ toPanel' = toPanel
        \/ \E ms \in Seq(Sendable) :
             toPanel' = toPanel \o ms /\ \A k \in DOMAIN ms : IsAnswer(ms[k]) \/ ms[k].epoch \notin port.greeted
    <3>1. CASE toPanel' = toPanel BY <3>1
    <3>2. CASE toPanel' # toPanel
      <4>1. PICK m \in Sendable : toPanel' = Append(toPanel, m) /\ (IsAnswer(m) \/ m.epoch \notin port.greeted)
        BY <1>1, <3>2
      <4>2. /\ <<m>> \in Seq(Sendable) /\ toPanel' = toPanel \o <<m>>
            /\ \A k \in DOMAIN <<m>> : IsAnswer(<<m>>[k]) \/ <<m>>[k].epoch \notin port.greeted
        BY <1>0, <4>1
      <4> QED BY <4>2
    <3> QED BY <3>1, <3>2
  <2> QED BY <1>0, <1>1, <2>1, ClientFrame
<1>2. CASE RouteStream
  <2> DEFINE e == Head(wire)
  <2>1. still BY <1>2 DEF RouteStream, vars, clientVars
  <2>2. wire # <<>> BY <1>2 DEF RouteStream
  <2>3. CASE IsAnswer(e)
    <3>1. UNCHANGED <<port, toPanel>> BY <1>2, <2>3 DEF RouteStream
    <3>2. same BY <3>1 DEF Bound
    <3> QED BY <1>1, <2>1, <3>1, <3>2
  <2>4. CASE ~IsAnswer(e) /\ e.type = "hello"
    <3>1. RouteHello(e) BY <1>2, <2>4 DEF RouteStream
    <3>2. CASE Bound /\ e.epoch \notin port.greeted
      <4>1. port' = [port EXCEPT !.greeted = port.greeted \cup {e.epoch}] /\ toPanel' = Append(toPanel, e)
        BY <3>1, <3>2 DEF RouteHello
      <4>2. port'.seen = port.seen /\ port'.state = port.state BY <1>0, <4>1
      <4>3. same BY <4>2 DEF Bound
      <4>4. e \in Sendable BY <1>0, <2>2
      <4> HIDE DEF e
      <4>5. more BY <3>2, <4>1, <4>4
      <4> QED BY <1>1, <2>1, <4>3, <4>5
    <3>3. CASE ~(Bound /\ e.epoch \notin port.greeted)
      <4>1. UNCHANGED <<port, toPanel>> BY <3>1, <3>3 DEF RouteHello
      <4>2. same BY <4>1 DEF Bound
      <4> QED BY <1>1, <2>1, <4>1, <4>2
    <3> QED BY <3>2, <3>3
  <2>5. CASE ~IsAnswer(e) /\ e.type # "hello"
    <3>1. RouteEnvelope(e) BY <1>2, <2>5 DEF RouteStream
    <3>2. CASE Bound /\ e.epoch = worker.hello.epoch /\ e.seq > port.seen[e.epoch]
      BY <1>0, <1>2, <2>5, <3>2, RoutedClient
    <3>3. CASE ~(Bound /\ e.epoch = worker.hello.epoch /\ e.seq > port.seen[e.epoch])
      <4>1. UNCHANGED <<port, toPanel>> BY <3>1, <3>3 DEF RouteEnvelope
      <4>2. same BY <4>1 DEF Bound
      <4> QED BY <1>1, <2>1, <4>1, <4>2
    <3> QED BY <3>2, <3>3
  <2> QED BY <2>3, <2>4, <2>5
<1>3. CASE PortDrops \/ WorkerDies
  <2>1. port'.state = "closed" /\ RejectPending /\ UNCHANGED <<channel, attached>>
    BY <1>3 DEF PortDrops, WorkerDies, ClosePort, ClosedPort, vars
  <2>2. ~recovery'.seen BY <1>0, <2>1, RejectedUnseen
  <2> QED BY <1>0, <2>1, <2>2, ClosedClient
<1>4. CASE ReopenPanel
  <2>1. port'.state = "closed" /\ attached' = NoEpoch /\ ~recovery'.seen
    BY <1>4 DEF ReopenPanel, ClosePort, ClosedPort, NoCycle
  <2> QED BY <1>0, <2>1, ClosedClient
<1>5. CASE Reconnect
  <2>1. port.state = "closed" /\ port' = [port EXCEPT !.state = "opened"] /\ UNCHANGED <<channel, attached, recovery>>
    BY <1>5 DEF Reconnect, vars, clientVars
  <2>2. port'.state = "opened" BY <1>0, <2>1
  <2>3. ~recovery.seen BY <1>0, <2>1 DEF ClientFits, Bound
  <2> QED BY <1>0, <2>1, <2>2, <2>3, ClosedClient
<1>6. CASE BindRoute
  <2>1. accepted' = accepted BY <1>6 DEF BindRoute, workerVars
  <2> QED BY <1>0, <1>6, <2>1, BoundClient
<1>7. CASE FinishBind
  <2>0. UNCHANGED <<channel, attached>> BY <1>7 DEF FinishBind, vars
  <2>1. CASE ClosePort /\ RejectPending
    <3>1. port'.state = "closed" BY <2>1 DEF ClosePort, ClosedPort
    <3>2. ~recovery'.seen BY <1>0, <2>1, RejectedUnseen
    <3> QED BY <1>0, <2>0, <3>1, <3>2, ClosedClient
  <2>2. CASE ~(ClosePort /\ RejectPending) /\ port.state = "binding"
    <3>1. ~accepted BY <1>0, <2>2 DEF WorkerKnows
    <3>2. recovery' = recovery BY <1>7, <2>2 DEF FinishBind
    <3>3. ~Fresh BY <1>0, <3>1, NotYetFresh
    <3>4. attached = NoEpoch /\ ~recovery.seen BY <1>0, <3>3 DEF ClientFits
    <3> QED BY <2>0, <3>2, <3>4 DEF ClientFits
  <2>3. CASE ~(ClosePort /\ RejectPending) /\ port.state # "binding"
    <3>1. UNCHANGED <<port, toPanel, recovery>> BY <1>7, <2>3 DEF FinishBind
    <3>2. same BY <3>1 DEF Bound
    <3> QED BY <1>1, <2>0, <3>1, <3>2
  <2> QED BY <2>1, <2>2, <2>3
<1>8. CASE ForwardRequest
  <2>1. still /\ port.state = "bound" /\ toWorker # <<>> BY <1>8 DEF ForwardRequest, vars, clientVars
  <2>2. port' = port \/ port' = [port EXCEPT !.busy = Head(toWorker).id] BY <1>8 DEF ForwardRequest
  <2>3. port'.seen = port.seen /\ port'.state = port.state BY <1>0, <2>2
  <2>4. same BY <2>3 DEF Bound
  <2>5. more
    <3> DEFINE a == Answer(Head(toWorker).id, FALSE)
    <3>1. toPanel' = toPanel \/ toPanel' = Append(toPanel, a) BY <1>8 DEF ForwardRequest
    <3>2. Head(toWorker) \in CallType BY <1>0, <2>1
    <3>3. Head(toWorker).id \in CallIds BY <3>2 DEF CallType
    <3>4. a \in AnswerType BY <3>3, AnswersTyped
    <3>5. IsAnswer(a) BY DEF Answer, IsAnswer
    <3> HIDE DEF a
    <3> QED BY <1>0, <3>1, <3>4, <3>5
  <2> QED BY <1>1, <2>1, <2>4, <2>5
<1>9. CASE Respond
  <2>1. still BY <1>9 DEF Respond, vars, clientVars
  <2>2. port' = [port EXCEPT !.busy = NoCall] BY <1>9 DEF Respond
  <2>3. port'.seen = port.seen /\ port'.state = port.state BY <1>0, <2>2
  <2>4. same BY <2>3 DEF Bound
  <2>5. more
    <3>1. PICK r \in replies : toPanel' = Append(toPanel, r) BY <1>9 DEF Respond
    <3>2. r \in Sendable /\ IsAnswer(r) BY <1>0 DEF AnswerType, IsAnswer
    <3> QED BY <3>1, <3>2
  <2> QED BY <1>1, <2>1, <2>4, <2>5
<1>10. CASE PanelReceives
  BY <1>0, <1>10, EnvelopeClient, HelloClient, AnswerClient DEF PanelReceives, AttachInv
<1> DEFINE away == still /\ UNCHANGED <<port, toPanel>>
<1>11. ASSUME away PROVE ClientFits'
  <2>1. same BY <1>11 DEF Bound
  <2> QED BY <1>1, <1>11, <2>1
<1>12. CASE AgentAnnounces \/ PromptSucceeds \/ PromptStops
  <2>1. channel' = channel
    BY <1>12 DEF AgentAnnounces, Announce, PromptSucceeds, PromptStops, FinishPrompt, EndExecution, panelVars
  <2>2. UNCHANGED <<port, toPanel, attached, recovery>>
    BY <1>12 DEF AgentAnnounces, PromptSucceeds, PromptStops, FinishPrompt, HostOnly, portVars, clientVars
  <2> QED BY <1>11, <2>1, <2>2
<1>13. CASE HandleCall
  <2>1. channel' = channel
    <3>1. PICK c \in calls :
            HandleConnect(c) \/ HandleRead(c) \/ HandleCreate(c) \/ HandlePrompt(c) \/ HandleAbort(c) \/ Refuse(c)
      BY <1>13 DEF HandleCall
    <3> QED BY <3>1 DEF HandleConnect, HandleRead, HandleCreate, HandlePrompt, HandleAbort, Refuse, EmitHello,
               SendSnapshot, Open, AnnounceExecution, vars, panelVars
  <2>2. UNCHANGED <<port, toPanel, attached, recovery>> BY <1>13 DEF HandleCall, HostOnly, portVars, clientVars
  <2> QED BY <1>11, <2>1, <2>2
<1>14. CASE SaveCheckpoint \/ OffscreenDies \/ Initialize \/ RecoverAccepted \/ FinishRecovery \/ UNCHANGED routeVars
  <2>1. channel' = channel
    BY <1>14 DEF SaveCheckpoint, Checkpoint, OffscreenDies, Initialize, Restart, RecoverAccepted, FinishRecovery,
       routeVars, vars, panelVars
  <2>2. UNCHANGED <<port, toPanel, attached, recovery>>
    BY <1>14 DEF SaveCheckpoint, OffscreenDies, Initialize, RecoverAccepted, FinishRecovery, routeVars, portVars, clientVars
  <2> QED BY <1>11, <2>1, <2>2
<1>15. CASE RecoveryTimeout \/ ResyncTimeout \/ EnsureConnected \/ SendPrompt \/ AbortActive
  <2>1. UNCHANGED <<channel, attached, port, toPanel>>
    BY <1>15 DEF RecoveryTimeout, ResyncTimeout, EnsureConnected, SendPrompt, AbortActive, PanelOnly, vars, portVars
  <2>2. recovery' = recovery \/ ~recovery'.seen
    BY <1>15 DEF RecoveryTimeout, ResyncTimeout, EnsureConnected, BeginRecovery, Cycle, NoCycle, SendPrompt, AbortActive
  <2> QED BY <1>11, <2>1, <2>2
<1> HIDE DEF away, still, same, more
<1> QED
  BY <1>2, <1>3, <1>4, <1>5, <1>6, <1>7, <1>8, <1>9, <1>10, <1>12, <1>13, <1>14, <1>15
     DEF RouteNext, WorkerStarts, WorkerServes

\* The invariant holds at the start.
LEMMA AttachInvInit == RouteInit => AttachInv
<1> SUFFICES ASSUME RouteInit PROVE AttachInv OBVIOUS
<1>1. /\ wire = <<>> /\ toPanel = <<>> /\ toWorker = <<>> /\ calls = {} /\ replies = {} /\ run = NoRun
      /\ port = ClosedPort /\ worker = ColdWorker /\ accepted = FALSE /\ up = TRUE
      /\ attached = NoEpoch /\ recovery = NoCycle /\ epoch = 1 /\ sent = [ep \in Epochs |-> <<>>]
      /\ channel = NewChannel
  BY DEF RouteInit, Init
<1>2. epoch \in Epochs BY <1>1, EpochAssumption DEF Epochs
<1>3. \A ep \in Epochs : sent[ep] = <<>> /\ Len(sent[ep]) = 0 BY <1>1
<1>4. RevsRise BY <1>2, <1>3 DEF RevsRise
<1>5. ~Fresh BY <1>1 DEF Fresh, NewChannel
<1>6. WireFits BY <1>1 DEF WireFits, Contiguous, InOrder, NoGap
<1>7. PortFits
  <2>1. ~Bound /\ port.greeted = {} /\ \A ep \in Epochs : port.seen[ep] = 0 BY <1>1 DEF Bound, ClosedPort
  <2>2. \A ep \in Epochs : port.seen[ep] <= Len(sent[ep]) /\ ~(port.seen[ep] > 0) BY <1>3, <2>1
  <2> QED BY <1>1, <1>2, <2>1, <2>2 DEF PortFits, Contiguous, InOrder, NoGap, HellosFirst
<1>8. ConnectsFit BY <1>1 DEF ConnectsFit, NoRun, NoCall, ConnectCall
<1>9. WorkerKnows BY <1>1 DEF WorkerKnows, ColdWorker, ClosedPort
<1>10. NothingBeforeAccepted BY <1>1, <1>3 DEF NothingBeforeAccepted, NoRun
<1>11. ClientFits BY <1>1 DEF ClientFits, NoCycle
<1> QED BY <1>4, <1>5, <1>6, <1>7, <1>8, <1>9, <1>10, <1>11 DEF AttachInv, PrintFits

\* Every step keeps it.
LEMMA AttachInvKept ==
  ASSUME RouteInv, AttachInv, [RouteNext]_routeVars
  PROVE  AttachInv'
<1>1. StreamInv /\ [Next]_vars BY StreamPart
<1>2. RevsRise' BY <1>1, RevsRiseKept DEF AttachInv
<1>3. PrintFits' BY <1>1, PrintKept DEF AttachInv
<1>4. WireFits' BY WireKept DEF AttachInv
<1>5. PortFits' BY PortFitsKept DEF AttachInv
<1>6. ConnectsFit' BY ConnectsKept DEF AttachInv
<1>7. WorkerKnows' BY WorkerKnowsKept DEF AttachInv
<1>8. NothingBeforeAccepted' BY NothingKept DEF AttachInv
<1>9. ClientFits' BY ClientFitsKept
<1> QED BY <1>2, <1>3, <1>4, <1>5, <1>6, <1>7, <1>8, <1>9 DEF AttachInv

\* A client that considers itself attached has the session of the very epoch it knows, from a
\* snapshot, and nothing has made it stale since: whatever ports drop, workers and documents die
\* (completeRecoveryIfReady, receive).
THEOREM AttachedClientIsFresh == RouteSpec => []AttachedIsFresh
<1>1. RouteInv /\ AttachInv => AttachedIsFresh BY DEF AttachInv, ClientFits, Fresh, AttachedIsFresh
<1>2. RouteInv /\ AttachInv /\ [RouteNext]_routeVars => AttachInv' BY AttachInvKept
<1> QED BY <1>1, <1>2, AttachInvInit, RouteInvHolds, PTL DEF RouteSpec

-----------------------------------------------------------------------------
(* What the panel awaits is under way *)

\* A request of the panel has an id of the panel's; its abort is not its prompt.
IdsFit ==
  /\ \A i \in DOMAIN toWorker : toWorker[i].id \in PanelCalls
  /\ port.busy \in PanelCalls \cup {NoCall}
  /\ prompt.id # NoCall => prompt.id # prompt.abort

\* A document that died left nothing behind, and what a port has forwarded is at work or answered.
DownFits == ~up => calls = {} /\ wire = <<>> /\ ~run.active
BusyFits == port.busy # NoCall => Forwarded(port.busy)

\* The invariant behind AwaitedIsUnderWay.
ServedInv == IdsFit /\ DownFits /\ BusyFits /\ AwaitedIsUnderWay

\* A queue that grows keeps its answers.
LEMMA AnswersStay ==
  ASSUME NEW S, NEW queue \in Seq(S), NEW more \in Seq(S), NEW id
  PROVE  AnswerIn(queue \o more, id) <=> AnswerIn(queue, id) \/ AnswerIn(more, id)
<1> DEFINE all == queue \o more
<1>1. Len(all) = Len(queue) + Len(more) OBVIOUS
<1>2. \A i \in DOMAIN queue : i \in DOMAIN all /\ all[i] = queue[i] OBVIOUS
<1>3. \A i \in DOMAIN more : Len(queue) + i \in DOMAIN all /\ all[Len(queue) + i] = more[i] OBVIOUS
<1>4. \A i \in DOMAIN all : i \in DOMAIN queue \/ (i - Len(queue) \in DOMAIN more /\ all[i] = more[i - Len(queue)])
  OBVIOUS
<1> HIDE DEF all
<1>5. AnswerIn(all, id) => AnswerIn(queue, id) \/ AnswerIn(more, id) BY <1>2, <1>4 DEF AnswerIn
<1>6. AnswerIn(queue, id) => AnswerIn(all, id) BY <1>2 DEF AnswerIn
<1>7. AnswerIn(more, id) => AnswerIn(all, id)
  <2> SUFFICES ASSUME NEW i \in DOMAIN more, IsAnswer(more[i]) /\ more[i].call = id PROVE AnswerIn(all, id)
    BY DEF AnswerIn
  <2>1. Len(queue) + i \in DOMAIN all /\ all[Len(queue) + i] = more[i] BY <1>3
  <2> QED BY <2>1 DEF AnswerIn
<1> QED BY <1>5, <1>6, <1>7 DEF all

\* The one answer of a queue of one.
LEMMA AnswerAlone ==
  ASSUME NEW m, NEW id
  PROVE  AnswerIn(<<m>>, id) <=> IsAnswer(m) /\ m.call = id
<1>1. DOMAIN <<m>> = {1} /\ <<m>>[1] = m OBVIOUS
<1> QED BY <1>1 DEF AnswerIn

\* A queue that a message is appended to has the answers it had, and that message.
LEMMA AnswersJoined ==
  ASSUME NEW S, NEW queue \in Seq(S), NEW m, NEW id
  PROVE  AnswerIn(Append(queue, m), id) <=> AnswerIn(queue, id) \/ (IsAnswer(m) /\ m.call = id)
<1> DEFINE T == S \cup {m}
<1>1. queue \in Seq(T) BY QueueKept
<1>2. m \in T OBVIOUS
<1> HIDE DEF T
<1>3. <<m>> \in Seq(T) /\ Append(queue, m) = queue \o <<m>> BY <1>1, <1>2
<1>4. AnswerIn(queue \o <<m>>, id) <=> AnswerIn(queue, id) \/ AnswerIn(<<m>>, id) BY <1>1, <1>3, AnswersStay
<1> QED BY <1>3, <1>4, AnswerAlone

\* A queue that is read loses no answer but the one it began with.
LEMMA AnswersRemain ==
  ASSUME NEW S, NEW queue \in Seq(S), queue # <<>>, NEW id, AnswerIn(queue, id)
  PROVE  AnswerIn(Tail(queue), id) \/ (IsAnswer(Head(queue)) /\ Head(queue).call = id)
<1>1. PICK i \in DOMAIN queue : IsAnswer(queue[i]) /\ queue[i].call = id BY DEF AnswerIn
<1>2. CASE i = 1 BY <1>1, <1>2
<1>3. CASE i # 1
  <2>1. i - 1 \in DOMAIN Tail(queue) /\ Tail(queue)[i - 1] = queue[i] BY <1>3
  <2> QED BY <1>1, <2>1 DEF AnswerIn
<1> QED BY <1>2, <1>3

\* What the document publishes adds to the answers under way.
LEMMA PublishedAnswers ==
  ASSUME RouteInv, [RouteNext]_routeVars, NEW answer \in Seq(AnswerType), Publishes(answer), NEW id
  PROVE  /\ AnswerIn(wire, id) => AnswerIn(wire', id)
         /\ AnswerIn(answer, id) => AnswerIn(wire', id)
<1>1. wire \in Seq(Sendable') /\ NewEnvelopes \in Seq(Sendable') BY StreamPart, NewEnvelopesTyped
<1>2. answer \in Seq(Sendable') BY QueueKept DEF Sendable
<1>3. wire \o NewEnvelopes \in Seq(Sendable') BY <1>1
<1>4. AnswerIn(wire, id) => AnswerIn(wire \o NewEnvelopes, id) BY <1>1, AnswersStay
<1>5. wire' = (wire \o NewEnvelopes) \o answer BY DEF Publishes
<1>6. AnswerIn(wire', id) <=> AnswerIn(wire \o NewEnvelopes, id) \/ AnswerIn(answer, id)
  BY <1>2, <1>3, <1>5, AnswersStay
<1> QED BY <1>4, <1>6

\* The answer to a request that somebody waits for names it.
LEMMA AnswersName ==
  ASSUME NEW id, id # NoCall, NEW ok
  PROVE  AnswerIn(AnswerTo(id, ok), id)
<1>1. AnswerTo(id, ok) = <<Answer(id, ok)>> BY DEF AnswerTo
<1>2. IsAnswer(Answer(id, ok)) /\ Answer(id, ok).call = id BY DEF IsAnswer, Answer
<1> QED BY <1>1, <1>2, AnswerAlone

\* Whatever it handles, the document answers the request or begins the prompt, and drops no other.
LEMMA HandledAtDocument ==
  ASSUME RouteInv, [RouteNext]_routeVars, HandleCall, NEW id, id # NoCall, AtDocument(id)
  PROVE  AtDocument(id)'
<1>0. run \in [active : BOOLEAN, call : CallIds, stopping : BOOLEAN] /\ calls \in SUBSET CallType
  BY DEF RouteInv, OffscreenTyped
<1>1. PICK c \in calls :
        /\ up /\ calls' = calls \ {c}
        /\ \/ HandleConnect(c) \/ HandleRead(c) \/ HandleCreate(c)
           \/ HandlePrompt(c) \/ HandleAbort(c) \/ Refuse(c)
        /\ HostOnly
  BY DEF HandleCall
<1>2. up /\ up' BY <1>1 DEF HostOnly
<1>3. c.id \in CallIds BY <1>0 DEF CallType
<1>4. \A ok \in BOOLEAN : AnswerTo(c.id, ok) \in Seq(AnswerType) BY <1>3, AnswersTyped
<1>5. c.id = id => \A ok \in BOOLEAN : AnswerIn(AnswerTo(c.id, ok), id) BY AnswersName
<1>6. wire \in Seq(Sendable') /\ AnswerType \subseteq Sendable' BY StreamPart DEF Sendable
<1>7. \/ AnswerIn(wire', id) \/ (run'.active /\ run'.call = id)
      \/ (~AnswerIn(wire, id) /\ ~(run.active /\ run.call = id) /\ c.id # id)
  <2>1. CASE HandleConnect(c)
    <3>1. wire' = (wire \o <<Cursor>>) \o AnswerTo(c.id, TRUE) /\ run' = run BY <2>1 DEF HandleConnect
    <3>2. Cursor \in hellos' BY <2>1 DEF HandleConnect, EmitHello
    <3>3. <<Cursor>> \in Seq(Sendable') BY <3>2 DEF Sendable
    <3>4. wire \o <<Cursor>> \in Seq(Sendable') BY <1>6, <3>3, Appended
    <3>5. AnswerTo(c.id, TRUE) \in Seq(Sendable') BY <1>4, <1>6, QueueKept
    <3>6. AnswerIn(wire \o <<Cursor>>, id) <=> AnswerIn(wire, id) \/ AnswerIn(<<Cursor>>, id)
      BY <1>6, <3>3, AnswersStay
    <3>7. AnswerIn(wire', id) <=> AnswerIn(wire \o <<Cursor>>, id) \/ AnswerIn(AnswerTo(c.id, TRUE), id)
      BY <3>1, <3>4, <3>5, AnswersStay
    <3> QED BY <1>5, <3>1, <3>6, <3>7
  <2>2. CASE HandleRead(c) \/ HandleCreate(c)
    <3>1. Publishes(AnswerTo(c.id, TRUE)) /\ run' = run BY <2>2 DEF HandleRead, HandleCreate
    <3> QED BY <1>4, <1>5, <3>1, PublishedAnswers
  <2>3. CASE HandlePrompt(c)
    <3>1. /\ ~run.active /\ Publishes(<<>>) /\ <<>> \in Seq(AnswerType)
          /\ run' = [active |-> TRUE, call |-> c.id, stopping |-> FALSE]
      BY <2>3 DEF HandlePrompt
    <3>2. AnswerIn(wire, id) => AnswerIn(wire', id) BY <3>1, PublishedAnswers
    <3> QED BY <3>1, <3>2
  <2>4. CASE HandleAbort(c)
    <3>1. (~run.active) \in BOOLEAN OBVIOUS
    <3>2. Publishes(AnswerTo(c.id, ~run.active)) /\ run' = [run EXCEPT !.stopping = run.active]
      BY <2>4 DEF HandleAbort
    <3>3. run'.active = run.active /\ run'.call = run.call BY <1>0, <3>2
    <3>4. AnswerIn(wire, id) => AnswerIn(wire', id) BY <1>4, <3>1, <3>2, PublishedAnswers
    <3>5. c.id = id => AnswerIn(wire', id) BY <1>4, <1>5, <3>1, <3>2, PublishedAnswers
    <3> QED BY <3>3, <3>4, <3>5
  <2>5. CASE Refuse(c)
    <3>1. wire' = wire \o AnswerTo(c.id, FALSE) /\ run' = run BY <2>5 DEF Refuse
    <3>2. AnswerTo(c.id, FALSE) \in Seq(Sendable') BY <1>4, <1>6, QueueKept
    <3>3. AnswerIn(wire', id) <=> AnswerIn(wire, id) \/ AnswerIn(AnswerTo(c.id, FALSE), id)
      BY <1>6, <3>1, <3>2, AnswersStay
    <3> QED BY <1>5, <3>1, <3>3
  <2> QED BY <1>1, <2>1, <2>2, <2>3, <2>4, <2>5
<1>8. CASE ~AnswerIn(wire, id) /\ ~(run.active /\ run.call = id) /\ c.id # id
  <2>1. PICK d \in calls : d.id = id BY <1>8 DEF AtDocument
  <2>2. d \in calls' BY <1>1, <1>8, <2>1
  <2> QED BY <1>2, <2>1, <2>2 DEF AtDocument
<1> QED BY <1>2, <1>7, <1>8 DEF AtDocument

\* A request at the document stays there until it is answered, whatever the document does.
LEMMA StaysAtDocument ==
  ASSUME RouteInv, [RouteNext]_routeVars, NEW id, id # NoCall, AtDocument(id),
         \/ AgentAnnounces \/ SaveCheckpoint \/ HandleCall \/ PromptSucceeds \/ PromptStops
         \/ OffscreenDies \/ RouteStream
  PROVE  AtDocument(id)' \/ \E r \in replies' : r.call = id
<1>0. wire \in Seq(Sendable) /\ up /\ run.call \in CallIds BY DEF RouteInv, OffscreenTyped, AtDocument
<1>1. CASE AgentAnnounces
  <2>1. Publishes(<<>>) /\ <<>> \in Seq(AnswerType) /\ UNCHANGED <<run, calls, up>>
    BY <1>1 DEF AgentAnnounces, HostOnly
  <2>2. AnswerIn(wire, id) => AnswerIn(wire', id) BY <2>1, PublishedAnswers
  <2> QED BY <2>1, <2>2 DEF AtDocument
<1>2. CASE SaveCheckpoint
  BY <1>2 DEF SaveCheckpoint, offscreenVars, AtDocument, AnswerIn
<1>3. CASE HandleCall BY <1>3, HandledAtDocument
<1>4. CASE PromptSucceeds \/ PromptStops
  <2>1. PICK succeeded \in BOOLEAN : FinishPrompt(succeeded) BY <1>4 DEF PromptSucceeds, PromptStops
  <2>2. Publishes(AnswerTo(run.call, succeeded)) /\ UNCHANGED <<calls, up>> BY <2>1 DEF FinishPrompt, HostOnly
  <2>3. AnswerTo(run.call, succeeded) \in Seq(AnswerType) BY <1>0, AnswersTyped
  <2>4. AnswerIn(wire, id) => AnswerIn(wire', id) BY <2>2, <2>3, PublishedAnswers
  <2>5. run.call = id => AnswerIn(AnswerTo(run.call, succeeded), id) BY AnswersName
  <2>6. run.call = id => AnswerIn(wire', id) BY <2>2, <2>3, <2>5, PublishedAnswers
  <2> QED BY <2>2, <2>4, <2>6 DEF AtDocument
<1>5. CASE OffscreenDies
  <2> DEFINE gone == ({c.id : c \in calls} \cup {run.call}
                      \cup {wire[i].call : i \in {j \in DOMAIN wire : IsAnswer(wire[j])}}) \ {NoCall}
  <2>1. replies' = replies \cup {Answer(x, FALSE) : x \in gone} BY <1>5 DEF OffscreenDies
  <2>2. id \in gone BY DEF AtDocument, AnswerIn
  <2> HIDE DEF gone
  <2>3. Answer(id, FALSE) \in replies' BY <2>1, <2>2
  <2> QED BY <2>3 DEF Answer
<1>6. CASE RouteStream
  <2> DEFINE e == Head(wire)
  <2>1. wire # <<>> /\ wire' = Tail(wire) /\ UNCHANGED <<up, run, calls>> BY <1>6 DEF RouteStream
  <2>2. CASE AnswerIn(wire, id)
    <3>1. AnswerIn(wire', id) \/ (IsAnswer(e) /\ e.call = id) BY <1>0, <2>1, <2>2, AnswersRemain
    <3>2. IsAnswer(e) /\ e.call = id => e \in replies' BY <1>6 DEF RouteStream
    <3> HIDE DEF e
    <3> QED BY <2>1, <1>0, <3>1, <3>2 DEF AtDocument
  <2>3. CASE ~AnswerIn(wire, id) BY <2>1, <2>3 DEF AtDocument
  <2> QED BY <2>2, <2>3
<1> QED BY <1>1, <1>2, <1>3, <1>4, <1>5, <1>6

\* A document that is gone has nothing to do until it is replaced.
LEMMA DownKept ==
  ASSUME RouteInv, DownFits, [RouteNext]_routeVars
  PROVE  DownFits'
<1>0. /\ run \in [active : BOOLEAN, call : CallIds, stopping : BOOLEAN] /\ up \in BOOLEAN
      /\ wire \in Seq(Sendable)
  BY DEF RouteInv, OffscreenTyped
<1>1. CASE up'  BY <1>1 DEF DownFits
<1>2. CASE ~up' /\ up
  <2>1. OffscreenDies
    BY <1>2 DEF RouteNext, AgentAnnounces, SaveCheckpoint, HandleCall, PromptSucceeds, PromptStops, FinishPrompt,
       HostOnly, RouteStream, WorkerStarts, Initialize, RecoverAccepted, FinishRecovery, WorkerServes, BindRoute,
       FinishBind, ForwardRequest, Respond, PortDrops, WorkerDies, Reconnect, ReopenPanel, PanelReceives,
       PanelReceivesHello, PanelReceivesEnvelope, PanelReceivesAnswer, PanelOnly, RecoveryTimeout, ResyncTimeout,
       EnsureConnected, SendPrompt, AbortActive, offscreenVars, routeVars
  <2> QED BY <2>1 DEF OffscreenDies, NoRun, DownFits
<1>3. CASE ~up' /\ ~up
  <2>0. calls = {} /\ wire = <<>> /\ ~run.active BY <1>3 DEF DownFits
  <2>1. CASE \E ids, stream : Forget(ids, stream) /\ stream \in {wire, IF wire = <<>> THEN wire ELSE Tail(wire)}
    <3>1. PICK ids, stream : Forget(ids, stream) /\ stream = <<>> BY <2>0, <2>1
    <3>2. calls' = {} /\ wire' = <<>> BY <2>0, <3>1 DEF Forget
    <3>3. run' = run \/ run' = [run EXCEPT !.call = NoCall] BY <3>1 DEF Forget
    <3>4. ~run'.active BY <1>0, <2>0, <3>3
    <3> QED BY <3>2, <3>4 DEF DownFits
  <2>2. CASE PortDrops \/ ReopenPanel \/ WorkerDies
    BY <2>1, <2>2 DEF PortDrops, ReopenPanel, WorkerDies
  <2>3. CASE ~(PortDrops \/ ReopenPanel \/ WorkerDies)
    <3>1. UNCHANGED <<calls, wire, run>>
      BY <1>3, <2>0, <2>3 DEF RouteNext, AgentAnnounces, SaveCheckpoint, HandleCall, PromptSucceeds, PromptStops,
         FinishPrompt, OffscreenDies, RouteStream, WorkerStarts, Initialize, RecoverAccepted, FinishRecovery,
         WorkerServes, BindRoute, FinishBind, ForwardRequest, Respond, Reconnect, PanelReceives,
         PanelReceivesHello, PanelReceivesEnvelope, PanelReceivesAnswer, PanelOnly, RecoveryTimeout, ResyncTimeout,
         EnsureConnected, SendPrompt, AbortActive, offscreenVars, routeVars
    <3> QED BY <2>0, <3>1 DEF DownFits
  <2> QED BY <2>2, <2>3
<1> QED BY <1>0, <1>1, <1>2, <1>3

\* A request that is posted joins those of the port, under an id of its own.
LEMMA PostJoins ==
  ASSUME toWorker \in Seq(CallType), CanCall, NEW op, NEW ep, NEW new, new = FreshCall,
         Posts(toWorker, FreshCall, op, ep)
  PROVE  /\ new \in PanelCalls /\ new # NoCall /\ new \notin Used
         /\ Posted(new)'
         /\ \A id : Posted(id) => Posted(id)'
         /\ \A i \in DOMAIN toWorker' :
              (\E j \in DOMAIN toWorker : toWorker'[i] = toWorker[j]) \/ toWorker'[i].id = new
<1> DEFINE c == Call(new, op, ep)
<1>1. new \in PanelCalls /\ new # NoCall /\ new \notin Used
  BY FreshCallTyped DEF CanCall, FreshCall
<1>2. toWorker' = Append(toWorker, c) /\ c.id = new BY DEF Posts, Call
<1> HIDE DEF c
<1>3. /\ \A i \in DOMAIN toWorker : i \in DOMAIN toWorker' /\ toWorker'[i] = toWorker[i]
      /\ Len(toWorker) + 1 \in DOMAIN toWorker' /\ toWorker'[Len(toWorker) + 1] = c
      /\ \A i \in DOMAIN toWorker' : (i \in DOMAIN toWorker /\ toWorker'[i] = toWorker[i]) \/ toWorker'[i] = c
  BY <1>2
<1> QED BY <1>1, <1>2, <1>3 DEF Posted

\* The requests of the panel keep ids of their own.
LEMMA IdsKept ==
  ASSUME RouteInv, IdsFit, [RouteNext]_routeVars
  PROVE  IdsFit'
<1>0. /\ port \in [state : {"closed", "opened", "binding", "bound"}, busy : CallIds,
                   greeted : SUBSET Epochs, seen : [Epochs -> Nat]]
      /\ toWorker \in Seq(CallType)
      /\ prompt \in [id : CallIds, abort : CallIds, active : {"none", "queued", "running"}]
  BY DEF RouteInv, PortTyped, ClientTyped
<1>1. \A i \in DOMAIN toWorker' : toWorker'[i].id \in PanelCalls
  <2>1. CASE \/ toWorker' = toWorker \/ toWorker' = <<>>
             \/ (toWorker # <<>> /\ toWorker' = Tail(toWorker))
    <3>1. toWorker # <<>> => \A i \in DOMAIN Tail(toWorker) :
            i + 1 \in DOMAIN toWorker /\ Tail(toWorker)[i] = toWorker[i + 1]
      BY <1>0
    <3> QED BY <2>1, <3>1 DEF IdsFit
  <2>2. CASE CanCall /\ \E op, ep : Posts(toWorker, FreshCall, op, ep)
    <3>1. PICK op, ep : Posts(toWorker, FreshCall, op, ep) BY <2>2
    <3>2. PICK new : new = FreshCall OBVIOUS
    <3>3. /\ new \in PanelCalls
          /\ \A i \in DOMAIN toWorker' :
               (\E j \in DOMAIN toWorker : toWorker'[i] = toWorker[j]) \/ toWorker'[i].id = new
      BY <1>0, <2>2, <3>1, <3>2, PostJoins
    <3> QED BY <3>3 DEF IdsFit
  <2>3. CASE WorkerServes \/ PortDrops \/ WorkerDies \/ Reconnect \/ ReopenPanel \/ RecoveryTimeout
    BY <2>1, <2>3 DEF WorkerServes, BindRoute, FinishBind, ForwardRequest, Respond, PortDrops, WorkerDies,
       Reconnect, ReopenPanel, ClosePort, RecoveryTimeout, portVars
  <2>4. CASE \/ PanelReceives \/ ResyncTimeout \/ EnsureConnected \/ SendPrompt \/ AbortActive
    BY <2>1, <2>2, <2>4 DEF PanelReceives, PanelReceivesHello, PanelReceivesEnvelope, PanelReceivesAnswer,
       BeginRecovery, ResyncTimeout, EnsureConnected, SendPrompt, AbortActive
  <2>5. CASE \/ AgentAnnounces \/ SaveCheckpoint \/ HandleCall \/ PromptSucceeds \/ PromptStops
             \/ OffscreenDies \/ RouteStream \/ WorkerStarts \/ UNCHANGED routeVars
    BY <2>1, <2>5 DEF AgentAnnounces, SaveCheckpoint, HandleCall, PromptSucceeds, PromptStops, FinishPrompt,
       HostOnly, OffscreenDies, RouteStream, WorkerStarts, Initialize, RecoverAccepted, FinishRecovery,
       portVars, routeVars
  <2> QED BY <2>3, <2>4, <2>5 DEF RouteNext
<1>2. port'.busy \in PanelCalls \cup {NoCall}
  <2>1. CASE port'.busy = port.busy BY <2>1 DEF IdsFit
  <2>2. CASE ClosePort BY <2>2 DEF ClosePort, ClosedPort
  <2>3. CASE ForwardRequest
    <3>1. Head(toWorker).id \in PanelCalls BY <1>0, <2>3 DEF ForwardRequest, IdsFit
    <3>2. port' = port \/ port' = [port EXCEPT !.busy = Head(toWorker).id] BY <2>3 DEF ForwardRequest
    <3> QED BY <1>0, <2>1, <3>1, <3>2
  <2>4. CASE Respond BY <1>0, <2>4 DEF Respond
  <2>5. CASE RouteStream
    <3>1. port' = port \/ (\E g : port' = [port EXCEPT !.greeted = g])
          \/ (\E ep, n : port' = [port EXCEPT !.seen[ep] = n])
      BY <2>5 DEF RouteStream, RouteHello, RouteEnvelope
    <3> QED BY <1>0, <2>1, <3>1
  <2>6. CASE BindRoute \/ FinishBind \/ Reconnect
    BY <1>0, <2>1, <2>2, <2>6 DEF BindRoute, FinishBind, Reconnect
  <2>7. CASE PortDrops \/ WorkerDies \/ ReopenPanel
    BY <2>2, <2>7 DEF PortDrops, WorkerDies, ReopenPanel
  <2>8. CASE \/ PanelReceives \/ ResyncTimeout \/ RecoveryTimeout \/ EnsureConnected \/ SendPrompt \/ AbortActive
             \/ AgentAnnounces \/ SaveCheckpoint \/ HandleCall \/ PromptSucceeds \/ PromptStops
             \/ OffscreenDies \/ WorkerStarts \/ UNCHANGED routeVars
    BY <2>1, <2>8 DEF PanelReceives, PanelReceivesHello, PanelReceivesEnvelope, PanelReceivesAnswer, PanelOnly,
       ResyncTimeout, RecoveryTimeout, EnsureConnected, SendPrompt, AbortActive,
       AgentAnnounces, SaveCheckpoint, HandleCall, PromptSucceeds, PromptStops, FinishPrompt,
       HostOnly, OffscreenDies, WorkerStarts, Initialize, RecoverAccepted, FinishRecovery, portVars, routeVars
  <2> QED BY <2>3, <2>4, <2>5, <2>6, <2>7, <2>8 DEF RouteNext, WorkerServes
<1>3. prompt'.id # NoCall => prompt'.id # prompt'.abort
  <2>1. CASE \/ prompt'.id = NoCall \/ (prompt'.id = prompt.id /\ prompt'.abort = prompt.abort)
             \/ prompt'.abort = NoCall
    BY <2>1 DEF IdsFit
  <2>2. CASE AbortActive
    <3>1. FreshCall \notin Used /\ prompt' = [prompt EXCEPT !.abort = FreshCall]
      BY <2>2, FreshCallTyped DEF AbortActive
    <3>2. prompt.id \in Used BY DEF Used
    <3> QED BY <1>0, <3>1, <3>2
  <2>3. CASE PanelReceives
    <3>1. \/ prompt' = prompt \/ prompt' = NoPrompt \/ (\E x : prompt' = [prompt EXCEPT !.active = x])
          \/ (\E x : prompt' = [prompt EXCEPT !.id = NoCall, !.active = x])
          \/ (\E x : prompt' = [prompt EXCEPT !.abort = NoCall, !.active = x])
      BY <2>3 DEF PanelReceives, PanelReceivesHello, PanelReceivesEnvelope, PanelReceivesAnswer, AnswersPrompt
    <3>2. \/ prompt' = NoPrompt \/ prompt'.abort = NoCall \/ prompt'.id = NoCall
          \/ (prompt'.id = prompt.id /\ prompt'.abort = prompt.abort)
      BY <1>0, <3>1
    <3>3. NoPrompt.id = NoCall BY DEF NoPrompt
    <3> QED BY <2>1, <3>2, <3>3
  <2>4. CASE SendPrompt BY <2>1, <2>4 DEF SendPrompt
  <2>5. CASE PortDrops \/ WorkerDies \/ ReopenPanel \/ FinishBind
    BY <2>1, <2>5 DEF PortDrops, WorkerDies, ReopenPanel, FinishBind, RejectPending, NoPrompt
  <2>6. CASE \/ ResyncTimeout \/ RecoveryTimeout \/ EnsureConnected
             \/ AgentAnnounces \/ SaveCheckpoint \/ HandleCall \/ PromptSucceeds \/ PromptStops
             \/ OffscreenDies \/ RouteStream \/ WorkerStarts \/ BindRoute \/ ForwardRequest \/ Respond
             \/ Reconnect \/ UNCHANGED routeVars
    BY <2>1, <2>6 DEF ResyncTimeout, RecoveryTimeout, EnsureConnected,
       AgentAnnounces, SaveCheckpoint, HandleCall, PromptSucceeds, PromptStops, FinishPrompt,
       HostOnly, OffscreenDies, RouteStream, WorkerStarts, Initialize, RecoverAccepted, FinishRecovery,
       BindRoute, ForwardRequest, Respond, Reconnect, clientVars, routeVars
  <2> QED BY <2>2, <2>3, <2>4, <2>5, <2>6 DEF RouteNext, WorkerServes
<1> QED BY <1>1, <1>2, <1>3 DEF IdsFit

\* What a port has forwarded is answered by the document, or its answer waits for the port.
LEMMA BusyKept ==
  ASSUME RouteInv, IdsFit, BusyFits, [RouteNext]_routeVars
  PROVE  BusyFits'
<1> PICK b : b = port.busy OBVIOUS
<1> DEFINE answered == \E r \in replies : r.call = b
<1>0. /\ port \in [state : {"closed", "opened", "binding", "bound"}, busy : CallIds,
                   greeted : SUBSET Epochs, seen : [Epochs -> Nat]]
      /\ toWorker \in Seq(CallType)
      /\ b # ConnectCall /\ b # RecoverCall
  BY CallsAssumption DEF RouteInv, PortTyped, IdsFit, PanelCalls, NoCall, ConnectCall, RecoverCall
<1>1. CASE port'.busy = NoCall BY <1>1 DEF BusyFits
<1>2. ASSUME b # NoCall, port'.busy = b, AtDocument(b)' \/ \E r \in replies' : r.call = b PROVE BusyFits'
  <2>1. Forwarded(b)' BY <1>2 DEF Forwarded, AtDocument, AnswerIn
  <2> QED BY <1>2, <2>1 DEF BusyFits, Forwarded, AtDocument, AnswerIn
<1>3. b # NoCall => AtDocument(b) \/ answered BY DEF BusyFits, Forwarded
<1>4. CASE \/ AgentAnnounces \/ SaveCheckpoint \/ HandleCall \/ PromptSucceeds \/ PromptStops
           \/ OffscreenDies \/ RouteStream
  <2>1. port'.busy = b
    <3>1. port' = port \/ (\E g : port' = [port EXCEPT !.greeted = g])
          \/ (\E ep, n : port' = [port EXCEPT !.seen[ep] = n])
      BY <1>4 DEF AgentAnnounces, SaveCheckpoint, HandleCall, PromptSucceeds, PromptStops, FinishPrompt,
         HostOnly, OffscreenDies, RouteStream, RouteHello, RouteEnvelope, portVars
    <3> QED BY <1>0, <3>1
  <2>2. replies \subseteq replies'
    BY <1>4 DEF AgentAnnounces, SaveCheckpoint, HandleCall, PromptSucceeds, PromptStops, FinishPrompt,
       HostOnly, OffscreenDies, RouteStream, RouteHello, RouteEnvelope, workerVars
  <2>3. b # NoCall /\ AtDocument(b) => AtDocument(b)' \/ \E r \in replies' : r.call = b
    BY <1>4, StaysAtDocument
  <2> QED BY <1>1, <1>2, <1>3, <2>1, <2>2, <2>3
<1>5. ASSUME port'.busy = b, \A r \in replies : r.call = b => r \in replies', up => up', calls \subseteq calls',
             UNCHANGED <<run, wire>>
      PROVE  BusyFits'
  <2>1. AtDocument(b) => AtDocument(b)' BY <1>5 DEF AtDocument, AnswerIn
  <2> QED BY <1>1, <1>2, <1>3, <1>5, <2>1
<1>6. CASE WorkerStarts
  BY <1>0, <1>5, <1>6 DEF WorkerStarts, Initialize, RecoverAccepted, FinishRecovery, offscreenVars, portVars
<1>7. CASE BindRoute
  <2>1. b = NoCall BY <1>7 DEF BindRoute, RouteInv, PortTyped
  <2>2. port'.busy = b BY <1>0, <1>7 DEF BindRoute
  <2> QED BY <1>1, <2>1, <2>2
<1>8. CASE FinishBind
  <2>1. CASE ClosePort BY <1>1, <2>1 DEF ClosePort, ClosedPort
  <2>2. CASE ~ClosePort
    <3>1. port'.busy = b BY <1>0, <1>8, <2>2 DEF FinishBind
    <3>2. \A r \in replies : r.call = b => r \in replies' BY <1>0, <1>8 DEF FinishBind
    <3>3. UNCHANGED <<up, calls, run, wire>> BY <1>8 DEF FinishBind, offscreenVars
    <3> QED BY <1>5, <3>1, <3>2, <3>3
  <2> QED BY <2>1, <2>2
<1>9. CASE ForwardRequest
  <2>1. CASE up
    <3>1. /\ port' = [port EXCEPT !.busy = Head(toWorker).id]
          /\ calls' = calls \cup {Head(toWorker)} /\ up'
      BY <1>9, <2>1 DEF ForwardRequest
    <3>2. port'.busy = Head(toWorker).id BY <1>0, <3>1
    <3>3. Head(toWorker) \in calls' BY <3>1
    <3> QED BY <3>1, <3>2, <3>3 DEF BusyFits, Forwarded, AtDocument
  <2>2. CASE ~up BY <1>1, <1>9, <2>2 DEF ForwardRequest
  <2> QED BY <2>1, <2>2
<1>10. CASE Respond BY <1>0, <1>1, <1>10 DEF Respond
<1>11. CASE PortDrops \/ WorkerDies \/ ReopenPanel
  BY <1>1, <1>11 DEF PortDrops, WorkerDies, ReopenPanel, ClosePort, ClosedPort
<1>12. CASE \/ Reconnect \/ PanelReceives \/ ResyncTimeout \/ RecoveryTimeout \/ EnsureConnected
            \/ SendPrompt \/ AbortActive \/ UNCHANGED routeVars
  <2>1. port' = port \/ port' = [port EXCEPT !.state = "opened"]
    BY <1>12 DEF Reconnect, PanelReceives, PanelReceivesHello, PanelReceivesEnvelope, PanelReceivesAnswer, PanelOnly,
       ResyncTimeout, RecoveryTimeout, EnsureConnected, SendPrompt, AbortActive, portVars, routeVars
  <2>2. UNCHANGED <<up, calls, run, wire, replies>>
    BY <1>12 DEF Reconnect, PanelReceives, PanelReceivesHello, PanelReceivesEnvelope, PanelReceivesAnswer, PanelOnly,
       ResyncTimeout, RecoveryTimeout, EnsureConnected, SendPrompt, AbortActive, offscreenVars, workerVars, routeVars
  <2>3. port'.busy = b BY <1>0, <2>1
  <2> QED BY <1>5, <2>2, <2>3
<1> HIDE DEF answered
<1> QED BY <1>4, <1>6, <1>7, <1>8, <1>9, <1>10, <1>11, <1>12 DEF RouteNext, WorkerServes

\* A message of the panel's queue that is read is gone, the others are not.
LEMMA PanelReads ==
  ASSUME RouteInv, toPanel # <<>>, toPanel' = Tail(toPanel), NEW id, AnswerIn(toPanel, id),
         ~(IsAnswer(Head(toPanel)) /\ Head(toPanel).call = id)
  PROVE  AnswerIn(toPanel', id)
<1>1. toPanel \in Seq(Sendable) BY DEF RouteInv, PortTyped
<1> QED BY <1>1, AnswersRemain

\* Nothing is awaited on a port that closed: every request in flight was rejected.
LEMMA RejectedAll ==
  ASSUME RejectPending
  PROVE  Awaited' = {}
<1>1. /\ recovery' = Unanswered(recovery) /\ resync' = Unanswered(resync)
      /\ prompt' = [NoPrompt EXCEPT !.active = prompt.active]
  BY DEF RejectPending
<1>2. prompt'.id = NoCall /\ prompt'.abort = NoCall BY <1>1 DEF NoPrompt
<1>3. \A cycle \in {recovery', resync'} : cycle.answered \/ cycle.id = NoCall
  BY <1>1 DEF Unanswered, NoCycle
<1> QED BY <1>2, <1>3 DEF Awaited

\* Each step hands on what the panel awaits, or the panel no longer awaits it.
LEMMA AwaitedKept ==
  ASSUME RouteInv, ServedInv, [RouteNext]_routeVars, BusyFits'
  PROVE  AwaitedIsUnderWay'
<1> DEFINE Near(id) == Posted(id) \/ port.busy = id \/ AnswerIn(toPanel, id)
<1>0. /\ port \in [state : {"closed", "opened", "binding", "bound"}, busy : CallIds,
                   greeted : SUBSET Epochs, seen : [Epochs -> Nat]]
      /\ toWorker \in Seq(CallType) /\ toPanel \in Seq(Sendable) /\ replies \in SUBSET AnswerType
      /\ recovery \in CycleType /\ resync \in CycleType
      /\ prompt \in [id : CallIds, abort : CallIds, active : {"none", "queued", "running"}]
  BY DEF RouteInv, PortTyped, ClientTyped, WorkerTyped
<1>1. \A id \in Awaited : Near(id) /\ id # NoCall BY DEF ServedInv, AwaitedIsUnderWay, Forwarded, Awaited
<1>2. ASSUME \A id \in Awaited' : Near(id)' PROVE AwaitedIsUnderWay'
  <2> SUFFICES ASSUME NEW id \in Awaited' PROVE (Posted(id) \/ Forwarded(id) \/ AnswerIn(toPanel, id))'
    BY DEF AwaitedIsUnderWay
  <2>1. id # NoCall BY DEF Awaited
  <2>2. Near(id)' BY <1>2
  <2>3. port'.busy = id => Forwarded(id)' BY <2>1 DEF BusyFits, Forwarded, AtDocument, AnswerIn
  <2> QED BY <2>2, <2>3
<1>3. ASSUME Awaited' = {} PROVE AwaitedIsUnderWay' BY <1>3 DEF AwaitedIsUnderWay
<1>4. UNCHANGED clientVars => Awaited' = Awaited BY DEF clientVars, Awaited
<1>5. ASSUME UNCHANGED clientVars, UNCHANGED toWorker, port'.busy = port.busy,
             toPanel' = toPanel \/ \E m : toPanel' = Append(toPanel, m)
      PROVE  AwaitedIsUnderWay'
  <2>1. ASSUME NEW id, AnswerIn(toPanel, id) PROVE AnswerIn(toPanel', id)
    <3>1. toPanel \in Seq(Sendable) BY <1>0
    <3>2. \A m : AnswerIn(Append(toPanel, m), id) BY <2>1, <3>1, AnswersJoined
    <3> QED BY <1>5, <2>1, <3>2
  <2>2. \A id : Posted(id) => Posted(id)' BY <1>5 DEF Posted
  <2>3. \A id \in Awaited' : Near(id)' BY <1>1, <1>4, <1>5, <2>1, <2>2
  <2> QED BY <1>2, <2>3
<1>6. CASE \/ AgentAnnounces \/ SaveCheckpoint \/ HandleCall \/ PromptSucceeds \/ PromptStops
           \/ OffscreenDies \/ WorkerStarts \/ UNCHANGED routeVars
  BY <1>5, <1>6 DEF AgentAnnounces, SaveCheckpoint, HandleCall, PromptSucceeds, PromptStops, FinishPrompt,
     HostOnly, OffscreenDies, WorkerStarts, Initialize, RecoverAccepted, FinishRecovery, portVars, routeVars
<1>7. CASE RouteStream
  <2>1. port' = port \/ (\E g : port' = [port EXCEPT !.greeted = g])
        \/ (\E ep, n : port' = [port EXCEPT !.seen[ep] = n])
    BY <1>7 DEF RouteStream, RouteHello, RouteEnvelope
  <2>2. port'.busy = port.busy BY <1>0, <2>1
  <2>3. toPanel' = toPanel \/ \E m : toPanel' = Append(toPanel, m)
    BY <1>7 DEF RouteStream, RouteHello, RouteEnvelope
  <2>4. UNCHANGED clientVars /\ UNCHANGED toWorker BY <1>7 DEF RouteStream
  <2> QED BY <1>5, <2>2, <2>3, <2>4
<1>8. CASE BindRoute \/ Reconnect
  <2>1. port'.busy = port.busy BY <1>0, <1>8 DEF BindRoute, Reconnect
  <2> QED BY <1>5, <1>8, <2>1 DEF BindRoute, Reconnect
<1>9. CASE FinishBind
  <2>1. CASE RejectPending BY <1>3, <2>1, RejectedAll
  <2>2. CASE ~RejectPending
    <3>1. port'.busy = port.busy BY <1>0, <1>9, <2>2 DEF FinishBind
    <3>2. toPanel' = toPanel \/ toPanel' = Append(toPanel, worker.hello) BY <1>9, <2>2 DEF FinishBind
    <3>3. UNCHANGED clientVars /\ UNCHANGED toWorker BY <1>9, <2>2 DEF FinishBind, clientVars
    <3> QED BY <1>5, <3>1, <3>2, <3>3
  <2> QED BY <2>1, <2>2
<1>10. CASE ForwardRequest
  <2> DEFINE c == Head(toWorker)
  <2>1. port.busy = NoCall /\ toWorker # <<>> /\ toWorker' = Tail(toWorker) /\ UNCHANGED clientVars
    BY <1>10 DEF ForwardRequest
  <2>2. ASSUME NEW id, Posted(id) PROVE Posted(id)' \/ c.id = id
    <3>1. PICK i \in DOMAIN toWorker : toWorker[i].id = id BY <2>2 DEF Posted
    <3>2. CASE i = 1 BY <3>1, <3>2
    <3>3. CASE i # 1
      <4>1. i - 1 \in DOMAIN Tail(toWorker) /\ Tail(toWorker)[i - 1] = toWorker[i] BY <1>0, <2>1, <3>3
      <4> QED BY <2>1, <3>1, <4>1 DEF Posted
    <3> QED BY <3>2, <3>3
  <2> HIDE DEF c
  <2>3. \/ toPanel' = toPanel /\ port' = [port EXCEPT !.busy = c.id]
        \/ toPanel' = Append(toPanel, Answer(c.id, FALSE))
    BY <1>10 DEF ForwardRequest, c
  <2>4. ASSUME NEW id, c.id = id PROVE port'.busy = id \/ AnswerIn(toPanel', id)
    <3>1. CASE port' = [port EXCEPT !.busy = c.id] BY <1>0, <2>4, <3>1
    <3>2. CASE toPanel' = Append(toPanel, Answer(c.id, FALSE))
      <4>1. IsAnswer(Answer(c.id, FALSE)) /\ Answer(c.id, FALSE).call = id BY <2>4 DEF Answer, IsAnswer
      <4> QED BY <1>0, <3>2, <4>1, AnswersJoined
    <3> QED BY <2>3, <3>1, <3>2
  <2>5. ASSUME NEW id, AnswerIn(toPanel, id) PROVE AnswerIn(toPanel', id)
    <3>1. toPanel \in Seq(Sendable) BY <1>0
    <3>2. \A m : AnswerIn(Append(toPanel, m), id) BY <2>5, <3>1, AnswersJoined
    <3> QED BY <2>3, <2>5, <3>2
  <2>6. \A id \in Awaited' : Near(id)' BY <1>1, <1>4, <2>1, <2>2, <2>4, <2>5
  <2> QED BY <1>2, <2>6
<1>11. CASE Respond
  <2>1. PICK r \in replies : r.call = port.busy /\ toPanel' = Append(toPanel, r) BY <1>11 DEF Respond
  <2>2. UNCHANGED clientVars /\ UNCHANGED toWorker BY <1>11 DEF Respond
  <2>3. IsAnswer(r) BY <1>0 DEF AnswerType, IsAnswer
  <2>4. \A id : AnswerIn(toPanel, id) \/ port.busy = id => AnswerIn(toPanel', id)
    BY <1>0, <2>1, <2>3, AnswersJoined
  <2>5. \A id : Posted(id) => Posted(id)' BY <2>2 DEF Posted
  <2>6. \A id \in Awaited' : Near(id)' BY <1>1, <1>4, <2>2, <2>4, <2>5
  <2> QED BY <1>2, <2>6
<1>12. CASE PortDrops \/ WorkerDies
  <2>1. RejectPending BY <1>12 DEF PortDrops, WorkerDies
  <2> QED BY <1>3, <2>1, RejectedAll
<1>13. CASE ReopenPanel
  <2>1. Awaited' = {} BY <1>13 DEF ReopenPanel, Awaited, NoCycle, NoPrompt
  <2> QED BY <1>3, <2>1
<1>14. PICK new : new = FreshCall OBVIOUS
<1>15. ASSUME port' = port, \A id \in Awaited : id \in Awaited' /\ AnswerIn(toPanel, id) => AnswerIn(toPanel', id),
              \/ toWorker' = toWorker /\ Awaited' \subseteq Awaited
              \/ /\ Awaited' \subseteq Awaited \cup {new}
                 /\ CanCall /\ \E op, ep : Posts(toWorker, FreshCall, op, ep)
       PROVE  AwaitedIsUnderWay'
  <2>1. \A id : Posted(id) => Posted(id)'
    BY <1>0, <1>14, <1>15, PostJoins DEF Posted
  <2>2. \A id \in Awaited' : id \in Awaited \/ Posted(id)'
    BY <1>0, <1>14, <1>15, PostJoins
  <2>3. \A id \in Awaited' : Near(id)' BY <1>1, <1>15, <2>1, <2>2
  <2> QED BY <1>2, <2>3
<1>16. CASE PanelReceivesHello
  <2> DEFINE h == Head(toPanel)
             known == [epoch |-> h.epoch, present |-> h.present, prior |-> channel.sess.known]
  <2>1. /\ toPanel # <<>> /\ toPanel' = Tail(toPanel) /\ port' = port /\ ~IsAnswer(h)
        /\ resync' = NoCycle /\ (prompt' = prompt \/ prompt' = NoPrompt)
        /\ (UNCHANGED <<recovery, toWorker>> \/ BeginRecovery(known))
    BY <1>16 DEF PanelReceivesHello, PanelOnly, IsAnswer
  <2>2. \A id : AnswerIn(toPanel, id) => AnswerIn(toPanel', id) BY <2>1, PanelReads
  <2>3. CASE UNCHANGED <<recovery, toWorker>>
    <3>1. Awaited' \subseteq Awaited BY <2>1, <2>3 DEF Awaited, NoCycle, NoPrompt
    <3> QED BY <1>15, <2>1, <2>2, <2>3, <3>1
  <2>4. CASE BeginRecovery(known)
    <3>1. CanCall /\ recovery' = Cycle(h.epoch, FreshCall) /\ Posts(toWorker, FreshCall, RecoveryOp(known), h.epoch)
      BY <2>4 DEF BeginRecovery
    <3> HIDE DEF h, known
    <3>2. recovery'.id = new BY <1>14, <3>1 DEF Cycle
    <3>3. Awaited' \subseteq Awaited \cup {new} BY <2>1, <3>2 DEF Awaited, NoCycle, NoPrompt
    <3> QED BY <1>15, <2>1, <2>2, <3>1, <3>3
  <2> QED BY <2>1, <2>3, <2>4
<1>17. CASE PanelReceivesEnvelope
  <2> DEFINE e == Head(toPanel)
             applied == ReduceSessionStream(channel, e).effect \in {"snapshot-applied", "resynced"}
  <2>1. /\ toPanel # <<>> /\ toPanel' = Tail(toPanel) /\ port' = port /\ ~IsAnswer(e)
    BY <1>17 DEF PanelReceivesEnvelope, PanelOnly
  <2>2. \A id : AnswerIn(toPanel, id) => AnswerIn(toPanel', id) BY <2>1, PanelReads
  <2>3. prompt' = prompt \/ prompt' = [prompt EXCEPT !.active = ActiveAfter(e)]
    BY <1>17 DEF PanelReceivesEnvelope
  <2>4. prompt'.id = prompt.id /\ prompt'.abort = prompt.abort BY <1>0, <2>3
  <2>5. \/ BeginRecovery(presence) /\ UNCHANGED resync
        \/ UNCHANGED <<recovery, resync, toWorker>>
        \/ /\ CanCall /\ resync' = Cycle(channel.epoch, FreshCall)
           /\ Posts(toWorker, FreshCall, "resync", channel.epoch) /\ UNCHANGED recovery
        \/ /\ recovery' = IF applied THEN SeenBy(recovery, e.epoch) ELSE recovery
           /\ resync' = IF applied THEN SeenBy(resync, e.epoch) ELSE resync
           /\ UNCHANGED toWorker
    BY <1>17 DEF PanelReceivesEnvelope
  <2>6. CASE BeginRecovery(presence) /\ UNCHANGED resync
    <3>1. /\ CanCall /\ recovery' = Cycle(presence.epoch, FreshCall)
          /\ Posts(toWorker, FreshCall, RecoveryOp(presence), presence.epoch)
      BY <2>6 DEF BeginRecovery
    <3>2. recovery'.id = new BY <1>14, <3>1 DEF Cycle
    <3>3. Awaited' \subseteq Awaited \cup {new} BY <2>4, <2>6, <3>2 DEF Awaited
    <3> QED BY <1>15, <2>1, <2>2, <3>1, <3>3
  <2>7. CASE UNCHANGED <<recovery, resync, toWorker>>
    <3>1. Awaited' \subseteq Awaited BY <2>4, <2>7 DEF Awaited
    <3> QED BY <1>15, <2>1, <2>2, <2>7, <3>1
  <2>8. CASE /\ CanCall /\ resync' = Cycle(channel.epoch, FreshCall)
             /\ Posts(toWorker, FreshCall, "resync", channel.epoch) /\ UNCHANGED recovery
    <3>1. resync'.id = new BY <1>14, <2>8 DEF Cycle
    <3>2. Awaited' \subseteq Awaited \cup {new} BY <2>4, <2>8, <3>1 DEF Awaited
    <3> QED BY <1>15, <2>1, <2>2, <2>8, <3>2
  <2>9. CASE /\ recovery' = IF applied THEN SeenBy(recovery, e.epoch) ELSE recovery
             /\ resync' = IF applied THEN SeenBy(resync, e.epoch) ELSE resync
             /\ UNCHANGED toWorker
    <3>1. ASSUME NEW cycle \in CycleType, NEW ep
          PROVE  LET then == SeenBy(cycle, ep) IN
                 then.answered \/ then.id = NoCall \/ (~cycle.answered /\ then.id = cycle.id)
      BY DEF SeenBy, CycleType, NoCycle
    <3>2. /\ recovery'.answered \/ recovery'.id = NoCall \/ (~recovery.answered /\ recovery'.id = recovery.id)
          /\ resync'.answered \/ resync'.id = NoCall \/ (~resync.answered /\ resync'.id = resync.id)
      BY <1>0, <2>9, <3>1
    <3>3. Awaited' \subseteq Awaited BY <2>4, <3>2 DEF Awaited
    <3> QED BY <1>15, <2>1, <2>2, <2>9, <3>3
  <2> QED BY <2>5, <2>6, <2>7, <2>8, <2>9
<1>18. CASE PanelReceivesAnswer
  <2> DEFINE a == Head(toPanel)
  <2>1. /\ toPanel # <<>> /\ toPanel' = Tail(toPanel) /\ port' = port /\ toWorker' = toWorker
        /\ recovery' = AnsweredBy(recovery, a) /\ resync' = AnsweredBy(resync, a)
        /\ prompt' = AnswersPrompt(a)
    BY <1>18 DEF PanelReceivesAnswer, PanelOnly
  <2>2. \A id : AnswerIn(toPanel, id) /\ id # a.call => AnswerIn(toPanel', id) BY <2>1, PanelReads
  <2> HIDE DEF a
  <2>3. ASSUME NEW cycle \in CycleType
        PROVE  LET then == AnsweredBy(cycle, a) IN
               then.answered \/ then.id = NoCall \/ (~cycle.answered /\ then.id = cycle.id /\ cycle.id # a.call)
    BY DEF AnsweredBy, CycleType, NoCycle
  <2>4. /\ \/ recovery'.answered \/ recovery'.id = NoCall
           \/ (~recovery.answered /\ recovery'.id = recovery.id /\ recovery.id # a.call)
        /\ \/ resync'.answered \/ resync'.id = NoCall
           \/ (~resync.answered /\ resync'.id = resync.id /\ resync.id # a.call)
    BY <1>0, <2>1, <2>3
  <2>5. prompt.id # NoCall => prompt.id # prompt.abort BY DEF ServedInv, IdsFit
  <2>6. /\ prompt'.id = NoCall \/ (prompt'.id = prompt.id /\ prompt.id # a.call)
        /\ prompt'.abort = NoCall \/ (prompt'.abort = prompt.abort /\ prompt.abort # a.call)
    <3>1. CASE prompt.id = a.call
      <4>1. prompt' = [prompt EXCEPT !.id = NoCall, !.active = "none"] BY <2>1, <3>1 DEF AnswersPrompt
      <4>2. prompt'.id = NoCall /\ prompt'.abort = prompt.abort BY <1>0, <4>1
      <4> QED BY <2>5, <3>1, <4>2
    <3>2. CASE prompt.id # a.call /\ prompt.abort = a.call
      <4>1. \E x : prompt' = [prompt EXCEPT !.abort = NoCall, !.active = x] BY <2>1, <3>2 DEF AnswersPrompt
      <4>2. prompt'.abort = NoCall /\ prompt'.id = prompt.id BY <1>0, <4>1
      <4> QED BY <3>2, <4>2
    <3>3. CASE prompt.id # a.call /\ prompt.abort # a.call BY <2>1, <3>3 DEF AnswersPrompt
    <3> QED BY <3>1, <3>2, <3>3
  <2>7. \A id \in Awaited' : id \in Awaited /\ id # a.call BY <2>4, <2>6 DEF Awaited
  <2> QED BY <1>15, <2>1, <2>2, <2>7
<1>19. CASE RecoveryTimeout
  <2>1. UNCHANGED <<port, toPanel, toWorker, prompt, resync>> /\ recovery' = NoCycle
    BY <1>19 DEF RecoveryTimeout, portVars
  <2>2. Awaited' \subseteq Awaited BY <2>1 DEF Awaited, NoCycle
  <2>3. \A id : AnswerIn(toPanel, id) => AnswerIn(toPanel', id) BY <2>1
  <2> QED BY <1>15, <2>1, <2>2, <2>3
<1>20. CASE ResyncTimeout \/ EnsureConnected \/ SendPrompt \/ AbortActive
  <2>1. UNCHANGED <<port, toPanel>>
    BY <1>20 DEF ResyncTimeout, EnsureConnected, PanelOnly, SendPrompt, AbortActive
  <2>2. \A id : AnswerIn(toPanel, id) => AnswerIn(toPanel', id) BY <2>1
  <2>3. CanCall /\ \E op, ep : Posts(toWorker, FreshCall, op, ep)
    BY <1>20 DEF ResyncTimeout, EnsureConnected, BeginRecovery, SendPrompt, AbortActive
  <2>4. Awaited' \subseteq Awaited \cup {new}
    <3>1. CASE ResyncTimeout
      <4>1. resync'.id = new /\ UNCHANGED <<recovery, prompt>> BY <1>14, <3>1 DEF ResyncTimeout, Cycle
      <4> QED BY <4>1 DEF Awaited
    <3>2. CASE EnsureConnected
      <4>1. recovery'.id = new /\ UNCHANGED <<resync, prompt>>
        BY <1>14, <3>2 DEF EnsureConnected, BeginRecovery, Cycle
      <4> QED BY <4>1 DEF Awaited
    <3>3. CASE SendPrompt
      <4>1. prompt'.id = new /\ prompt'.abort = NoCall /\ UNCHANGED <<recovery, resync>>
        BY <1>14, <3>3 DEF SendPrompt
      <4> QED BY <4>1 DEF Awaited
    <3>4. CASE AbortActive
      <4>1. prompt' = [prompt EXCEPT !.abort = new] /\ UNCHANGED <<recovery, resync>>
        BY <1>14, <3>4 DEF AbortActive
      <4>2. prompt'.abort = new /\ prompt'.id = prompt.id BY <1>0, <4>1
      <4> QED BY <4>1, <4>2 DEF Awaited
    <3> QED BY <1>20, <3>1, <3>2, <3>3, <3>4
  <2> QED BY <1>15, <2>1, <2>2, <2>3, <2>4
<1> QED
  BY <1>6, <1>7, <1>8, <1>9, <1>10, <1>11, <1>12, <1>13, <1>16, <1>17, <1>18, <1>19, <1>20
     DEF RouteNext, WorkerServes, PanelReceives

\* The invariant holds at the start.
LEMMA ServedInvInit == RouteInit => ServedInv
<1> SUFFICES ASSUME RouteInit PROVE ServedInv OBVIOUS
<1>1. toWorker = <<>> /\ port.busy = NoCall /\ prompt.id = NoCall /\ prompt.abort = NoCall /\ up
  BY DEF RouteInit, ClosedPort, NoPrompt
<1>2. recovery.id = NoCall /\ resync.id = NoCall BY DEF RouteInit, NoCycle
<1>3. IdsFit BY <1>1 DEF IdsFit
<1>4. DownFits BY <1>1 DEF DownFits
<1>5. BusyFits BY <1>1 DEF BusyFits
<1>6. Awaited = {} BY <1>1, <1>2 DEF Awaited
<1> QED BY <1>3, <1>4, <1>5, <1>6 DEF ServedInv, AwaitedIsUnderWay

\* What the panel awaits an answer to, its prompt, the abort of it or a cycle, is under way: on its port,
\* at a document that runs, or answered, whatever ports drop, workers and documents die (messageTail,
\* streamTail, handleDisconnect). This is the half of PanelCatchesUp that is about requests.
THEOREM AwaitedAnswersAreUnderWay == RouteSpec => []AwaitedIsUnderWay
<1>1. RouteInv /\ ServedInv /\ [RouteNext]_routeVars => ServedInv'
  <2> SUFFICES ASSUME RouteInv, ServedInv, [RouteNext]_routeVars PROVE ServedInv' OBVIOUS
  <2>1. IdsFit' /\ DownFits' BY IdsKept, DownKept DEF ServedInv
  <2>2. BusyFits' BY BusyKept DEF ServedInv
  <2> QED BY <2>1, <2>2, AwaitedKept DEF ServedInv
<1>2. ServedInv => AwaitedIsUnderWay BY DEF ServedInv
<1> QED BY <1>1, <1>2, ServedInvInit, RouteInvHolds, PTL DEF RouteSpec
=============================================================================
