---------------------------- MODULE SessionRoute ----------------------------
(***************************************************************************)
(* One agent session followed by one side panel through the real route:     *)
(*                                                                         *)
(*   panel  --port-->  service worker  --messages-->  offscreen document     *)
(*   panel  <--port--  service worker  <--streamTail--  offscreen document   *)
(*                                                                         *)
(*   RemoteSessionClient           agent/remote-session-client.ts           *)
(*   ChromeRuntimeSessionTransport agent/chrome-runtime-session-transport.ts *)
(*   AgentRuntimeCoordinator       bridge/agent-runtime-coordinator.ts       *)
(*   OffscreenRuntimeController    agent/offscreen-runtime-controller.ts     *)
(*                                                                         *)
(* The host's stream, the reducer and the transcript are those of           *)
(* RuntimeStream, whose actions are conjoined here with what they do to the  *)
(* route.  The port drops, the panel is reopened, the worker is killed and   *)
(* restarted, the offscreen document is replaced; nothing is lost otherwise. *)
(*                                                                         *)
(* The accepted descriptor is the one a new session gets (mode "create").   *)
(* Left out: the transport's one retry of a request it had not yet posted    *)
(* (the request fails here, and the reconnect starts a recovery anyway), the *)
(* lease fence (SidepanelAuthority's subject), release, and direct requests  *)
(* of the worker other than its own recovery.  The document dies only once    *)
(* the route is accepted.  A connect while it is gone waits here; in the code *)
(* its handshake times out and the transport connects again.                 *)
(*                                                                         *)
(* There is at most one prompt, so whatever execution the stream speaks of   *)
(* is that prompt's.                                                        *)
(***************************************************************************)
EXTENDS RuntimeStream

CONSTANTS
  MaxCalls,        \* bound: ids for requests of the panel that coexist
  MaxAnnounced,    \* bound: messages of the agent in one document
  MaxDrops,        \* bound: ports that drop by themselves
  MaxDeaths,       \* bound: deaths of the service worker
  MaxReopens,      \* bound: reopenings of the panel
  MaxTimeouts,     \* bound: recovery and resync timeouts
  MaxUpsets,       \* bound: deaths, reopenings and timeouts together
  MaxPrompts,      \* bound: prompts of the user
  MaxAborts        \* bound: aborts of the user

ASSUME CallsAssumption == MaxCalls \in Nat
ASSUME PromptsAssumption == MaxPrompts \in {0, 1}
ASSUME SpentAssumption ==
  {MaxAnnounced, MaxDrops, MaxDeaths, MaxReopens, MaxTimeouts, MaxUpsets, MaxAborts} \subseteq Nat

VARIABLES
  up,          \* the offscreen document exists
  run,         \* the prompt the host runs: [active, call, stopping]
  calls,       \* requests at the offscreen document: [id, op, epoch]
  wire,        \* streamTail: envelopes, and answers behind the envelopes they follow
  worker,      \* [phase, hello]: coordinator initialization, latestHellos
  accepted,    \* the descriptor is in storage (acceptedDescriptors once loaded)
  replies,     \* answers that have reached the worker
  port,        \* [state, busy, greeted, seen]: one connection of the panel
  toWorker,    \* requests posted on the port: messageTail
  toPanel,     \* envelopes and answers posted on the port
  attached,    \* attachedEpoch of the client
  presence,    \* helloSessionPresence: [epoch, present, prior]
  recovery,    \* the RecoveryCycle: [epoch, id, answered, seen]
  resync,      \* the ResyncCycle, of the same form
  prompt,      \* [id, abort, active]: the pending calls of the client's prompt and
               \* of its abort, and the status of its activePrompt
  spent        \* how much of each bound is used

offscreenVars == <<up, run, calls, wire>>
workerVars    == <<worker, accepted, replies>>
portVars      == <<port, toWorker, toPanel>>
clientVars    == <<attached, presence, recovery, resync, prompt>>
streamVars    == <<hostVars, sent, hellos>>
routeVars     == <<vars, offscreenVars, workerVars, portVars, clientVars, spent>>

NoCall == 0
ConnectCall == 1     \* agent-runtime-connect, of the worker
RecoverCall == 2     \* recoverAcceptedSession, of the worker
PanelCalls == 3..(MaxCalls + 2)

NoHello == Hello(NoEpoch, FALSE, 0, 0)
NoCycle == [epoch |-> NoEpoch, id |-> NoCall, answered |-> FALSE, seen |-> FALSE]
NoPresence == [epoch |-> NoEpoch, present |-> FALSE, prior |-> FALSE]
NoRun == [active |-> FALSE, call |-> NoCall, stopping |-> FALSE]
NoPrompt == [id |-> NoCall, abort |-> NoCall, active |-> "none"]
ClosedPort == [state |-> "closed", busy |-> NoCall, greeted |-> {}, seen |-> [ep \in Epochs |-> 0]]
ColdWorker == [phase |-> "cold", hello |-> NoHello]

Call(id, op, ep) == [id |-> id, op |-> op, epoch |-> ep]
Answer(id, ok) == [type |-> "answer", call |-> id, ok |-> ok]
IsAnswer(m) == m.type = "answer"

Budget == [announced |-> MaxAnnounced, drops |-> MaxDrops, deaths |-> MaxDeaths,
           reopens |-> MaxReopens, timeouts |-> MaxTimeouts, prompts |-> MaxPrompts,
           aborts |-> MaxAborts]
Upsets == {"deaths", "reopens", "timeouts"}
Spends(kind) ==
  /\ spent[kind] < Budget[kind]
  /\ kind \in Upsets => spent.deaths + spent.reopens + spent.timeouts < MaxUpsets
  /\ spent' = [spent EXCEPT ![kind] = @ + 1]

\* Ids of answers that may still come; a new request takes another one.
Used ==
  {c.id : c \in calls} \cup {wire[i].call : i \in {j \in DOMAIN wire : IsAnswer(wire[j])}}
  \cup {r.call : r \in replies} \cup {toWorker[i].id : i \in DOMAIN toWorker}
  \cup {toPanel[i].call : i \in {j \in DOMAIN toPanel : IsAnswer(toPanel[j])}}
  \cup {recovery.id, resync.id, prompt.id, prompt.abort, run.call, port.busy}
FreshCall == CHOOSE id \in PanelCalls : id \notin Used
CanCall == PanelCalls \ Used # {}

RouteInit ==
  /\ Init
  /\ up = TRUE /\ run = NoRun /\ calls = {} /\ wire = <<>>
  /\ worker = ColdWorker /\ accepted = FALSE /\ replies = {}
  /\ port = ClosedPort /\ toWorker = <<>> /\ toPanel = <<>>
  /\ attached = NoEpoch /\ presence = NoPresence
  /\ recovery = NoCycle /\ resync = NoCycle /\ prompt = NoPrompt
  /\ spent = [kind \in DOMAIN Budget |-> 0]

-----------------------------------------------------------------------------
(* The offscreen document: OffscreenRuntimeController and the host *)

\* Mutant: numbered from the envelope before.
NewEnvelopesOffByOne == [i \in 1..(Len(sent'[epoch]) - Seq0) |->
                   AsEnvelope(sent'[epoch][Seq0 + i], epoch, Seq0 + i - 1)]

\* enqueueStream: what the host emitted goes to the end of streamTail, and the
\* answer of forwardRequest waits for the tail it finds.
NewEnvelopes == [i \in 1..(Len(sent'[epoch]) - Seq0) |->
                   AsEnvelope(sent'[epoch][Seq0 + i], epoch, Seq0 + i)]
AnswerTo(id, ok) == IF id = NoCall THEN <<>> ELSE <<Answer(id, ok)>>
Publishes(answer) == wire' = wire \o NewEnvelopes \o answer

HostOnly == UNCHANGED <<up, workerVars, portVars, clientVars>>

\* The agent speaks while it works on a prompt.
AgentAnnounces ==
  /\ up /\ run.active /\ Spends("announced")
  /\ Announce
  /\ Publishes(<<>>)
  /\ HostOnly /\ UNCHANGED <<run, calls>>

SaveCheckpoint ==
  /\ up
  /\ Checkpoint
  /\ UNCHANGED <<offscreenVars, workerVars, portVars, clientVars, spent>>

\* handleConnectMessage: a hello with the cursor of the moment.
HandleConnect(c) ==
  /\ c.op = "connect"
  /\ EmitHello
  /\ wire' = wire \o <<Cursor>> \o AnswerTo(c.id, TRUE)
  /\ UNCHANGED run

\* attach and resync need the session; load takes the live one or the durable
\* one, and a session is durable once it has messages (shouldSaveSession).
Durable == transcript > 0
HandleRead(c) ==
  /\ c.op \in {"attach", "load", "resync"} /\ c.epoch = epoch
  /\ IF live THEN SendSnapshot ELSE c.op = "load" /\ Durable /\ Open(0)
  /\ Publishes(AnswerTo(c.id, TRUE))
  /\ UNCHANGED run

HandleCreate(c) ==
  /\ c.op = "create" /\ c.epoch = epoch /\ ~live
  /\ Open(1)
  /\ Publishes(AnswerTo(c.id, TRUE))
  /\ UNCHANGED run

\* The answer of a prompt comes when the prompt is over.
HandlePrompt(c) ==
  /\ c.op = "prompt" /\ c.epoch = epoch /\ live /\ ~run.active
  /\ AnnounceExecution(1)
  /\ Publishes(<<>>)
  /\ run' = [active |-> TRUE, call |-> c.id, stopping |-> FALSE]

\* The stop of a running prompt is announced once; the answer of an abort says
\* whether the prompt is over.
HandleAbort(c) ==
  /\ c.op = "abort" /\ c.epoch = epoch
  /\ run' = [run EXCEPT !.stopping = run.active]
  /\ IF run.active /\ ~run.stopping THEN AnnounceExecution(1) ELSE UNCHANGED vars
  /\ Publishes(AnswerTo(c.id, ~run.active))

\* STALE_EPOCH, SESSION_NOT_FOUND, SESSION_EXISTS, SESSION_BUSY.
Refuse(c) ==
  /\ \/ c.op # "connect" /\ c.epoch # epoch
     \/ c.op \in {"attach", "resync", "prompt"} /\ ~live
     \/ c.op = "load" /\ ~live /\ ~Durable
     \/ c.op = "create" /\ live
     \/ c.op = "prompt" /\ run.active
  /\ wire' = wire \o AnswerTo(c.id, FALSE)
  /\ UNCHANGED <<vars, run>>

HandleCall ==
  \E c \in calls :
    /\ up
    /\ calls' = calls \ {c}
    /\ \/ HandleConnect(c) \/ HandleRead(c) \/ HandleCreate(c)
       \/ HandlePrompt(c) \/ HandleAbort(c) \/ Refuse(c)
    /\ HostOnly /\ UNCHANGED spent

\* The prompt ends: it succeeded, or it failed or was aborted.
FinishPrompt(succeeded) ==
  /\ up /\ run.active
  /\ EndExecution(IF succeeded THEN 1 ELSE 0)
  /\ Publishes(AnswerTo(run.call, succeeded))
  /\ run' = NoRun
  /\ HostOnly /\ UNCHANGED <<calls, spent>>

PromptSucceeds == ~run.stopping /\ FinishPrompt(TRUE)
PromptStops == run.stopping /\ FinishPrompt(FALSE)

\* The document dies: what it had not sent is lost, and whoever awaits it is
\* told that it did not respond.
OffscreenDies ==
  /\ up /\ accepted /\ epoch < MaxEpoch
  /\ up' = FALSE
  /\ replies' = replies \cup {Answer(id, FALSE) : id \in
       ({c.id : c \in calls} \cup {run.call}
        \cup {wire[i].call : i \in {j \in DOMAIN wire : IsAnswer(wire[j])}}) \ {NoCall}}
  /\ calls' = {} /\ wire' = <<>> /\ run' = NoRun
  /\ UNCHANGED <<vars, worker, accepted, portVars, clientVars, spent>>

-----------------------------------------------------------------------------
(* What a closed port takes with it *)

\* Nobody waits any longer for the answers to these calls; an answer already in
\* the streamTail keeps its place there.
Forget(ids, stream) ==
  /\ calls' = {IF c.id \in ids THEN [c EXCEPT !.id = NoCall] ELSE c : c \in calls}
  /\ run' = IF run.call \in ids THEN [run EXCEPT !.call = NoCall] ELSE run
  /\ wire' = [i \in DOMAIN stream |->
                IF IsAnswer(stream[i]) /\ stream[i].call \in ids THEN Answer(NoCall, FALSE)
                ELSE stream[i]]

\* handleDisconnect: every request in flight is rejected, and the cycle that
\* waits for one ends with it.
ClosePort ==
  /\ port' = ClosedPort /\ toWorker' = <<>> /\ toPanel' = <<>>
Unanswered(cycle) == IF cycle.answered THEN cycle ELSE NoCycle
RejectPending ==
  /\ recovery' = Unanswered(recovery) /\ resync' = Unanswered(resync)
  /\ prompt' = [NoPrompt EXCEPT !.active = prompt.active]

-----------------------------------------------------------------------------
(* The service worker: AgentRuntimeCoordinator *)

\* A descriptor of the route is known: of the connection, or accepted.
Bound == port.state \in {"binding", "bound"}
DescriptorKnown == Bound \/ (accepted /\ worker.phase # "cold")

\* routeStream of a hello: it replaces the cached one, and goes to the active
\* connection once per epoch.
RouteHello(e) ==
  /\ worker' = IF DescriptorKnown THEN [worker EXCEPT !.hello = e] ELSE worker
  /\ IF Bound /\ e.epoch \notin port.greeted
     THEN /\ port' = [port EXCEPT !.greeted = @ \cup {e.epoch}]
          /\ toPanel' = Append(toPanel, e)
     ELSE UNCHANGED <<port, toPanel>>
  /\ UNCHANGED replies

\* routeStream of the session's stream: only the epoch of the cached hello, and
\* each connection sees the sequence numbers rise.
RouteEnvelope(e) ==
  /\ IF Bound /\ e.epoch = worker.hello.epoch /\ e.seq > port.seen[e.epoch]
     THEN /\ port' = [port EXCEPT !.seen[e.epoch] = e.seq]
          /\ toPanel' = Append(toPanel, e)
     ELSE UNCHANGED <<port, toPanel>>
  /\ UNCHANGED <<worker, replies>>

RouteStream ==
  /\ wire # <<>>
  /\ wire' = Tail(wire)
  /\ LET e == Head(wire) IN
       IF IsAnswer(e) THEN /\ replies' = IF e.call = NoCall THEN replies ELSE replies \cup {e}
                           /\ UNCHANGED <<worker, port, toPanel>>
       ELSE IF e.type = "hello" THEN RouteHello(e)
       ELSE RouteEnvelope(e)
  /\ UNCHANGED <<vars, up, run, calls, accepted, toWorker, clientVars, spent>>

\* ensureInitialized: a document exists from here on, restored from the
\* checkpoint when it is new; an accepted session is then connected.
Initialize ==
  /\ worker.phase = "cold"
  /\ up' = TRUE
  /\ IF up THEN UNCHANGED vars ELSE Restart
  /\ IF accepted
     THEN /\ worker' = [worker EXCEPT !.phase = "greeting"]
          /\ calls' = calls \cup {Call(ConnectCall, "connect", NoEpoch)}
     ELSE worker' = [worker EXCEPT !.phase = "ready"] /\ UNCHANGED calls
  /\ UNCHANGED <<run, wire, accepted, replies, portVars, clientVars, spent>>

\* recoverAcceptedSession: attach when the hello names the session, else load.
RecoverAccepted ==
  /\ worker.phase = "greeting"
  /\ \E r \in replies :
       /\ r.call = ConnectCall
       /\ replies' = replies \ {r}
       /\ IF r.ok /\ worker.hello # NoHello /\ up
          THEN /\ worker' = [worker EXCEPT !.phase = "recovering"]
               /\ calls' = calls \cup {Call(RecoverCall, IF worker.hello.present THEN "attach" ELSE "load",
                                            worker.hello.epoch)}
          ELSE worker' = [worker EXCEPT !.phase = "ready"] /\ UNCHANGED calls
  /\ UNCHANGED <<vars, up, run, wire, accepted, portVars, clientVars, spent>>

\* Its failure is only reported.
FinishRecovery ==
  /\ worker.phase = "recovering"
  /\ \E r \in replies : r.call = RecoverCall /\ replies' = replies \ {r}
  /\ worker' = [worker EXCEPT !.phase = "ready"]
  /\ UNCHANGED <<vars, offscreenVars, accepted, portVars, clientVars, spent>>

\* connect, under the route lock: a route whose hello is cached is bound at
\* once and gets that hello; any other is connected offscreen first.
BindRoute ==
  /\ port.state = "opened" /\ worker.phase = "ready" /\ ConnectCall \notin Used
  /\ IF accepted /\ worker.hello # NoHello
     THEN /\ port' = [port EXCEPT !.state = "bound", !.greeted = {worker.hello.epoch}]
          /\ toPanel' = Append(toPanel, worker.hello)
          /\ UNCHANGED calls
     ELSE /\ up
          /\ port' = [port EXCEPT !.state = "binding"]
          /\ calls' = calls \cup {Call(ConnectCall, "connect", NoEpoch)}
          /\ UNCHANGED toPanel
  /\ UNCHANGED <<vars, up, run, wire, workerVars, toWorker, clientVars, spent>>

\* The descriptor is stored before the port is told; a port that closed in the
\* meantime is forgotten without it.  A route accepted before gets the cached
\* hello on top of the one that was routed to it; when its connect fails nobody
\* answers the port, whose handshake times out.
FinishBind ==
  /\ worker.phase = "ready"
  /\ \E r \in replies :
       /\ r.call = ConnectCall
       /\ replies' = replies \ {r}
       /\ IF port.state = "binding" /\ ~r.ok
          THEN ClosePort /\ RejectPending /\ UNCHANGED accepted
          ELSE /\ IF port.state = "binding"
                  THEN /\ accepted' = TRUE
                       /\ port' = [port EXCEPT !.state = "bound"]
                       /\ toPanel' = IF accepted /\ worker.hello # NoHello
                                     THEN Append(toPanel, worker.hello) ELSE toPanel
                  ELSE UNCHANGED <<accepted, port, toPanel>>
               /\ UNCHANGED <<toWorker, recovery, resync, prompt>>
  /\ UNCHANGED <<vars, offscreenVars, worker, attached, presence, spent>>

\* forwardRequest, from the port's messageTail: the next message waits until
\* this one is answered.
ForwardRequest ==
  /\ port.state = "bound" /\ port.busy = NoCall /\ toWorker # <<>>
  /\ toWorker' = Tail(toWorker)
  /\ IF up
     THEN /\ calls' = calls \cup {Head(toWorker)}
          /\ port' = [port EXCEPT !.busy = Head(toWorker).id]
          /\ UNCHANGED toPanel
     ELSE toPanel' = Append(toPanel, Answer(Head(toWorker).id, FALSE)) /\ UNCHANGED <<calls, port>>
  /\ UNCHANGED <<vars, up, run, wire, workerVars, clientVars, spent>>

Respond ==
  /\ port.busy # NoCall
  /\ \E r \in replies :
       /\ r.call = port.busy
       /\ replies' = replies \ {r}
       /\ toPanel' = Append(toPanel, r)
  /\ port' = [port EXCEPT !.busy = NoCall]
  /\ UNCHANGED <<vars, offscreenVars, worker, accepted, toWorker, clientVars, spent>>

-----------------------------------------------------------------------------
(* Connections: ChromeRuntimeSessionTransport *)

PortDrops ==
  /\ port.state # "closed" /\ Spends("drops")
  /\ ClosePort /\ RejectPending
  /\ Forget({port.busy} \ {NoCall}, wire)
  /\ replies' = {r \in replies : r.call # port.busy}
  /\ UNCHANGED <<vars, up, worker, accepted, attached, presence>>

\* The worker is killed, and with it its ports and what it awaits.  The
\* envelope it was being handed may be lost.
WorkerDies ==
  /\ worker.phase # "cold" /\ Spends("deaths")
  /\ worker' = ColdWorker
  /\ replies' = {}
  /\ \E stream \in {wire, IF wire = <<>> THEN wire ELSE Tail(wire)} :
       Forget({ConnectCall, RecoverCall} \cup PanelCalls, stream)
  /\ ClosePort /\ RejectPending
  /\ UNCHANGED <<vars, up, accepted, attached, presence>>

\* scheduleReconnect: the same descriptor on a new port.
Reconnect ==
  /\ port.state = "closed"
  /\ port' = [port EXCEPT !.state = "opened"]
  /\ UNCHANGED <<vars, offscreenVars, workerVars, toWorker, toPanel, clientVars, spent>>

\* The panel is closed and opened again: a new client on a new port.
ReopenPanel ==
  /\ port.state = "bound" /\ accepted /\ Spends("reopens")
  /\ Reopen
  /\ ClosePort
  /\ attached' = NoEpoch /\ presence' = NoPresence
  /\ recovery' = NoCycle /\ resync' = NoCycle /\ prompt' = NoPrompt
  /\ Forget({port.busy} \ {NoCall}, wire)
  /\ replies' = {r \in replies : r.call # port.busy}
  /\ UNCHANGED <<up, worker, accepted>>

-----------------------------------------------------------------------------
(* The panel: RemoteSessionClient *)

Posts(queue, id, op, ep) == toWorker' = Append(queue, Call(id, op, ep))
Cycle(ep, id) == [epoch |-> ep, id |-> id, answered |-> FALSE, seen |-> FALSE]

\* Mutant: a session seen before is created again.
RecoveryOpForgetful(known) == IF known.present THEN "attach" ELSE "create"

\* recoverAfterHello: attach a session the hello names, load one seen before,
\* create it otherwise.
RecoveryOp(known) ==
  IF known.present THEN "attach" ELSE IF known.prior THEN "load" ELSE "create"
BeginRecovery(known) ==
  /\ CanCall
  /\ recovery' = Cycle(known.epoch, FreshCall)
  /\ Posts(toWorker, FreshCall, RecoveryOp(known), known.epoch)

\* A cycle is complete once its answer and an applied snapshot have come, in
\* either order.
SeenBy(cycle, ep) ==
  IF cycle.epoch # ep THEN cycle
  ELSE IF cycle.answered THEN NoCycle
  ELSE [cycle EXCEPT !.seen = TRUE]
AnsweredBy(cycle, a) ==
  IF cycle.id # a.call THEN cycle
  ELSE IF ~a.ok \/ cycle.seen THEN NoCycle
  ELSE [cycle EXCEPT !.answered = TRUE]

\* What an applied envelope says of the prompt.  A snapshot that does not know
\* a prompt yet to be answered is older than the prompt.
Executing(ep, n) ==
  LET told == {i \in 1..n : sent[ep][i].type = "execution"} IN
  told # {} /\ \E last \in told : sent[ep][last].body = 1 /\ \A i \in told : i <= last
ActiveAfter(e) ==
  IF e.type \in {"snapshot", "execution"} /\ Executing(e.epoch, e.seq) THEN "running"
  ELSE IF e.type = "execution" THEN "none"
  ELSE IF e.type = "snapshot" /\ ~(prompt.active = "queued" /\ prompt.id # NoCall) THEN "none"
  ELSE prompt.active
AnswersPrompt(a) ==
  IF prompt.id = a.call THEN [prompt EXCEPT !.id = NoCall, !.active = "none"]
  ELSE IF prompt.abort = a.call
       THEN [prompt EXCEPT !.abort = NoCall, !.active = IF a.ok THEN "none" ELSE @]
  ELSE prompt

PanelOnly == UNCHANGED <<offscreenVars, workerVars, port, spent>>

\* receive, of a hello: a new epoch invalidates everything in flight, any hello
\* calls for a recovery unless one is under way.
PanelReceivesHello ==
  LET h == Head(toPanel)
      other == channel.epoch # h.epoch
      known == [epoch |-> h.epoch, present |-> h.present, prior |-> channel.sess.known]
  IN
  /\ toPanel # <<>> /\ h.type = "hello"
  /\ toPanel' = Tail(toPanel)
  /\ ReceiveHello(h)
  /\ presence' = known
  /\ attached' = NoEpoch
  /\ resync' = NoCycle
  /\ prompt' = IF other THEN NoPrompt ELSE prompt
  /\ IF recovery.epoch = h.epoch THEN UNCHANGED <<recovery, toWorker>> ELSE BeginRecovery(known)
  /\ PanelOnly

\* receive, of the stream: an applied snapshot completes or advances the
\* cycles, an envelope that cannot be applied asks for a resync, or for a
\* recovery when the panel does not know the session yet.
PanelReceivesEnvelope ==
  LET e == Head(toPanel)
      effect == ReduceSessionStream(channel, e).effect
      applied == effect \in {"snapshot-applied", "resynced"}
      followed == applied \/ effect = "event-applied"
      asks == RequiresResync(effect) /\ resync.epoch # channel.epoch
      recovers == asks /\ ~channel'.sess.known
  IN
  /\ toPanel # <<>> /\ ~IsAnswer(e) /\ e.type # "hello"
  /\ toPanel' = Tail(toPanel)
  /\ Receive(e)
  /\ attached' = IF applied /\ recovery.epoch = e.epoch /\ recovery.answered THEN e.epoch ELSE attached
  /\ CASE recovers /\ recovery.epoch # channel.epoch -> BeginRecovery(presence) /\ UNCHANGED resync
       [] recovers /\ recovery.epoch = channel.epoch -> UNCHANGED <<recovery, resync, toWorker>>
       [] asks /\ ~recovers ->
            /\ CanCall
            /\ resync' = Cycle(channel.epoch, FreshCall)
            /\ Posts(toWorker, FreshCall, "resync", channel.epoch)
            /\ UNCHANGED recovery
       [] OTHER ->
            /\ recovery' = IF applied THEN SeenBy(recovery, e.epoch) ELSE recovery
            /\ resync' = IF applied THEN SeenBy(resync, e.epoch) ELSE resync
            /\ UNCHANGED toWorker
  /\ prompt' = IF followed THEN [prompt EXCEPT !.active = ActiveAfter(e)] ELSE prompt
  /\ UNCHANGED presence
  /\ PanelOnly

\* Mutant: the answer of a recovery is taken for its snapshot.
PanelReceivesAnswerTrusting ==
  LET a == Head(toPanel) IN
  /\ toPanel # <<>> /\ IsAnswer(a)
  /\ toPanel' = Tail(toPanel)
  /\ recovery' = IF recovery.id = a.call THEN NoCycle ELSE recovery
  /\ attached' = IF recovery.id = a.call /\ a.ok THEN recovery.epoch ELSE attached
  /\ resync' = AnsweredBy(resync, a)
  /\ prompt' = AnswersPrompt(a)
  /\ UNCHANGED <<vars, presence, toWorker>>
  /\ PanelOnly

PanelReceivesAnswer ==
  LET a == Head(toPanel) IN
  /\ toPanel # <<>> /\ IsAnswer(a)
  /\ toPanel' = Tail(toPanel)
  /\ recovery' = AnsweredBy(recovery, a)
  /\ attached' = IF recovery.id = a.call /\ a.ok /\ recovery.seen THEN recovery.epoch ELSE attached
  /\ resync' = AnsweredBy(resync, a)
  /\ prompt' = AnswersPrompt(a)
  /\ UNCHANGED <<vars, presence, toWorker>>
  /\ PanelOnly

RecoveryTimeout ==
  /\ recovery # NoCycle /\ Spends("timeouts")
  /\ recovery' = NoCycle
  /\ UNCHANGED <<vars, offscreenVars, workerVars, portVars, attached, presence, resync, prompt>>

\* The cycle is rejected and begun again.
ResyncTimeout ==
  /\ resync # NoCycle /\ port.state # "closed" /\ CanCall /\ Spends("timeouts")
  /\ resync' = Cycle(channel.epoch, FreshCall)
  /\ Posts(toWorker, FreshCall, "resync", channel.epoch)
  /\ UNCHANGED <<vars, offscreenVars, workerVars, port, toPanel, attached, presence, recovery, prompt>>

\* ensureConnected, before any operation of the user.
EnsureConnected ==
  /\ channel.epoch # NoEpoch /\ attached # channel.epoch /\ recovery = NoCycle
  /\ port.state # "closed"
  /\ BeginRecovery(presence)
  /\ UNCHANGED <<vars, toPanel, attached, presence, resync, prompt>>
  /\ PanelOnly

SendPrompt ==
  /\ channel.epoch # NoEpoch /\ attached = channel.epoch /\ port.state # "closed"
  /\ prompt = NoPrompt /\ CanCall /\ Spends("prompts")
  /\ prompt' = [id |-> FreshCall, abort |-> NoCall, active |-> "queued"]
  /\ Posts(toWorker, FreshCall, "prompt", channel.epoch)
  /\ UNCHANGED <<vars, offscreenVars, workerVars, port, toPanel, attached, presence, recovery, resync>>

AbortActive ==
  /\ prompt.active # "none" /\ prompt.abort = NoCall
  /\ attached = channel.epoch /\ port.state # "closed" /\ CanCall /\ Spends("aborts")
  /\ prompt' = [prompt EXCEPT !.abort = FreshCall]
  /\ Posts(toWorker, FreshCall, "abort", channel.epoch)
  /\ UNCHANGED <<vars, offscreenVars, workerVars, port, toPanel, attached, presence, recovery, resync>>

PanelReceives == PanelReceivesHello \/ PanelReceivesEnvelope \/ PanelReceivesAnswer

\* What the worker does of itself, and what it does for its port: at most one
\* step of each is possible at a time.
WorkerStarts == Initialize \/ RecoverAccepted \/ FinishRecovery
WorkerServes == BindRoute \/ FinishBind \/ ForwardRequest \/ Respond

RouteNext ==
  \/ AgentAnnounces \/ SaveCheckpoint \/ HandleCall \/ PromptSucceeds \/ PromptStops \/ OffscreenDies
  \/ RouteStream \/ WorkerStarts \/ WorkerServes
  \/ PortDrops \/ WorkerDies \/ Reconnect \/ ReopenPanel
  \/ PanelReceives \/ RecoveryTimeout \/ ResyncTimeout
  \/ EnsureConnected \/ SendPrompt \/ AbortActive

\* Each program goes on with what it has begun; users, agents, timeouts and
\* failures do as they like.
Fairness ==
  /\ WF_routeVars(HandleCall) /\ WF_routeVars(PromptStops)
  /\ WF_routeVars(RouteStream)
  /\ WF_routeVars(WorkerStarts) /\ WF_routeVars(WorkerServes)
  /\ WF_routeVars(Reconnect) /\ WF_routeVars(PanelReceives)

RouteSpec == RouteInit /\ [][RouteNext]_routeVars
LiveSpec == RouteSpec /\ Fairness /\ WF_routeVars(PromptSucceeds)
\* A prompt may also run for as long as it likes.
LongPromptSpec == RouteSpec /\ Fairness

-----------------------------------------------------------------------------
(* Properties *)

CallIds == 0..(MaxCalls + 2)
CallType ==
  [id : CallIds, epoch : {NoEpoch} \cup Epochs,
   op : {"connect", "attach", "load", "create", "resync", "prompt", "abort"}]
CycleType == [epoch : {NoEpoch} \cup Epochs, id : CallIds, answered : BOOLEAN, seen : BOOLEAN]
AnswerType == [type : {"answer"}, call : CallIds, ok : BOOLEAN]
IsEnvelope(m) ==
  /\ {"type", "epoch", "present", "rev", "seq", "body"} = DOMAIN m
  /\ m.type \in Types \cup {"hello"} /\ m.epoch \in Epochs /\ m.rev \in Nat /\ m.seq \in Nat
Deliverable(queue) == \A i \in DOMAIN queue : queue[i] \in AnswerType \/ IsEnvelope(queue[i])

\* Types; and a closed port holds nothing, an unbound one forwards nothing
\* (closeConnection, handleDisconnect).
RouteTypeOK ==
  /\ up \in BOOLEAN /\ accepted \in BOOLEAN
  /\ run \in [active : BOOLEAN, call : CallIds, stopping : BOOLEAN]
  /\ calls \subseteq CallType /\ replies \subseteq AnswerType
  /\ Deliverable(wire) /\ Deliverable(toPanel)
  /\ \A i \in DOMAIN toWorker : toWorker[i] \in CallType
  /\ worker.phase \in {"cold", "greeting", "recovering", "ready"}
  /\ port.state \in {"closed", "opened", "binding", "bound"} /\ port.busy \in CallIds
  /\ port.state = "closed" => port = ClosedPort /\ toWorker = <<>> /\ toPanel = <<>>
  /\ port.busy # NoCall => port.state = "bound"
  /\ attached \in {NoEpoch} \cup Epochs
  /\ presence \in [epoch : {NoEpoch} \cup Epochs, present : BOOLEAN, prior : BOOLEAN]
  /\ recovery \in CycleType /\ resync \in CycleType
  /\ prompt \in [id : CallIds, abort : CallIds, active : {"none", "queued", "running"}]
  /\ \A kind \in DOMAIN Budget : spent[kind] \in 0..Budget[kind]

\* What the panel awaits an answer to: its prompt, the abort of it, and the cycles that were
\* not answered yet.
Awaited ==
  ({prompt.id, prompt.abort} \cup {c.id : c \in {cycle \in {recovery, resync} : ~cycle.answered}})
  \ {NoCall}

\* Where a request of the panel is: on its port, forwarded from there, or answered.
Posted(id) == \E i \in DOMAIN toWorker : toWorker[i].id = id
AnswerIn(queue, id) == \E i \in DOMAIN queue : IsAnswer(queue[i]) /\ queue[i].call = id
AtDocument(id) ==
  up /\ ((\E c \in calls : c.id = id) \/ (run.active /\ run.call = id) \/ AnswerIn(wire, id))
Forwarded(id) == port.busy = id /\ (AtDocument(id) \/ \E r \in replies : r.call = id)

\* Nothing the panel awaits was forgotten: ports and messageTail, the document and its
\* streamTail hand each request on to its answer, whoever dies or restarts meanwhile.
AwaitedIsUnderWay == \A id \in Awaited : Posted(id) \/ Forwarded(id) \/ AnswerIn(toPanel, id)

\* The route is one of the deliveries RuntimeStream allows: whatever the port,
\* the worker and the document go through, the panel gets nothing but what the
\* host of some epoch sent, so all that holds there holds here.
RefinesStream == Spec

\* A client that considers itself attached has the session of the very epoch
\* it knows, from a snapshot, and nothing has made it stale since
\* (completeRecoveryIfReady, receive).
AttachedIsFresh ==
  attached # NoEpoch =>
    attached = channel.epoch /\ channel.sess.known /\ ~channel.sess.stale

\* Attached for good, at the end of the stream, with every message.
Settled ==
  attached = epoch /\ channel.sess.seq = Seq0 /\ ~channel.sess.stale /\ view = transcript

\* Once nothing fails any more, the panel settles.
PanelSettles == <>[]Settled

\* Ports may drop and the worker may die at any moment: a panel that was
\* attached once catches up with its session in the end, by itself
\* (scheduleReconnect, the hello that connect posts, recoverAfterHello,
\* requestResync).
PanelCatchesUp == <>(attached # NoEpoch) => <>[]Settled

\* An abort that the user asked for ends the prompt.
AbortEndsPrompt == prompt.abort # NoCall ~> prompt.abort = NoCall
=============================================================================
