# Verification of shuvgeist

shuvgeist is a browser agent: an MV3 extension whose agent sessions live in an
offscreen document, a bridge server to which extensions and command lines
connect, a page driver over the Chrome DevTools protocol, and a CLI. This
directory holds TLA+ models of it, the TLC configurations that check them, and
theorems about them that TLAPS proves. Every definition is translated from the
TypeScript source; `PROJECT.json` names its lines ("map").

Paths below are relative to `src/packages/`; `agent/` and `bridge/` are those of
`extension/src/`.

**Contents**: [1 Inventory](#1-inventory) · [2 Plan](#2-plan) ·
[3 Modules and code](#3-modules-and-code) · [4 Runs](#4-runs) ·
[5 Bounds](#5-bounds) · [6 Fairness](#6-fairness) · [7 Proofs](#7-proofs) ·
[8 Findings](#8-findings) · [9 What is left out](#9-what-is-left-out)

## 1 Inventory

### 1.1 The agent runtime

```
 side panel                service worker             offscreen document
 RemoteSessionClient       AgentRuntimeCoordinator    OffscreenRuntimeController
   |  channel reducer        |  accepted descriptors    |  streamTail, checkpoint
   |  recovery, resync       |  cached hellos           v
   v                         |                        OffscreenRuntimeHost
 ChromeRuntimeSession  port  |  one message each way      |  sessions, ledger
 Transport       ----------> | ----------------------->   |  mutation queues
                 <---------- | <-----------------------   v
                                                      adapters, tools
```

| Part | State | Operations | Hard | Correct when |
|---|---|---|---|---|
| **Host and ledger** `agent/offscreen-runtime-host.ts`, `runtime-channel.ts` | request ledger, promise per request, replay window, session records with a mutation tail, running executions, acquisition turns | admit, create, load, attach, resync, prompt, repl, page operation, mutations, release, abort, dispose, export and restore | every await lets another request in; abort against start and end; release against execution; eviction against retry; disposal against acquisition | one prompt per session; no busy flag without a prompt; a retry finds its first attempt; an abort that was acknowledged wins; everything is answered |
| **Runtime stream** (host, `runtime-channel.ts`, `remote-session-client.ts`) | revision and sequence number, per panel: epoch, cursor, freshness, fingerprint | announce, snapshot, hello, reduce | loss, repetition, reordering, envelopes of an earlier document | a fresh panel shows exactly one position of the stream; revisions never fall; a snapshot cures |
| **Remote session client** `agent/remote-session-client.ts` | attached epoch, recovery and resync cycles, active prompt, pending calls | hello, attach/load/create, resync, prompt, abort, steer | an answer and its snapshot arrive separately; every step may time out or lose its port | attached means fresh; a panel ends attached |
| **Transport** `agent/chrome-runtime-session-transport.ts` | port, handshake, requests in flight, relay | connect, send, drop, reconnect | a drop in any state; a retry of what was posted | nothing is sent twice; nobody waits for a dead port |
| **Coordinator** `bridge/agent-runtime-coordinator.ts` | initialization, accepted descriptors (durable), active routes, cached hellos, message tail per port | initialize, recover, connect, forward, route, switch, release | the worker dies at any await; the document dies under it; two ports for one route | a route has one port; the port hears its own session in order |
| **Controller** `agent/offscreen-runtime-controller.ts` | host, stream tail, checkpoint timer and generation | connect, forward, publish, checkpoint, restore | checkpoint against mutations; restart before the first one | an answer follows what it announces; a checkpoint is a state the host was in |
| **Window authority** `agent/sidepanel-window-authority.ts` | per window: pending and active lease, tokens, sequence; persisted | open, claim, continue, release | each step is staged, saved, then activated; crash between any two; overlapping opens | at most one current lease per window, a revoked one never current again |
| **Page controller, authorization, navigation** `bridge/agent-runtime-page-*.ts`, `agent-runtime-navigation.ts` | running and completed page operations, tail per window | execute, cancel, replay, steer after navigation | cancel against completion; a repeated operation id | an operation runs once; a cancelled one does not report success |
| **Sessions and tools** `agent/offscreen-agent-session.ts`, `offscreen-tool-environment.ts` | agent state, saved transcript | prompt, steer, save, dispose | saves queue behind each other | what is saved is a prefix of the transcript |
| **Wire protocol** `agent/runtime-protocol.ts` | none | validation | - | - |
| **Background worker, side panel UI** `background.ts`, `sidepanel.ts` | wiring; the table of session locks in storage | route Chrome's events; take, move and free locks | the table is read and written an await apart | a session is shown in one window |

The panel calls the worker by port messages, the worker the document by
`runtime.sendMessage` with an answer; the document sends streams back by
messages of its own. The only durable state is the list of accepted
descriptors, the leases (session storage), checkpoints and saved sessions.

### 1.2 The bridge

| Part | State | Operations | Hard | Correct when |
|---|---|---|---|---|
| **Extension client** `bridge/extension-client.ts` | socket, reconnect timer, pending aborts | connect, register, handle a request, abort, respond | a request outlives its socket | an answer goes to the server that asked |
| **Bridge server** `server/src/server.ts`, `request-handler.ts`, `session-registry.ts`, `task-registry.ts`, `per-handle-write-lock.ts` | clients, target handles, pending relays, tasks, recording leases, writer lease per handle | register, replace, plan, relay, answer, abort, disconnect | replacement against pending relays; lease against session change | every request is answered once; a lease has a live holder |
| **Command executor, driver registry** `bridge/browser-command-executor.ts`, `chrome-page-driver-registry.ts` | drivers by tab, generations | resolve, release, dispose, navigate, refs | a driver replaced while it is being made | a command runs on the driver of its tab |
| **Handoff** `bridge/handoff-coordinator.ts` | records with timer and promises | start, acknowledge, finish, time out, revoke | timeout, abort, navigation and answer race | exactly one of them decides |
| **Journal, snapshots** `server/src/operation-journal.ts`, `page-snapshot-store.ts` | append queue, files; bounded records | append, prune, read | read-modify-write of a file | no record is lost |
| **Electron sessions** `server/src/electron/*` | sessions, page drivers, taps, child processes | launch, attach, windows, detach | detach while a connection is made | a detached session leaves no driver |
| **CLI** `cli/src/bridge-autostart.ts`, `launcher.ts`, `headless/*` | start lock file, pid file | probe, lock, start, wait | two starts, a crash under the lock | one server is started; a crash blocks nobody for ever |
| **MCP, prototypes, protocol, proxy, site** | sessions and reservations (prototype only) | adapters, schemas | - | - |

### 1.3 Driver, tools, media

| Part | State | Operations | Hard | Correct when |
|---|---|---|---|---|
| **Page driver** `driver/src/page-*.ts` | refs, captures, screencast, CDP connection | snapshot, act on a ref, start/stop capture, dispose | stop while start is pending; events of an old capture | a stale ref is refused; stop ends what start began |
| **Debugger manager** `tools/helpers/debugger-manager.ts` | per tab: references, owners, serial | acquire, release, detach by the user | state read before its turn | attached exactly while somebody holds it |
| **Tab recording** `recording/*.ts`, `cli/src/cli.ts` | recordings by tab and id in the worker, recorders and queued chunks in the document, file of the CLI | start, chunk, stop, fail, recover | two starts; stop against failure; chunks before the answer; a worker or socket that goes | a complete file has every chunk; a tab is refused only while it is recorded; everybody hears the end |
| **Workflow engine** `tools/workflow-engine.ts` | captures, results, budgets | steps, loops, retries, abort | - | bounded |
| **Speech** `tts/*.ts` | playback, reading sessions, overlay | plan, play, stop, detach | detach while a session is being read | one session per tab |
| **Storage, OAuth, dialogs; data functions of the driver** | IndexedDB, forms, strings | - | - | - |

`PROJECT.json` lists every part with its status, and under "hazards" the places
where this code is hard to test; those without a property say why.

## 2 Plan

Modules are written in the order in which a mistake would cost a user work, or leave
something running that nobody can stop.

| Module | Component | Composes | Questions | State |
|---|---|---|---|---|
| `OffscreenRuntimeHost` | host and ledger | - | one prompt, retries, aborts, waits, disposal | checked, proved |
| `RuntimeChannel`, `RuntimeStream` | reducer; stream and panel under the weakest delivery | the second uses the reducer | what a panel may believe | checked, proved |
| `SessionRoute` | client, transport, worker, controller | conjoins the actions of `RuntimeStream` and implements it | attached means fresh, a panel catches up | checked, proved |
| `Checkpoints` | controller, host and worker: marks, flushes, saves, restores | - | a checkpoint is a state the host was in; what is quiet is saved | checked, proved |
| `RuntimeRoutes` | coordinator: ports, lock, bind, replace, release, registry | - | a port speaks for the session of its window | checked, proved |
| `SidepanelAuthority`, `LeaseRegister` | leases of windows | the first implements the second | a lease counts once; a panel gets in | checked, proved |
| `SessionLocks` | the worker's table of sessions and windows | - | one window per session | checked, proved |
| `Bridge` | server, extension client, CLIs and an MCP client | - | answers, writers, recordings of one window | checked, proved |
| `BridgeStart` | start of the bridge by several commands | - | one token, a lock that is let go | checked, proved |
| `TabDebugger` | debugger manager, CDP session, drivers, registry, tools | - | attached while held; stale references | checked, proved |
| `PageScreencast`, `PageNetwork` | two engines of the page driver | - | a stop ends what a start began; bytes counted are bytes kept | checked, proved |
| `TabRecording` | CLI, worker and document of a tab capture | - | whole files, nobody blocked, an end for everybody | checked, proved |
| `Handoff` | handoffs to a human | - | one outcome, no overlay left | checked, proved |
| `ElectronSessions` | sessions with a desktop app and the drivers of its window | - | no connection is left to a window of a session that has moved on | checked, proved |
| `PageOperations` | calls of the document, admission and cancellation in the worker, its page controller | - | nothing acts on a page for nobody | checked, proved |
| `TransportPort` | handshake, retry and facade of the page's transport | port of `SessionRoute` as abstract specification | nothing posted twice, nobody waits on a closed port | to come |
| `OperationJournal` | the journal's file | - | append and prune are read, change and write of a file; only the appends of one process queue (`server/src/operation-journal.ts:81`) | to come |
| speech, workflow | playback of a tab's reading sessions; bounded steps | - | one session per tab; a stop ends the steps | to come |

Theorems that may come next: those of the modules to come, and the other half of
`PanelCatchesUp` (section 7).

## 3 Modules and code

In all modules **an action is the code between two awaits**: JavaScript interleaves
exactly there. A promise that settles and its continuation are two actions when something
can come between them. Mutants (plausible mistakes, see section 4) stand next to what they
change and are marked as such.

### 3.1 `OffscreenRuntimeHost`

One session key of `offscreen-runtime-host.ts`, with the ledger of `runtime-channel.ts`.

| State | In the code |
|---|---|
| `ledger` | `RuntimeRequestLedger` records of the key, `"absent"` when not retained |
| `pc`, `rec`, `waitFor` | where `process...` of a request awaits, the `HostSessionRecord` it captured, what `mutationTail` it awaits |
| `aborted`, `verdict` | `AbortController`s that fired; what `ledger.cancel` said to an abort |
| `answer` | the response |
| `completed` | `completedRequestKeys`, the replay window |
| `published`, `born`, `live`, `acquiring` | `sessions`, records made so far, adapters not disposed, `sessionAcquisitions` |
| `prompt`, `active`, `tail`, `rev` | of each record: `activePromptExecutionId`, `activeExecutions`, `mutationTail`, `revision` |
| `disposal` | `disposePromise` and the phases of `performDispose` |

| Actions | In the code |
|---|---|
| `Handle`, `RefuseAtStart`, `CancelledBeforePreflight` | `handleRequest`, admission, the checks at the start of `processRequest` |
| `StartRead`, `Read` | attach and resync behind the tail |
| `StartAcquisition`, `TakeTurn`, `Publish`, `AcquisitionFails` | create and load: turn, factory, publication or disposal of what came too late |
| `StartMutation`, `ApplyMutation`, `EndMutation`, `AgentEvent`, `DeliverEvent` | `enqueueMutation` and its users, `onAgentEvent` |
| `StartExecution`, `Prepared`, `ApplyPreparation`, `EndPreparation`, `Prompted`, `CommitPrompt`, `TaskReturns`, `CompleteExecution`, `RejectBusyPrompt` | prompt, repl and page operations |
| `StartRelease`, `RemoveSession`, `ReleaseFails`, `Released` | release, forced or not |
| `HandleAbort`, `ProcessCancellation`, `AbortReturns` | abort: ledger at once, effect after a microtask, adapter after that |
| `Dispose`, `FinishDispose` | `performDispose`, synchronous part and after the acquisitions |

### 3.2 `RuntimeChannel`, `RuntimeStream`

`RuntimeChannel` is the pure reducer (`reduceHello`, `reduceSessionStream`,
`applySnapshot`) as operators. `RuntimeStream` has the host's side as far as a
stream shows it (revision, transcript, the tail, checkpoint and restart) and the
panel's (channel and transcript). Between them is the weakest delivery there is:
any envelope ever sent may arrive at any time, any number of times, in any order
or never. `sent[ep]` is the stream of the document `ep`; an envelope's position is
its `eventSeq`. The field `replay` of an entry is not sent; it says what a panel that
missed nothing would show at that position.

### 3.3 `SessionRoute`

The route a user's panel has. Its actions conjoin an action of `RuntimeStream`
(what the step does to host or panel) with what the step does to the route.

| State | In the code |
|---|---|
| `up`, `run`, `calls`, `wire` | the offscreen document: alive, its prompt, requests it handles, the controller's `streamTail` |
| `worker`, `accepted`, `replies` | coordinator: `ensureInitialized` and `latestHellos`; the descriptor in storage; answers arrived |
| `port`, `toWorker`, `toPanel` | one connection: its state on both sides, `messageTail`, what is posted |
| `attached`, `presence`, `recovery`, `resync`, `prompt` | `RemoteSessionClient`: `attachedEpoch`, `helloSessionPresence`, the two cycles, the pending prompt and abort |

Requests at the document are a set, since the host's handlers interleave freely;
the port and the stream are queues, since Chrome keeps the order of a port and the
controller chains its sends. `PortDrops`, `WorkerDies` and `OffscreenDies` may
strike at any moment the bounds leave. Answers whose caller is gone are forgotten
by `Forget`, as the browser does.

### 3.4 `Checkpoints`

How a session outlives its document: the controller marks what changes, a timer or a
request flushes it, the worker saves it and gives it to the next document.

| State | In the code |
|---|---|
| `host`, `pending` | what `exportState` would return (content, revision, answers kept); `pendingMutationCount` |
| `streamTail`, `returning` | the controller's `streamTail`; requests whose answer awaits an envelope |
| `dirty`, `generation`, `timer`, `flushes`, `flushing` | `checkpointDirty`, its generation and timer, `checkpointTail` |
| `runtime`, `initialization`, `loaded` | the document; `ensureInitialized` of the worker and the checkpoint it sends |
| `saving`, `stored` | the write under way; `chrome.storage.session` |

| Actions | In the code |
|---|---|
| `Opens`, `AgentChanges`, `Announces`, `HostAnswers` | the host: the agent changes at once, the announcement comes behind the mutation queue |
| `StreamDelivers`, `Returns` | the controller's stream, and the answer that awaited it |
| `TimerFires`, `Flushes`, `FlushSends`, `FlushEnds`, `Saves` | `flushCheckpoint`: export, send, save by the worker, end with the generation compared |
| `Ensures`, `Loads`, `Initialized`, `RestoreBegins`, `Restored`, `RestoreFails` | `ensureInitialized`, `init`, `restoreState` |
| `WorkerEnds`, `DocumentEnds` | either dies, at any moment |

### 3.5 `RuntimeRoutes`

Which session one window has. Panels connect and speak; the worker binds, replaces and
releases under the route's lock; a panel's own release does without that lock.

| State | In the code |
|---|---|
| `worker`, `hosted` | the worker's life; sessions the host has for this window |
| `accepted`, `latestHello`, `activePort` | `acceptedDescriptors`, `latestHellos`, `activeRoutes` |
| `ports`, `lease` | connections with the request in hand; the lease that is current |
| `holder`, `waiting`, `jobs` | the route's lock, its queue, jobs begun |
| `creating` | create requests of `requestSession` under way |
| `registry`, `updates`, `asked` | the stored descriptor and the chain of its writes |

| Actions | In the code |
|---|---|
| `PortOpens`, `PortCloses`, `PortAsks`, `PortRequests`, `HostServes`, `PortAnswered`, `NewDocument` | a panel's port and its requests, release included |
| `Asks`, `Takes` | a caller enters the queue of the lock, and gets it |
| `ConnectBegins`, `ConnectFenced`, `ConnectGreeted`, `ConnectThrows`, `ConnectPersists`, `ConnectFails`, `ConnectAccepts` | `connect`, await by await |
| `JobBegins`, `JobGreets`, `HostReleases`, `JobForgets`, `JobRebinds`, `JobPersists`, `JobAccepts`, `JobBound`, `JobFails` | `bindSession`, `replaceSession`, `releaseWindow` |
| `Creates`, `HostCreates`, `RegistryWrites`, `WorkerStops`, `WorkerStarts` | creation, the durable registry, ends of the worker |

### 3.6 `SidepanelAuthority`, `LeaseRegister`

`SidepanelAuthority` is the authority with the panels that ask it: opened, pending and
active records, in memory and on disk. `LeaseRegister` is what it promises: a window has one
lease, a lease one window and one document, and one that was withdrawn never counts again.
`LeasesCountOnce` states that the first implements the second; what counts is what a
worker that starts now would read.

| State | In the code |
|---|---|
| `windows`, `disk`, `pendingCreatedThisWorker` | the records, as the worker has them and as they are stored |
| `queue`, `work` | the chain of operations; how far the first one is |
| `events`, `tainted` | `onOpened` events under way; `openedEventOverlapTainted` |
| `poisoned` | the authority after a save that failed |
| `panel`, `document`, `doc` | what the user did, and the start of each document in `sidepanel.ts` |
| `granted`, `refused`, `muddled` | history |

| Actions | In the code |
|---|---|
| `PanelOpens`, `PanelReloads`, `PanelCloses`, `WindowRemoved`, `DocumentAppears` | Chrome and the user |
| `SeesContexts`, `Deletes`, `Binds`, `Prepares`, `Confirms`, `Admits`, `Settles` | the steps of an operation: the contexts it reads, the stage it moves, its answer |
| `Saves`, `SaveFails`, `Throws`, `WorkerEnds` | the save between change and answer, and what may go wrong there |
| `DocumentAsks`, `ProofDropped` | a document asks for the next stage, or drops a proof that was refused |

### 3.7 `SessionLocks`

`sessionLocks` in storage, changed by tasks that read the whole table and later write
it (`ReadsLocks`, `WritesLocks`): `AcquiresLock` (`acquireLock`), `ReplacesSessionLock`
(`newSession`), `ClosesSidepanel` and `RemovesWindow`. `shown` is what each panel was
told; `crossed` remembers whether two tasks ever overlapped.

### 3.8 `Bridge`

A server, the extension clients of the windows, CLIs, and an MCP client, which shares a
connection among its users.

| State | In the code |
|---|---|
| `sock`, `toServer`, `toExt` | web sockets with what is on the way |
| `handle`, `handleOrder`, `activeKey` | `SessionRegistry` |
| `lock`, `lockSession`, `leases` | `PerHandleWriteLock`: its holder and the session it named; leases of recordings |
| `outlived` | (ghost) the writes that were pending when a change of session released their lock |
| `pending`, `nextRelay` | `pendingRequests`, the ids of relayed requests |
| `client`, `running`, `recordings`, `changes` | `BridgeClient` of each window: its socket, its commands, its recordings; the changes of session told so far |
| `cli`, `answer`, `serverLives` | callers and what they were answered; how often the server started |

| Actions | In the code |
|---|---|
| `ClientConnects`, `ClientCloses`, `CloseFrame`, `ExtensionDisconnected` | sockets: opened, closed by the client, noticed by the server |
| `ServerReceives` (`HandleRegistration`, `HandleResponse`, `HandleFinal`, `HandleSessionChanged`) | a message of an extension |
| `CliRequest`, `CliDisconnects` | planning with lock and lease; what is released when a caller goes |
| `WindowReceives`, `RecordingBegins`, `RecordingEnds`, `CommandEnds` | the extension's handling of requests and aborts |
| `SessionChanges` | an extension tells another session (external: see below) |
| `ServerRestarts` | everything in memory is lost |

`session_changed` is declared in `protocol.ts:183`, handled by the server (`server.ts:1847`) and sent by
its tests (`tests/integration/bridge/server.test.ts`), but no code of the extension sends it at this commit. The model
lets any window tell any session at any time, and the server releases the lock of a holder that
named another session.

### 3.9 `BridgeStart`

`ensureBridgeServer` of `cli/src/bridge-autostart.ts`, by several commands at once, while
bridges end, commands are killed, and somebody serves one by hand. `starter` is where a
command is, `startLock` the lock file, `fileToken` the token in the configuration,
`bridge` the servers. `Looks`, `Probes`, `Competes`, `Resolves`, `Checks`, `Spawns`, `Waits` are the steps
of a command; `StarterKilled`, `Listens`, `BridgeEnds`, `ServesByHand`, `LockRemoved` are the world's.

### 3.10 `TabDebugger`, `PageScreencast`, `PageNetwork`

`TabDebugger`: `table`, `records`, `refCount`, `owners`, `serial`, `enabled` are
`DebuggerManager`; `turn` and `record` where each user awaits and what it captured;
`depth`, `tracking`, `generation` are `ChromeDebuggerSession`; `driver`, `entry`,
`watch`, `eval`, `ref` the drivers, the registry and a snapshot. Users are the drivers for their
lifetimes, one evaluation at a time, and tools that ask the manager themselves (device presets, screenshots,
performance, or a session of their own). What else uses the session of the tab
(trusted input, the screencast) acquires and releases as the evaluation does. A driver may be made while
the one before it still lets go: nothing in `createEntry` waits. Actions: `MakeDriver`,
`AcquireHeld`, `AcquireFirst`, `Attached`, `AttachFails`, `EnablePage`, `EnableFails`,
`ReleaseEntry`, `ReleaseLifetime`, `ReleaseNothing`, `ReleaseHeld`, `Detached`,
`ToolAsks`, `ToolEnablesPage`, `ToolDone`, `StartEvaluation`, `Evaluated`, `Remember`, `Navigate`,
`BrowserDetaches`.

`PageScreencast` is one recording after the other of `page-screencast-engine.ts`: three
commands to begin (`CastStart`, `CastAcquired`, `PageEnabled`, `CastBegun`), two to end
(`CastEnded`, `CastFinished`), and stop, disposal, a closed transport, frames and their
acknowledgement between any two.

`PageNetwork` is `page-network-engine.ts`: capture life cycles numbered by epoch
(`NetStart`, `NetAcquired`, `NetEnabled`, `NetStartFailed`, `NetStop`, `NetStopResumes`,
`NetStopped`, `NetDispose`, `NetTransportCloses`) and the bounded log they fill (`NetRequest`,
`NetFinish`, `NetBody`, `NetClear`).

### 3.11 `TabRecording`

`record start --mode tab-capture`, from the CLI through the worker to the media recorder
in the offscreen document, and back.

| State | In the code |
|---|---|
| `cliStep`, `adopted`, `received`, `artifact`, `mixed` | the CLI: its request, the recording it took for its own, its chunks and file |
| `link` | the window's socket: open, dead or closed |
| `startStep`, `byTab`, `byId`, `stopStep` | `ChromeTabCaptureRecorder` in the worker |
| `tape` | the document's recording: phase, chunks queued and next, what the worker was told |
| `partings`, `swallowed` | losses so far; recordings whose end was sent into a lost socket |

| Actions | In the code |
|---|---|
| `RecordAsks`, `StartSends`, `DocumentStarts`, `StartAnswered`, `StartEnds` | a start, await by await |
| `ChunkRecorded`, `ChunkSent`, `RecorderEnds`, `EndTaken`, `Completes`, `CompletesAgain` | chunks and the end, in the order the document sends them |
| `StopAsked`, `StopRecovers`, `StopRequests` | a stop, which may have to recover the recorder's state first |
| `CliLeaves`, `LinkDies`, `SocketLost`, `SocketReturns`, `RecordingWorkerEnds`, `RecorderDisposed` | who parts, and when |

### 3.12 `Handoff`

`handRecord` and `told` are `HandoffCoordinator` (how far a handoff is, what its listeners were told),
`stage`, `handed`, `cut`, `answered` the command that started it (`cut`: it was aborted); `overlay`,
`said`, `frameGeneration` the page. Actions: `HandStart`, `HandShown`, `HandBegan`, `HandClicked`,
`HandPrepared`, `HandEnded`, `HandRemoved`, `HandTimesOut`, `HandAborted`, `AcceptPageEvent`, `HumanBegins`,
`HumanCancels`, `FrameNavigates`, `WorkerRestarts`.

### 3.13 `ElectronSessions`

| State | In the code |
|---|---|
| `app` | the desktop app outside: its generation (process and browser endpoint), whether it runs, its window |
| `electron` | `ElectronSessionStore`: stage, generation, window as last listed, launched or attached |
| `pageDrivers`, `pageEntry` | `ElectronSessionManager.pageDrivers`, and every entry that was ever in it: connecting, opening, ready, closing, over |
| `use` | a command: kind, the await it is at, its session, what it saw, its entry |

| Actions | In the code |
|---|---|
| `AppEnds`, `AppStarts`, `WindowChanges` | outside |
| `AttachBegins`, `AttachVerified`, `LaunchBegins`, `Launched` | `attach`, `launch`, which also go on with the next row |
| `UseBegins`, `Validates`, `Lists`, `Revalidates`, `StatusTimesOut`, `UseReturns` | `revalidateSession`, `refreshWindows`, `updateWindowsFromTargets`, `pageDriverFor`, `status` |
| `Connects`, `Readies`, `Closes`, `TransportCloses` | `connectPage`, `driver.ready`, disposal, the close of the socket |
| `Detaches` | `detach`, and the exit of an app that was launched |

### 3.14 `PageOperations`

| State | In the code |
|---|---|
| `execution`, `pageCall` | the document: executions of a session, `pendingPageOperations` |
| `toWorker` | messages and answers of the document on their way to the worker, in order |
| `pageWorker`, `awaiting` | whether the worker runs and is initialized; controls that await `ensureInitialized` |
| `forwarding`, `shown`, `sessionKnown` | what admits a control: `activeExecutionRequests`, the latest snapshot, `acceptedDescriptors` and `latestHellos` |
| `delegate`, `signalled` | `AgentRuntimePageController.activeOperations` and their signals |

| Actions | In the code |
|---|---|
| `CallMade`, `CallSent`, `CallAnswered` | `executePageOperation`, its dispatch a microtask later, its answer |
| `ExecutionBegins`, `ExecutionAborted`, `ExecutionEnds`, `SessionReleased`, `SnapshotSent` | what happens to the execution that owns a call |
| `MessageTaken`, `AwaitingHandled` | `handleOffscreenMessage`, `handleAuthorizedPageControl`, `routeStream` |
| `DelegateGoesOn`, `DelegateEnds` | `executeDelegate`, `execute` |
| `WorkerDies`, `WorkerWakes` | the worker ends; any event starts it, and it recovers |

### 3.15 Composites

`MCRuntimeStream`, `MCTabServices` and `MCCoordination` put models that share no state
into one instance: a variable (`part`, `service`, `subject`) is chosen at the start and never
changes, so a behaviour is one of any of the models and their interleavings, which would
show nothing, are not explored.

## 4 Runs

`CHECK_DEADLOCK FALSE` everywhere: the bounds end the inputs, and then a system
that has answered everything rightly stops.

| Run | States | Shows |
|---|---|---|
| `host_prompts` | 0.5 M | Two prompts, an abort with a retry, two replaces and an agent event on one session, with a replay window of two |
| `host_waiting` | 0.02 M | Turns, tail, forced release, abort and disposal wait for one another |
| `host_release` | - | `UnforcedReleaseSparesWork` is violated (section 8) |
| `session_parts` | 1.5 M | The stream over two documents, the second from any checkpoint of the first, hellos and envelopes delivered anyhow; the checkpoints; the route of a window with two ports; operations on pages |
| `route_settles` | 0.5 M | A port drops, the worker dies, a prompt runs: under `LiveSpec` the panel catches up |
| `route_safe` | 0.6 M | Worker and document die, the panel is reopened, a cycle times out, a prompt is aborted; `RefinesStream` |
| `route_reopen`, `route_abort` | - | `PanelSettles` and `AbortEndsPrompt` are violated (section 8) |
| `tab_services` | 0.4 M | Debugger, screencast, tab recording, network capture or handoffs of one tab |
| `coordination` | 0.3 M | Bridge, start of the bridge, leases, locks or sessions with a desktop app |
| `bridge_orphan`, `locks` | - | `NoOrphanRecording` and `OneWindowPerSession` are violated (section 8) |

What the properties say, by run:

- `host_prompts`. `OnePromptPerSession`, `NoStaleBusyFlag`: whatever path a prompt takes, at
  most one is in progress on a session record, and a busy flag has an owner that will free
  it. `RetryFindsFirstAttempt`: a request the ledger retains is in flight or can be
  replayed. `AcknowledgedAbortWins`: an abort that is acknowledged as requested has signalled an
  attempt still in progress, and an attempt that was signalled settles without success. `ReplaceIsCompareAndSwap`: check and increment are an await apart,
  and still one. (`TypeOK` is proved, section 7.)
- `host_waiting`. `ShutdownHoldsNothing`: no factory result outlives disposal.
  `EveryRequestAnswered`: nobody waits for ever.
- `session_parts`. `ViewFollowsStream`, `TranscriptMatches`, `RevisionNeverRegresses`:
  a panel that does not know better shows a state the session had, each message once, never an
  older revision. `CheckpointIsWhole`: what is
  stored holds every change its revision counts, and no other. `QuietIsSaved`: when nothing is
  left to do, the last change is stored. `ConnectedIsOwned`: a connected port is the route's
  only one and its session the window's. `RegistryIsAccepted`: what a new worker will read is
  what the old one had accepted. `ActsForSomebody`: an operation that acts on a page has a caller
  that waits, or a cancellation that has come or will come and will be admitted.
- `route_settles`, `route_safe`. `PanelCatchesUp`, `AttachedIsFresh`: the client's idea of
  being attached is right, and it gets there by itself after drops and deaths.
- `tab_services`. `AttachedWhileHeld`: however drivers and tools overlap, whoever holds Chrome's
  debugger has it, and it is attached for somebody. `FreshUntilDetached`: a reference that may be used was
  taken from the document that is current. `LetsGo`: a registry without a driver ends without a
  debugger. The last two except what section 8 says of deleted records.
  `OverHoldsNothing`, `StopSettles`: a screencast that is over has ended what it began,
  and every stop is over some time. `CaptureHolds`, `StoredBytesFit`: the same of captures, and
  their bytes. `ArtifactWhole`: a file that is called complete is. `BlockedWhileRecorded`: a tab is
  refused only while it is recorded. `RecordStartEnds`: the CLI gets its summary or an
  error. `OneOutcome`, `OverlayGoesWithCommand`: a handoff ends once, and nothing of it stays
  in the page.
- `coordination`. `OwnAnswersOneServer`: an answer is that of its request.
  `WritersExclude`: two callers never write at once over one connection, unless a change of
  session took the lock of one (`outlived`). `RequestSettles`,
  `LeaseStopsRecording`: a request is answered, a recording ends with its CLI.
  `ConnectionFits`, `StartLockFreed`: the commands agree with the bridge on its token,
  and a lock stays only when its holder was killed. `LeasesCountOnce` (3.6),
  `PanelAdmitted`: a panel that is bound gets in. `LocksHoldInTurn`: a session is shown in one
  window, as long as tasks do not overlap. `ConnectionsOwned`: an open connection to a window
  of a desktop app is the one its session has cached, for the window it knows, whatever was
  detached, ended or replaced while it was made.

Several properties name what the code does not promise, each by a history variable or a
guard with that name: a restarted server (`serverLives`), a killed starter or a bridge served by hand
(`byHand`), an opening the authority refused (`refused`) or could not tell from another
(`muddled`), a change of session (`outlived`), overlapping tasks (`crossed`), messages that were mixed up or swallowed (`mixed`,
`swallowed`), a session detached under a command that looked at its app (`late`), a holder
at a deleted record (`Orphans`). Section 8 says what happens in those cases.

Every property of a passing run has a mutant in `PROJECT.json`: a changed definition, as
a plausible mistake in that code would change it, that violates it.

## 5 Bounds

| Instance | Bounds | Why enough |
|---|---|---|
| host | 4 inputs (waiting: 3); the catalogues in `MCOffscreenRuntimeHost`; a replay window of 2 (prompts) or 6 | Every property relates at most two requests, an abort and one other user of the queue; a circle of waiting needs three; with a window of two, the third settled request evicts, so an attempt, its eviction and its retry fit |
| stream | 2 documents, 2 hellos, 5 envelopes of both documents together, hellos included, at most 3 of a stream; 1 mutation | A panel is wrong by a gap, a repetition or an envelope of another epoch: three positions and two epochs have all of them. With two hellos the panel moves from the first document to the second, is shown an older revision there, refuses it and comes to a newer one: three envelopes of the two streams are enough for that. With one hello there are four. The theorems remove the bounds |
| checkpoints | 3 changes, 2 failures | One change saved, one being saved, one after it; a failure while the other is being cured. The theorems remove the bounds |
| window's route | 2 sessions, 2 ports, 1 job, 4 writes of the registry, 1 mishap | A stale port, the new one and a job are the three that contend; a replace needs both sessions. The theorems remove the bounds |
| operations on pages | 2 executions, 1 call, 1 snapshot, 1 end of the worker | A call of one execution while the other comes and goes. The theorem removes the bounds |
| route, settling | 1 document, 10 envelopes, 9 hellos, 4 calls, 2 messages, 1 drop, 1 death of the worker, 1 prompt | A prompt emits 4 envelopes, each attach or resync a snapshot: the stream never fills while the client still needs it, so no behaviour ends because of the bound |
| route, safety | 2 documents, 6 envelopes each, 1 each of deaths, reopenings, timeouts, prompts, aborts; `MaxUpsets`: two of the first three in one behaviour | Any two failures, in every order, with room for a prompt that is stopped after a reconnection; the theorems remove the bounds |
| debugger | 2 drivers, 1 evaluation, 1 tool that uses it once, 1 navigation, 1 detach | A driver, its successor that overlaps it, an evaluation and a tool are the four who may hold; every order of their turns, on the tab's record or on a deleted one, occurs; `TabRecords` bounds the records the manager makes of a tab. The theorems remove the bounds |
| screencast, network | 2 recordings, 2 frames; 2 ids, 1 kept, 2 epochs, 2 requests | The old and the new one; one entry kept, so that the second evicts; two epochs, so that a capture stops while the next begins. The theorems remove the bounds |
| tab recording | 2 recordings of one tab, 1 chunk each before the last, 1 stop, 1 parting | A tab is contended by two; a chunk is lost, early or doubled when it is the only one; one loss, at every moment. The theorems remove the bounds |
| handoff | 2 handoffs, 1 navigation | The second may take the first's overlay or record. The theorems remove the bounds |
| bridge | 1 window, two CLIs and an MCP client, 2 of 3 requests, 2 sockets, 1 upset | A connection and its successor, two callers that contend; an upset is a cut, a departure, a restart or a change of session between two, at every moment; `MaxUpsets` counts them together, so that a lost connection and a change of session do not meet in the run (with both, TLC found no error in 0.7 million states). The theorems remove the bounds, and combine them |
| start | 2 commands, 3 bridges, 1 mishap | Two contend for the lock; one bridge each and one served by hand. The theorems remove the bounds |
| leases | 2 windows, 2 documents, 2 upsets, contexts without a window | A panel and its successor, or two panels at once; an end of the worker and a failed save. The theorems remove the bounds |
| electron | 2 commands at a time, 4 begun, 2 sessions, 3 drivers, 1 change of the app | An attach, a detach and two commands of one window cross; a driver, its successor and one more. The theorems remove the bounds |
| locks | 2 windows, 2 sessions, 3 tasks | Two tasks that cross and a third that meets what they left. The theorems remove the bounds |

Named bounds only cut behaviours off: no property depends on one. The
leases keep a document in reserve for each panel that has none (`Spare`), so that no
panel is left without one for lack of numbers.

## 6 Fairness

- Host: `WF` of `Progress(r)` for each request, of `DeliverEvent` and of
  `FinishDispose`. Promises settle (either way) and their continuations run; the event
  loop starves nobody. No request, event or disposal is forced.
- Route: `WF` of what each program does by itself: the document handles calls
  and ends a prompt that was told to stop, the controller sends what is in its
  tail, the worker initializes, recovers, binds, forwards and responds, the
  transport reconnects (`scheduleReconnect`), the panel takes what arrives. Users,
  agents, timeouts, drops and deaths are never forced. `LiveSpec` adds that a prompt
  ends; `LongPromptSpec` does not, because a user's abort exists for prompts that do not
  end. `route_settles` has no timeouts: a recovery that timed out starts again only when
  the user acts (`EnsureConnected`), so no fairness would be justified.
- The services of a tab and the programs of `MCCoordination` run in one instance each, where the
  initial state chooses which of them moves. `GoesOn` of the two `MC` modules states the fairness
  of each for the behaviours in which it is the one, so that nothing is asked of a program
  that is not running.
- Tab: debugger and screencast, Chrome answers its commands and promises go on. Recording: for each
  recording, the steps of a start and of the document go on and
  sent chunks are handled or given up (`sendEvent` retries a bounded number of times), a
  recording ends at its longest duration if not before, and a dead socket is noticed in the
  end. Nobody need stop, leave or reconnect.
- Bridge: `WF` of what sockets deliver, commands that end (each has a timeout or
  an end of its own) and clients that reconnect.
- Start: probes have a timeout and waits an end. Leases: operations of the worker go on,
  promises and timers come to pass, a panel's document appears and goes on asking.

## 7 Proofs

All theorems hold for every value of the constants that satisfies the named
assumptions of their modules (types of the constants; at most one prompt in
`SessionRoute`, by its design).

**Host** (`OffscreenRuntimeHost_proofs`). `TypeCorrect` is inductive by itself: one
lemma for each group of actions, one step for each action.
`RetryAlwaysFindsFirstAttempt` is not inductive, because settling a request may evict
another and forgets it by its place in the window. `Retention` adds that the window
names each request once and only settled, retained ones; `SettleRetention` is the
core, and every action either settles by it or leaves window and requests alone
(`RetentionFrame`). `Ownership` is `NoStaleBusyFlag` and its converse, that a prompt
in progress is the one its record names; both are needed at the step that sets the
flag and at the steps that clear it only for their own prompt. `BusyFlagNeverStale`
and `PromptsExclusive` follow.

**Stream** (`RuntimeStream_proofs`). `ViewFollowsStream` needs that each envelope
continues the stream it is in (`StreamsReplay`), so that applying position n+1 to a
panel at n gives what position n+1 says; that only a document which started without
the session says hello without a cursor (`HellosTruthful`), and that the stream of
such a document opens with a snapshot (`UnknownOpens`), so that a panel that knows
nothing never begins in the middle; and that documents not yet started have sent
nothing (`NothingBeforeOpen`). The host's steps only make streams grow (`HostSteps`,
`HostKeepsStreamInv`), the panel's only read them (`PanelKeepsStreamInv`).
`RevisionsNeverRegress` follows step by step from the same invariant;
`StreamTypeCorrect` is the type invariant.

**Route** (`SessionRoute_proofs`). `RouteInv` is `StreamInv` and: whatever is queued
towards the panel, on the wire or on the port, is an answer or was sent by the host
of some document, and the hello the worker caches was sent. From it each step of the
route is a step of `RuntimeStream` or leaves its variables alone (`StreamStep`):
`RouteImplementsStream`. What holds of every delivery thus holds of the real one:
`RoutePanelFollowsStream`, `RouteRevisionsNeverRegress`; and `RouteTypeCorrect`.

**Route, continued.** `AttachedClientIsFresh` is `AttachedIsFresh`. A client is made stale by a gap,
by two envelopes with one number or by a revision that falls, and it may be attached only if none of
these can still reach it. `AttachInv` has eight parts, each of which another needs:
revisions rise along a stream (`RevsRise`) and a client knows the envelope it stands at (`PrintFits`),
so that a repetition is never taken for a conflict; the wire has each stream in order and to its end
(`WireFits`), and what a port was given of a stream is followed by all the rest, its hellos
before its streams (`PortFits`), so that there is no gap. A route passes a stream on as soon as it
is bound, and the hello it starts with is the worker's cached one: so a connect that was answered
was greeted (`ConnectsFit`), and the worker that has the answer knows the document
(`WorkerKnows`); before a session is accepted no document has sent anything of it
(`NothingBeforeAccepted`). `ClientFits` is the claim itself: an attached client is fresh, and either its port
is closed, or a hello is the next thing it gets, or all that the port was given behind its position is
still in the queue; one that has its snapshot and waits for the answer also has no hello of its
epoch before it. TLC had checked `AttachInv` on two instances (2.6 million states the larger)
before it was proved.

**Host, continued.** `DisposalHoldsNothing` needs `Acquisition`: the adapter being made is the
one of the turn's holder, and nothing is published meanwhile; so an acquisition that lands
after `dispose` has begun is the only adapter there is, and it disposes of itself.
`ReplaceSwaps` needs `Swapping`: from its check to its increment a replace heads the queue of
its record, and the revision is the one it expected. `AbortsWin` needs `Abortable`: a record
lists as active only executions that are at work on that record, and none that is in progress
has succeeded or been answered.

**Stream, continued.** `PanelShowsTranscript` needs `TranscriptFollows`: a panel that waits for
no resync has had a snapshot of its epoch, and what follows a snapshot replays to the session's
transcript as long as no mutation holds the tail.

**Checkpoints, routes and registry** (`AgentRuntimeCoordinator_proofs`). For
`CheckpointsAreWhole` the invariant says of the host that its content is its revision plus the
mutations that are pending, and of every checkpoint on its way (exported, loaded, being saved,
stored) that content and revision agree; an export happens only when nothing is pending, which
is where the two meet. `WhatIsQuietIsSaved` is `QuietIsSaved`; `SavedInv` follows a change
through its mark, the flush, the save and the store: what is marked is going to be flushed
(`MarkIsFlushed`), a flush since which nothing was marked has the host's state
(`FlushIsCurrent`), and the worker writes that flush only (`SaveIsOfFlush`).
`PortOwnsItsRoute` is `ConnectedIsOwned`, and `NobodyGetsBetween` that a replace has the window
to itself between release and bind (`ReplaceKeepsRoute`; no run checks it, since no plausible
change of a single definition breaks it). The invariant (`PortsFit`, `JobFits`, `QueueFits`)
says what a connection under way and a job of each step know of `accepted` and `activePort`. A
panel's release does not take the lock, and this is where the work is: it counts only if its
port is still the active one, and the port of a job is the active one from the job's first step
on, so that no release but the job's own meets it. `RegistryFollowsOwner` is
`RegistryIsAccepted`: the write of the registry that was asked for last is what is accepted, or
about to be (`RegistryFits`).

**Operations on pages** (`PageOperations_proofs`). `NothingActsUnattended`. A call on its way,
awaiting admission or acting is attended (`QueuedAttended`, `AwaitingAttended`,
`ActingAttended`): its caller waits and nothing behind it makes the worker forget the caller's
execution, or a cancellation follows it and will still be admitted. A call is on its way once
(`OnceOnly`), without which the cancellation of one copy would leave the other.

**Coordination** (`Coordination_proofs`). As long as tasks did not cross, `OneWindowInTurn`
(`LocksHoldInTurn`); the invariant adds that the tasks are ordered with at most one that has
read (`TasksOrdered`), that a session being made is nobody's (`NewSessionsFree`), and that a
removed window is told nothing (`RemovedAreSilent`). `NoWindowHasTwo`: no write gives a window
two locks, crossed or not. `StartedConnectionFits` (`ConnectionFits`): the command at work on
the start is the one the lock file names, so there is one, and unless the file was deleted by
hand every token that is about is the one in the file (`StartInv`).
`ElectronConnectionsOwned` (`ConnectionsOwned`): what a session has cached is its own and for
its window as the session knows it (`CacheFits`), and a connection that is ready is cached
(`ReadyIsCached`); the proof is that every step which moves a session on gives up what it had
cached. `AuthorityImplementsRegister` is the refinement `LeasesCountOnce`, the initial states
and each action in turn: memory and disk differ in one record at most, a capability is in one
record, and one that is pending has never counted (`LeaseInv`), so that a lease counts when its
record is stored and never before.

**Bridge** (`Bridge_proofs`). `OneWriterAtATime` (`WritersExclude`) and `AnswersAreOwn`
(`OwnAnswersOneServer`), both while the server lives once; section 8 has what happens when it is
restarted. Nobody holds a lock until its write is done: the lock is free when the CLI has gone, or when
a change of session took it, while the window may still run its write or still have to read it. The
second is excepted: `outlived` has the writes that were pending then, and every other pair of writes stays
apart whatever sessions the windows tell (`WritesReleased`). So `BridgeInv` says where the
abort is: a write that nobody waits for has its abort in the queue of the connection
(`AbortsOwed`), and between the writes of two CLIs in one queue is the abort of the first
(`WritersApart`). A request's number is in one place, the queue, a running command or an answer
(`RelaysFit`, `AskedOnce`, `RunOnce`); that is why an answer finds its own request. TLC had
checked `BridgeInv` in 1.4 million states before it was proved (then without changes of session).

**Services of a tab** (`TabServices_proofs`). `DebuggerFollowsHolders` (`AttachedWhileHeld`)
and `FreshReferences` (`FreshUntilDetached`) hold for drivers that overlap. `TabInv`: types, the lists of waiters (at one record
only the head of its list does anything), which user has captured which record, and the count of each record.
`Undetached`, as long as the browser has not detached: at most one record has holders or an attach
or detach under way, since an attach succeeds only while the tab is detached; whoever releases does so at the
tab's record; every holder is counted where it holds, except that what somebody at the tab's record still lets go
may be counted at a deleted one (`Outlived`); and an owner the tab's record names is a
holder's (`OwnersFit`). So a release takes the debugger from nobody: the
one that detaches is the last that is counted at the only record with holders. `Fresh` adds what the
session knows: it is at least as deep as it has holders (`DepthFits`), a driver that lives has its
lifetime (`LifetimesFit`), the Page domain is enabled while a driver is usable
(`PagesFit`); so a navigation is heard whenever the session listens to the tab's record, and what was
seen in the current generation is the current document (`RefsFit`).
`RecordingLeavesNothing` (`OverHoldsNothing`, `CastInv`): what Chrome has is the current
recording's, which knows of it until it has ended it. `BlockedByRecording` and `CompleteIsWhole`
(`BlockedWhileRecorded`, `ArtifactWhole`, `RecInv`): a start that was not sent has no tape, an
answer under way belongs to a recording that has not completed, and while nothing parted CLI
and worker, a CLI that heard of its own recording only has that recording's chunks, counted from
the first. `OnlyActiveCapturesHold` (`CaptureHolds`, `NetInv`): whoever holds the debugger is a
start that goes on, the active capture, or about to be released. `BytesAreCounted`
(`StoredBytesFit`, `LogInv`): every known request is listed once and has a number, so that a body
finds its own request or none, and the bytes counted are the sum over the log. The sum is a fold,
an induction over data, and the library's induction theorems take an operator as parameter. The
way round is in two steps: the fold has a closed form (the number of requests with a body sent
plus that with a body got, `Total`), which satisfies the recursion (`TotalsSum`), and a least set of
requests at which another solution differed from it would contradict the recursion
(`SumsAreTotals`, by `WFMin` over the subsets of the ids). This uses that the ids are finitely many
(`NetworkAssumption`). `HandoffEndsOnce` and
`OverlayIsRemoved` (`OneOutcome`, `OverlayGoesWithCommand`, `HandInv`): a handoff was told what
its record says, and an overlay is of a command that has its handle and will remove it.

**Nobody waits in vain.** Liveness is out of the prover's reach, but the half of it that goes wrong
in code like this is not: that a waiter was forgotten, that two wait for one another, or that
what would have woken somebody was dropped. For most liveness properties it is stated as an invariant,
*whoever waits does so for something that is under way*, and proved; TLC had checked each before.
What remains to TLC is that what is under way comes to its end.

- `NobodyWaitsForever` (for `EveryRequestAnswered`). The turn of acquisition and the tail of a record are
  queues, and whoever is at the head of one waits for nobody that is behind it: an acquirer
  that opens has released nothing it must wait for, a release waits only for the tail it
  closed, and what is applied heads its queue.
- `AsksAreQueued` (for `PanelAdmitted`). The authority's queue loses an entry only by answering it or
  with all of memory, when the asking document asks again. `AdmittedPanelsHoldLeases` is about
  the other end of that path: the answer a document has is of the record that disk has, and nobody changes the
  record of a live document but that document (`OwnersFit`, `OpeningsFit`, `AdmittedFit`; `RecordsMove`
  says once what a step does to memory, disk and the answer under way).
- `StartLockIsHeld` (for `StartLockFreed`): `StartInv`, and that the lock file, if there is one, names a command that
  is at the start or was killed there (`HolderFits`).
- `StopsGoOn` (for `StopSettles`): every step that asks a recording to end begins the command that ends
  it, or finds the one of its start, which then does (`ActiveIsWanted`: what is active nobody wants to end).
- `LettingGoGoesOn` (for `LetsGo`), for drivers that overlap and any tools, also at deleted records: whoever is at a
  list waits there, and a driver which holds is the registry's or was disposed; only
  a holder counted at a deleted record is excepted, because nobody lets go for it.
- `StartsHaveAnEnd` (for `RecordStartEnds`). `AllAnswersFit` adds to `RecInv` that the document holds one
  recording at a time (`OneHeld`), and that a CLI which waits has heard of no recording but its own and the one held
  (`AnswerFits`); so it takes no other recording's summary for its own, and the end that it waits for is
  its own. TLC had checked this with three recordings of one tab (12.9 million states).
- `WaitersWillBeAnswered` (for `RequestSettles`), here also across restarts of the server. Whoever waits is in
  `pendingRequests`, once (`RequestsFit`), and its question, its command or its answer is somewhere, or its
  connection has closed or was replaced (`AllServed`). That needs the order of connections
  (`SocketsAlways`, which a restart keeps as well), that a window has one open connection, its client's (`OpenIsClients`),
  so that it answers where it was asked, and that no two wait under one number (`RelaysUnique`), so
  that no answer to another uses up its own. TLC had searched ten million states of it, not all.
- `RecordingsOfGoneStop` (for `LeaseStopsRecording`), where no connection was lost (`Calm`; a lost one
  takes its queue along). There a window keeps the one connection it has (`ConnsLast`), so
  a stop that is put into the queue of a client is put where its window reads. A request is asked under
  one number, and once its answer is on the way it is nowhere else (`OneNumber`); a `record_start` that is
  still asked has not recorded yet, and records in the window it waits for (`RecordedOnce`). So whoever
  was told of a recording has the lease of it, on the connection that carries the stop (`LeasesFit`), and
  when it goes the stop is put there (`StopsFit`). TLC had checked all parts with three recordings by
  two CLIs in two windows (6.1 million states).
- `AwaitedAnswersAreUnderWay` (for one half of `PanelCatchesUp`, and of `AbortEndsPrompt`), through every
  drop, death, timeout and reopening. What the panel awaits (`Awaited`) is posted on its port, forwarded and
  not yet answered, or answered into its queue (`AwaitedIsUnderWay`). What a port has forwarded is at
  a document that is up, in its streamTail, or its answer has reached the worker (`BusyFits`; `DownFits` says that a
  document which died left nothing behind), a port that closes rejects all it carried (`RejectedAll`), and an
  answer ends the wait of its own request, since a prompt and its abort have two ids (`IdsFit`). TLC had
  checked all four parts on the instances of `route_safe` and `route_settles`.

The other half of `PanelCatchesUp`, that a panel which lags has asked or is about to, has no theorem. It is no
invariant in general: a recovery that was refused or timed out leaves the client unattached until the user's
next operation (`EnsureConnected`). `route_settles` checks it where nothing times out and
the document lives.

**Only model-checked.** Every invariant and action property of the passing runs is stated by a
theorem, under the assumptions named above. What stays with TLC is all liveness
(`RequestSettles`, `LeaseStopsRecording`, `StartLockFreed`, `PanelAdmitted`, `LetsGo`,
`StopSettles`, `RecordStartEnds`, `EveryRequestAnswered`, `PanelCatchesUp`): fairness and
ENABLED are outside what this prover does. No module here declares a `RECURSIVE` operator;
sequences are handled by the library's operators.

## 8 Findings

Each run gives the shortest behaviour; `PROJECT.json` quotes what the repository says to the
contrary.

1. **An unforced release can abort an execution** (`host_release`). `release`
   checks that the session has no execution, awaits `mutationTail`, and then removes
   the session without looking again (`offscreen-runtime-host.ts:778`). An execution
   that starts during the wait loses its session.
2. **A reopened panel recreates its session and is refused** (`route_reopen`). The
   worker greets it with a hello from before the session existed
   (`agent-runtime-coordinator.ts:1500`).
3. **An abort waits behind the prompt it should end** (`route_abort`). Messages of a
   port are forwarded one at a time and a prompt is answered when it is over
   (`agent-runtime-coordinator.ts:1417`).
4. **A recording without an owner** (`bridge_orphan`). The lease of a recording is taken
   when `record_start` is answered (`server.ts:1665`); a CLI that leaves before has none,
   and its recording goes on without a lease or a CLI.
5. **Two windows with one session** (`locks`). The table of session locks is read and
   written back an await later (`background.ts:2602`); two windows that ask at once are both told that the
   session is theirs.

Seen while modelling, each outside of what a property here claims:

- Stream: a new document with an older checkpoint leaves the panel stale, since the panel keeps its
  revision across the hello and rejects lower snapshots (`runtime-channel.ts:521`). A message can be shown twice when a
  mutation overlaps an event (`offscreen-runtime-host.ts:1533`); `TranscriptMatches` leaves
  mutations in between out.
- Host: with a smaller replay window, an evicted prompt that is retried while its abort is
  pending is a new execution. Connection: a connect the worker rejects is not tried again
  (`chrome-runtime-session-transport.ts:516`).
- Checkpoints: `ensureInitialized` ignores an answer `{ok: false}` of
  `agent-runtime-init`; a request whose stream could not be delivered throws before it
  marks the checkpoint (`unmarked`).
- Routes of windows: a panel's release whose port is lost before the answer leaves the
  descriptor accepted though the host has no session, so that `replaceSession` and
  `releaseWindow` fail until a panel connects or the worker restarts; a session that
  was bound but never created does the same. A create forwarded between the host's release and
  the forgetting leaves an orphan session. In `connect`, the call to the host for a
  descriptor without hello is outside of the `try`, so its port is never told.
- Leases: without `muddled`, a panel that reloads while another window's panel opens may be bound to
  that window, or refused; a reload before prepare is answered strands the panel until it
  is opened again.
- Bridge: after a restart of the server an old response may answer a new request of the same
  number (`server.ts:262`, `extension-client.ts:426`); the write lock of a caller is
  held until it disconnects (`server.ts:1500`). A start that gave up lets another one
  spawn, which overwrites the pid file (`bridge-autostart.ts:446`).
- Debugger: `runSerialized` reads the record of the tab before it waits for its turn
  (`debugger-manager.ts:254`), and the last release deletes that record (`:157`). A driver or a tool that
  queued behind this release, as `createEntry` allows and `background.ts:2190` does by not
  awaiting it, attaches on the deleted record. Its own release finds another, empty one and
  returns (`:133`): Chrome's debugger stays attached for nobody, and the next acquisition tries to attach again
  and fails (`Orphans`, excepted in `LetsGo`). The listeners of the session of the tab may stay at the deleted
  record too (`cdp-session.ts:137` installs them once); navigations are not heard then, and a reference
  may be stale (excepted in `FreshUntilDetached`). With a detach by the browser, the release of a
  tool may count against a later attachment.
- Bridge, changes of session: the lock of a holder that named another session is released while its write may
  still run (`server.ts:1847`, `per-handle-write-lock.ts:32`), and a second CLI may write in that window at the
  same time, where `goals/agentic-browser-frontier/facts.md:23` says that "exactly one writer per target is
  enforced". The release is deliberate and nothing sends the event yet, so it is an exception of
  `WritersExclude` (`outlived`); that the exception is needed was seen by leaving it out: TLC then finds two
  writers.
- Tab recording: a final chunk before `record_start` is answered (the start awaits the
  indicator, which awaits the page) ends the CLI with "complete" though the chunks it kept were never
  written (`cli.ts:976-1009`). A CLI that waits for its answer takes the chunks of any
  recording for its own, since events go to every CLI (`server.ts:1860`, `cli.ts:977`).
  A stop overwrites the error a lost chunk has set (`offscreen-tab-capture.ts:68`). With
  the socket closed and the recorder's state there, chunks and the end are taken and dropped
  (`extension-client.ts:138`), and the CLI waits for ever (`swallowed`). Two recoveries give two
  completions; a recorder that recovered the recording of another window keeps its tab.
- Electron: a command that refreshes the windows of its session while that is detached
  makes a driver for it and caches it (`session-manager.ts:338`, `:1077`), and nobody disposes
  it before the window closes or the server stops; hence `late`. A launch makes its session
  without looking for one that an attach made meanwhile (`session-manager.ts:205`). An attach across a restart of the
  app makes a session of the old endpoint and the new owner (`session-manager.ts:256-263`), and
  discards those of the new process. The stop sent for a detached recording names no recording
  (`server.ts:1757`) and may stop a newer one of that window.
- Handoff: `triggered: true` is reported when the click was refused
  (`browser-command-executor.ts:724-734`); the cancel button removes the page's handoff id whoever's
  it is.

## 9 What is left out

Of the modelled parts:

- Contents of messages, models, artifacts and tools: a transcript is the number of
  its messages, since messages are only ever appended or replaced in place.
- Refusals that change no state: `TARGET_MISMATCH`, unknown scopes, malformed
  envelopes, a request id used for two different requests.
- Host: one session key (records of different keys share only the replay window).
- Stream: an attach that began before an event was queued and answers after it is
  one snapshot behind the tail; executions a restored checkpoint left unfinished
  are settled by `EndExecution(1)`.
- Route: one panel, one prompt, one descriptor; the one retry of a request that had
  not been posted (`TransportPort`); a connect while the document is gone waits,
  where the code lets its handshake time out and connects again; the document dies
  only after the descriptor was accepted.
- Routes of windows: one window; removals from storage that fail; the routes a bridge
  client and a panel may have in one window; page controls and readiness waiters. The document that
  dies while the worker lives is in `Checkpoints`: nothing more happens until the worker ends
  too, and the code promises nothing else.
- Operations on pages: what they do and where they may do it (`agent-runtime-page-authorization.ts`; a
  refusal is an end), the replay of completed operations, whose ids are always new, a document that
  dies, whose operations nobody cancels until the worker ends.
- Bridge: capabilities, electron targets, commands the server answers itself; backoff of reconnects. Start: endpoints given by flags or
  environment, `STARTS_IN_FLIGHT`, slow probes, the pid file.
- Debugger and page driver: trusted input, the ref map and its locators, web socket
  sessions, and snapshots of inner frames, which are taken by script injection and not through the debugger
  (`page-driver.ts:304`): with overlapping drivers the release of the old one may remove the listeners
  of the session, and nothing installs them for such a snapshot. Tab recording: the status command, the indicator, recordings of several tabs, a
  forced stop by the CLI's own timeout.
- Electron: inspection of the main process, taps, labels, automatic attachment, recordings of
  windows, several windows of an app, disposal of the manager.
- Worker: presentation state of panels, shortcuts, wiring of Chrome's events.

Not modelled at all, and why: settings, dialogs, OAuth, storage wrappers, schemas,
the proxy and the site have no protocol of their own; scoring, redaction and DOM
walking in the driver are functions on strings and documents; the side panel's
components render. The agent library, Chrome and CDP are outside the repository and
appear only as choices of the environment. The journal, speech
and the workflow engine are in the plan.
