----------------------------- MODULE Checkpoints -----------------------------
(***************************************************************************)
(* How the state of the offscreen document outlives it:                       *)
(*                                                                         *)
(*   OffscreenRuntimeController   extension/src/agent/offscreen-runtime-controller.ts *)
(*     marks, timer, flush; init                                            *)
(*   OffscreenRuntimeHost         extension/src/agent/offscreen-runtime-host.ts *)
(*     exportState, restoreState                                            *)
(*   AgentRuntimeCoordinator      extension/src/bridge/agent-runtime-coordinator.ts *)
(*     saves, ensureInitialized                                             *)
(*                                                                         *)
(* The host has one session.  Its content and its revision count changes: the  *)
(* content when the agent makes one, the revision when the mutation queue      *)
(* announces it.                                                            *)
(***************************************************************************)
EXTENDS Naturals, FiniteSets

CONSTANTS
  MaxChanges,   \* bound: sessions opened, agent events and requests answered
  MaxFailures   \* bound: failed deliveries, saves and restores, ends of worker and document

ASSUME CheckpointsAssumption == {MaxChanges, MaxFailures} \subseteq Nat

EmptyHost == [open |-> FALSE, content |-> 0, revision |-> 0, settled |-> 0]
NoCheckpoint == [EmptyHost EXCEPT !.settled = MaxChanges + 1]
NoFlush == [step |-> "none", generation |-> 0, state |-> NoCheckpoint, after |-> 0]

VARIABLES
  host,       \* what exportState would return: session, content, revision, answers kept
  pending,  \* pendingMutationCount
  streamTail, \* envelopes sent, delivered, and whether the last of these failed
  returning,  \* requests answered by the host: the envelope each awaits
  dirty, generation, timer,
  flushes,    \* flushes that wait in checkpointTail
  flushing,   \* the one that runs
  runtime,    \* the document: "none", "new", "restoring", "ready"
  initialization, \* of the worker: "none", "loading", "sent", "done"
  loaded,     \* the checkpoint the worker sends with agent-runtime-init
  saving,     \* the checkpoint the worker is writing
  stored,     \* chrome.storage.session
  changes, failures,
  unmarked    \* history: a request failed after the host had answered it

controllerVars == <<streamTail, returning, dirty, generation, timer, flushes, flushing>>
documentVars == <<host, pending, controllerVars, runtime>>
workerVars   == <<initialization, loaded, saving, stored>>
checkpointVars == <<documentVars, workerVars, changes, failures, unmarked>>

CheckpointInit ==
  /\ host = EmptyHost /\ pending = 0
  /\ streamTail = [sent |-> 0, delivered |-> 0, failed |-> FALSE] /\ returning = {}
  /\ dirty = FALSE /\ generation = 0 /\ timer = FALSE /\ flushes = 0 /\ flushing = NoFlush
  /\ runtime = "none" /\ initialization = "none"
  /\ loaded = NoCheckpoint /\ saving = NoCheckpoint /\ stored = NoCheckpoint
  /\ changes = 0 /\ failures = 0 /\ unmarked = FALSE

Change == changes < MaxChanges /\ changes' = changes + 1 /\ UNCHANGED failures
Failure == failures < MaxFailures /\ failures' = failures + 1
Settles(ok) == IF ok THEN UNCHANGED failures ELSE Failure

\* markCheckpointDirty
Mark == dirty' = TRUE /\ generation' = generation + 1 /\ timer' = TRUE
Unmarked == UNCHANGED <<dirty, generation, timer>>

\* emit and notifyStateChanged: an envelope joins the stream.
Emits == streamTail' = [streamTail EXCEPT !.sent = @ + 1] /\ Mark

-----------------------------------------------------------------------------
(* The host *)

\* addSession by create or load, with its snapshot.
Opens ==
  /\ runtime = "ready" /\ ~host.open /\ Change
  /\ host' = [host EXCEPT !.open = TRUE]
  /\ Emits
  /\ UNCHANGED <<pending, returning, flushes, flushing, runtime, workerVars, unmarked>>

\* onAgentEvent: the agent has changed, its announcement joins the mutation queue.
AgentChanges ==
  /\ runtime = "ready" /\ host.open /\ Change
  /\ host' = [host EXCEPT !.content = @ + 1]
  /\ pending' = pending + 1
  /\ UNCHANGED <<controllerVars, runtime, workerVars, unmarked>>

Announces ==
  /\ pending > 0
  /\ host' = [host EXCEPT !.revision = @ + 1]
  /\ pending' = pending - 1
  /\ Emits
  /\ UNCHANGED <<returning, flushes, flushing, runtime, workerVars, changes, failures, unmarked>>

\* The host answers a request; the answer of a release comes behind the mutation queue.
HostAnswers(release) ==
  /\ runtime = "ready" /\ Change
  /\ release => host.open /\ pending = 0
  /\ host' = [(IF release THEN EmptyHost ELSE host) EXCEPT !.settled = host.settled + 1]
  /\ returning' = returning \cup {[after |-> streamTail.sent, n |-> host.settled]}
  /\ UNCHANGED <<pending, streamTail, dirty, generation, timer, flushes, flushing, runtime, workerVars, unmarked>>

-----------------------------------------------------------------------------
(* The controller *)

\* sendToBackground of an envelope settles.
StreamDelivers(ok) ==
  /\ streamTail.delivered < streamTail.sent /\ Settles(ok)
  /\ \A r \in returning : r.after # streamTail.delivered
  /\ streamTail' = [streamTail EXCEPT !.delivered = @ + 1, !.failed = ~ok]
  /\ UNCHANGED <<host, pending, returning, dirty, generation, timer, flushes, flushing, runtime, workerVars, changes, unmarked>>

\* forwardRequest, after terminalStreamTail: what failed last is thrown.
Returns(r) ==
  /\ r \in returning /\ streamTail.delivered = r.after
  /\ returning' = returning \ {r}
  /\ IF streamTail.failed THEN unmarked' = TRUE /\ Unmarked ELSE Mark /\ UNCHANGED unmarked
  /\ UNCHANGED <<host, pending, streamTail, flushes, flushing, runtime, workerVars, changes, failures>>

TimerFires ==
  /\ timer
  /\ timer' = FALSE /\ flushes' = flushes + 1
  /\ UNCHANGED <<host, pending, streamTail, returning, dirty, generation, flushing, runtime, workerVars, changes, failures, unmarked>>

\* Mutant: the state is exported whatever the mutation queue holds.
FlushesAnyway ==
  /\ flushes > 0 /\ flushing = NoFlush
  /\ flushes' = flushes - 1
  /\ IF dirty
     THEN flushing' = [step |-> "behind", generation |-> generation, state |-> host, after |-> streamTail.sent]
     ELSE UNCHANGED flushing
  /\ UNCHANGED <<host, pending, streamTail, returning, dirty, generation, timer, runtime, workerVars, changes, failures, unmarked>>

\* flushCheckpoint begins: exportState refuses while a mutation is pending.
Flushes ==
  /\ flushes > 0 /\ flushing = NoFlush
  /\ flushes' = flushes - 1
  /\ IF dirty /\ pending = 0
     THEN flushing' = [step |-> "behind", generation |-> generation, state |-> host, after |-> streamTail.sent]
     ELSE UNCHANGED flushing
  /\ timer' = (timer \/ (dirty /\ pending > 0))
  /\ UNCHANGED <<host, pending, streamTail, returning, dirty, generation, runtime, workerVars, changes, failures, unmarked>>

\* The stream is delivered, in whatever way: the checkpoint goes to the worker.
FlushSends ==
  /\ flushing.step = "behind" /\ streamTail.delivered >= flushing.after
  /\ flushing' = [flushing EXCEPT !.step = "sent"]
  /\ saving' = flushing.state
  /\ UNCHANGED <<host, pending, streamTail, returning, dirty, generation, timer, flushes, runtime,
                 initialization, loaded, stored, changes, failures, unmarked>>

\* Mutant: what was marked meanwhile is taken for saved.
FlushEndsClean(ok) ==
  /\ flushing.step = (IF ok THEN "saved" ELSE "refused")
  /\ flushing' = NoFlush
  /\ dirty' = ~ok /\ timer' = (timer \/ ~ok)
  /\ UNCHANGED <<host, pending, streamTail, returning, generation, flushes, runtime, workerVars, changes, failures, unmarked>>

FlushEnds(ok) ==
  /\ flushing.step = (IF ok THEN "saved" ELSE "refused")
  /\ flushing' = NoFlush
  /\ LET clean == ok /\ generation = flushing.generation
     IN  dirty' = ~clean /\ timer' = (timer \/ ~clean)
  /\ UNCHANGED <<host, pending, streamTail, returning, generation, flushes, runtime, workerVars, changes, failures, unmarked>>

-----------------------------------------------------------------------------
(* The coordinator *)

\* checkpointStorage.save settles; the document that sent it may be gone.
Saves(ok) ==
  /\ saving # NoCheckpoint /\ Settles(ok)
  /\ stored' = IF ok THEN saving ELSE stored
  /\ saving' = NoCheckpoint
  /\ flushing' = IF flushing.step = "sent" THEN [flushing EXCEPT !.step = IF ok THEN "saved" ELSE "refused"]
                 ELSE flushing
  /\ UNCHANGED <<host, pending, streamTail, returning, dirty, generation, timer, flushes, runtime,
                 initialization, loaded, changes, unmarked>>

\* ensureInitialized: the document is there, or made.
Ensures ==
  /\ initialization = "none"
  /\ initialization' = "loading"
  /\ runtime' = IF runtime = "none" THEN "new" ELSE runtime
  /\ UNCHANGED <<host, pending, controllerVars, loaded, saving, stored, changes, failures, unmarked>>

Loads ==
  /\ initialization = "loading" /\ loaded = NoCheckpoint
  /\ loaded' = stored
  /\ initialization' = "sent"
  /\ UNCHANGED <<documentVars, saving, stored, changes, failures, unmarked>>

\* handleInitMessage, when there is nothing to restore: or nobody to do it.
Initialized ==
  /\ initialization = "sent" /\ runtime \in {"none", "ready", "new"}
  /\ runtime = "new" => loaded = NoCheckpoint
  /\ runtime' = IF runtime = "new" THEN "ready" ELSE runtime
  /\ initialization' = IF runtime = "none" THEN "none" ELSE "done"
  /\ loaded' = NoCheckpoint
  /\ UNCHANGED <<host, pending, controllerVars, saving, stored, changes, failures, unmarked>>

RestoreBegins ==
  /\ initialization = "sent" /\ runtime = "new" /\ loaded # NoCheckpoint
  /\ runtime' = "restoring"
  /\ host' = [loaded EXCEPT !.settled = 0]
  /\ UNCHANGED <<pending, controllerVars, workerVars, changes, failures, unmarked>>

\* The worker takes any answer to its init message for a good one.
Answered == initialization' = (IF initialization = "sent" THEN "done" ELSE initialization) /\ loaded' = NoCheckpoint

\* restoreState: executions that were running are cancelled and announced.
Restored(orphans) ==
  /\ runtime = "restoring"
  /\ orphans => host.open
  /\ runtime' = "ready" /\ Answered
  /\ host' = IF orphans THEN [host EXCEPT !.content = @ + 1, !.revision = @ + 1] ELSE host
  /\ streamTail' = [streamTail EXCEPT !.sent = @ + IF orphans THEN 1 ELSE 0]
  /\ Mark
  /\ UNCHANGED <<pending, returning, flushes, flushing, saving, stored, changes, failures, unmarked>>

RestoreFails ==
  /\ runtime = "restoring" /\ Failure
  /\ runtime' = "new" /\ host' = EmptyHost /\ Answered
  /\ UNCHANGED <<pending, controllerVars, saving, stored, changes, unmarked>>

WorkerEnds ==
  /\ initialization # "none" /\ Failure
  /\ initialization' = "none" /\ loaded' = NoCheckpoint /\ saving' = NoCheckpoint
  /\ stored' \in {stored, IF saving # NoCheckpoint THEN saving ELSE stored}
  /\ flushing' = IF flushing.step = "sent" THEN [flushing EXCEPT !.step = "refused"] ELSE flushing
  /\ UNCHANGED <<host, pending, streamTail, returning, dirty, generation, timer, flushes, runtime, changes, unmarked>>

DocumentEnds ==
  /\ runtime # "none" /\ Failure
  /\ initialization' = IF runtime = "restoring" /\ initialization = "sent" THEN "none" ELSE initialization
  /\ loaded' = IF initialization' = "none" THEN NoCheckpoint ELSE loaded
  /\ runtime' = "none" /\ host' = EmptyHost /\ pending' = 0
  /\ streamTail' = [sent |-> 0, delivered |-> 0, failed |-> FALSE] /\ returning' = {}
  /\ dirty' = FALSE /\ generation' = 0 /\ timer' = FALSE /\ flushes' = 0 /\ flushing' = NoFlush
  /\ unmarked' = FALSE
  /\ UNCHANGED <<saving, stored, changes>>

CheckpointNext ==
  \/ Opens \/ AgentChanges \/ Announces
  \/ \E release \in BOOLEAN : HostAnswers(release)
  \/ \E ok \in BOOLEAN : StreamDelivers(ok) \/ Saves(ok) \/ FlushEnds(ok)
  \/ \E r \in returning : Returns(r)
  \/ TimerFires \/ Flushes \/ FlushSends
  \/ Ensures \/ Loads \/ Initialized \/ RestoreBegins \/ RestoreFails
  \/ \E orphans \in BOOLEAN : Restored(orphans)
  \/ WorkerEnds \/ DocumentEnds

CheckpointSpec == CheckpointInit /\ [][CheckpointNext]_checkpointVars

-----------------------------------------------------------------------------

\* A checkpoint is a state the session was in between two announcements: it holds
\* every change its revision counts and none it does not, so that a panel that knows
\* the revision knows the content.  The agent changes before the host announces.
CheckpointIsWhole == stored # NoCheckpoint => stored.content = stored.revision

\* When nothing is left to do, what is stored is what the host has: no change is taken
\* for saved because an older one was, and no failed export or save is forgotten.  A
\* request whose stream failed is answered with an error and leaves no mark (unmarked).
QuietIsSaved ==
  /\ runtime = "ready" /\ pending = 0 /\ returning = {}
  /\ ~timer /\ flushes = 0 /\ flushing = NoFlush
  /\ generation > 0 /\ ~unmarked
  => stored = host

=============================================================================
