------------------- MODULE AgentRuntimeCoordinator_proofs -------------------
(***************************************************************************)
(* What the worker keeps of its sessions: whole checkpoints, one owner of  *)
(* a route, and a registry that says who it is; for every number of        *)
(* changes, ports, sessions and mishaps.                                   *)
(*                                                                         *)
(* An announcement still to come is a change the revision does not count:  *)
(* the content is the revision and the mutations that wait. So the state   *)
(* exported while none waits is whole, and it stays what it was on its     *)
(* way: in the flush, in the save, in the store, in the message that       *)
(* initializes a document. And the state of a document at rest is stored:  *)
(* a change is marked with its announcement or with the end of its         *)
(* request, so that a flush since which nothing was marked has the state   *)
(* the host has, and the worker writes that flush only.                    *)
(*                                                                         *)
(* A port that is connected is the route's port and speaks for the session *)
(* accepted, and while a session is replaced nobody has the route. A       *)
(* release by a panel takes no lock. What keeps it from ending the session *)
(* of another is that it counts only if its port is still the route's      *)
(* (active): the port of a connect that holds the lock is the route's from *)
(* its first step on, and has sent no request yet (Waits).                 *)
(***************************************************************************)
EXTENDS Checkpoints, RuntimeRoutes, TLAPS

-----------------------------------------------------------------------------
(* Checkpoints *)

Fields == {"open", "content", "revision", "settled"}
Counted(state) == DOMAIN state = Fields /\ state.content \in Nat /\ state.revision \in Nat
Whole(state) == Counted(state) /\ state.content = state.revision

\* The content is ahead of the revision by the mutations that wait.
CountsAgree == Counted(host) /\ pending \in Nat /\ host.content = host.revision + pending

\* A document that is not initialized has changed nothing.
NothingWaits == runtime # "ready" => pending = 0

FlushIsWhole == DOMAIN flushing = {"step", "generation", "state", "after"} /\ Whole(flushing.state)

WholeInv ==
  /\ CountsAgree /\ NothingWaits /\ FlushIsWhole
  /\ Whole(loaded) /\ Whole(saving) /\ Whole(stored)

\* What stands for "no checkpoint" counts nothing, and is whole.
LEMMA NothingIsWhole == Whole(EmptyHost) /\ Whole(NoCheckpoint)
BY SMT DEF Whole, Counted, Fields, EmptyHost, NoCheckpoint

\* The four places a checkpoint passes through.
LEMMA PlacesKept ==
  ASSUME WholeInv, UNCHANGED <<flushing, loaded, saving, stored>>, CountsAgree', NothingWaits'
  PROVE  WholeInv'
BY DEF WholeInv, FlushIsWhole, Whole

\* The host and what waits in it.
LEMMA HostKept ==
  ASSUME WholeInv, UNCHANGED <<host, pending, runtime>>
  PROVE  CountsAgree' /\ NothingWaits'
BY DEF WholeInv, CountsAgree, NothingWaits

\* At the start nothing is stored, flushed or pending.
THEOREM WholeInitially == CheckpointInit => WholeInv
<1> SUFFICES ASSUME CheckpointInit PROVE WholeInv
  OBVIOUS
<1>1. CountsAgree /\ NothingWaits
  BY NothingIsWhole, SMT DEF CheckpointInit, CountsAgree, NothingWaits, Whole, EmptyHost
<1>2. FlushIsWhole
  BY NothingIsWhole, SMT DEF CheckpointInit, FlushIsWhole, NoFlush
<1>3. Whole(loaded) /\ Whole(saving) /\ Whole(stored)
  BY NothingIsWhole DEF CheckpointInit
<1> QED
  BY <1>1, <1>2, <1>3 DEF WholeInv

\* The steps of the host: a change waits, its announcement counts it.
LEMMA HostSteps ==
  ASSUME WholeInv,
         Opens \/ AgentChanges \/ Announces \/ \E release \in BOOLEAN : HostAnswers(release)
  PROVE  WholeInv'
<1>1. CASE Opens
  <2>1. CountsAgree' /\ NothingWaits'
    BY <1>1, SMT DEF WholeInv, CountsAgree, NothingWaits, Counted, Fields, Opens
  <2> QED BY <1>1, <2>1, PlacesKept DEF Opens, workerVars
<1>2. CASE AgentChanges
  <2>1. CountsAgree' /\ NothingWaits'
    BY <1>2, SMT DEF WholeInv, CountsAgree, NothingWaits, Counted, Fields, AgentChanges
  <2> QED BY <1>2, <2>1, PlacesKept DEF AgentChanges, workerVars, controllerVars
<1>3. CASE Announces
  <2>1. CountsAgree' /\ NothingWaits'
    BY <1>3, SMT DEF WholeInv, CountsAgree, NothingWaits, Counted, Fields, Announces
  <2> QED BY <1>3, <2>1, PlacesKept DEF Announces, workerVars
<1>4. ASSUME NEW release \in BOOLEAN, HostAnswers(release) PROVE WholeInv'
  <2>1. CountsAgree' /\ NothingWaits'
    <3>1. CASE release
      BY <1>4, <3>1, SMT DEF WholeInv, CountsAgree, NothingWaits, Counted, Fields, HostAnswers, EmptyHost
    <3>2. CASE ~release
      BY <1>4, <3>2, SMT DEF WholeInv, CountsAgree, NothingWaits, Counted, Fields, HostAnswers
    <3> QED BY <3>1, <3>2
  <2> QED BY <1>4, <2>1, PlacesKept DEF HostAnswers, workerVars
<1> QED BY <1>1, <1>2, <1>3, <1>4

\* The steps of the controller: a flush takes the host's state when nothing waits.
LEMMA ControllerSteps ==
  ASSUME WholeInv,
         \/ \E ok \in BOOLEAN : StreamDelivers(ok) \/ FlushEnds(ok)
         \/ \E r \in returning : Returns(r)
         \/ TimerFires \/ Flushes \/ FlushSends
  PROVE  WholeInv'
<1>1. ASSUME NEW ok \in BOOLEAN, StreamDelivers(ok) PROVE WholeInv'
  BY <1>1, HostKept, PlacesKept DEF StreamDelivers, workerVars
<1>2. ASSUME NEW ok \in BOOLEAN, FlushEnds(ok) PROVE WholeInv'
  <2>1. CountsAgree' /\ NothingWaits'
    BY <1>2, HostKept DEF FlushEnds
  <2>2. FlushIsWhole'
    BY <1>2, NothingIsWhole, SMT DEF FlushEnds, FlushIsWhole, NoFlush
  <2>3. UNCHANGED <<loaded, saving, stored>>
    BY <1>2 DEF FlushEnds, workerVars
  <2> QED BY <2>1, <2>2, <2>3 DEF WholeInv
<1>3. ASSUME NEW r \in returning, Returns(r) PROVE WholeInv'
  BY <1>3, HostKept, PlacesKept DEF Returns, workerVars
<1>4. CASE TimerFires
  BY <1>4, HostKept, PlacesKept DEF TimerFires, workerVars
<1>5. CASE Flushes
  <2>1. CountsAgree' /\ NothingWaits'
    BY <1>5, HostKept DEF Flushes
  <2>2. FlushIsWhole'
    <3>1. CASE dirty /\ pending = 0
      <4>1. Whole(host)
        BY <3>1, SMT DEF WholeInv, CountsAgree, Whole, Counted, Fields
      <4> QED BY <1>5, <3>1, <4>1, SMT DEF Flushes, FlushIsWhole
    <3>2. CASE ~(dirty /\ pending = 0)
      BY <1>5, <3>2 DEF Flushes, FlushIsWhole, WholeInv
    <3> QED BY <3>1, <3>2
  <2>3. UNCHANGED <<loaded, saving, stored>>
    BY <1>5 DEF Flushes, workerVars
  <2> QED BY <2>1, <2>2, <2>3 DEF WholeInv
<1>6. CASE FlushSends
  <2>1. CountsAgree' /\ NothingWaits'
    BY <1>6, HostKept DEF FlushSends
  <2>2. FlushIsWhole'
    BY <1>6, SMT DEF FlushSends, FlushIsWhole, WholeInv
  <2>3. Whole(loaded)' /\ Whole(saving)' /\ Whole(stored)'
    BY <1>6 DEF FlushSends, WholeInv, FlushIsWhole
  <2> QED BY <2>1, <2>2, <2>3 DEF WholeInv
<1> QED BY <1>1, <1>2, <1>3, <1>4, <1>5, <1>6

\* A flush that only changes its step.
LEMMA StepKept ==
  ASSUME FlushIsWhole, NEW step, flushing' \in {flushing, [flushing EXCEPT !.step = step]}
  PROVE  FlushIsWhole'
BY SMT DEF FlushIsWhole

\* The steps of the worker: what it stores and sends is what it was given.
LEMMA WorkerSteps ==
  ASSUME WholeInv,
         \/ \E ok \in BOOLEAN : Saves(ok)
         \/ Ensures \/ Loads \/ Initialized \/ WorkerEnds
  PROVE  WholeInv'
<1>1. ASSUME NEW ok \in BOOLEAN, Saves(ok) PROVE WholeInv'
  <2>1. CountsAgree' /\ NothingWaits'
    BY <1>1, HostKept DEF Saves
  <2>2. FlushIsWhole'
    BY <1>1, StepKept DEF Saves, WholeInv
  <2>3. Whole(loaded)' /\ Whole(saving)' /\ Whole(stored)'
    BY <1>1, NothingIsWhole DEF Saves, WholeInv
  <2> QED BY <2>1, <2>2, <2>3 DEF WholeInv
<1>2. CASE Ensures
  <2>1. CountsAgree' /\ NothingWaits'
    BY <1>2 DEF Ensures, WholeInv, CountsAgree, NothingWaits
  <2> QED BY <1>2, <2>1, PlacesKept DEF Ensures, controllerVars
<1>3. CASE Loads
  <2>1. CountsAgree' /\ NothingWaits'
    BY <1>3, HostKept DEF Loads, documentVars
  <2>2. FlushIsWhole'
    BY <1>3 DEF Loads, documentVars, controllerVars, FlushIsWhole, WholeInv
  <2>3. Whole(loaded)' /\ Whole(saving)' /\ Whole(stored)'
    BY <1>3 DEF Loads, WholeInv
  <2> QED BY <2>1, <2>2, <2>3 DEF WholeInv
<1>4. CASE Initialized
  <2>1. CountsAgree' /\ NothingWaits'
    BY <1>4 DEF Initialized, WholeInv, CountsAgree, NothingWaits
  <2>2. FlushIsWhole'
    BY <1>4 DEF Initialized, controllerVars, FlushIsWhole, WholeInv
  <2>3. Whole(loaded)' /\ Whole(saving)' /\ Whole(stored)'
    BY <1>4, NothingIsWhole DEF Initialized, WholeInv
  <2> QED BY <2>1, <2>2, <2>3 DEF WholeInv
<1>5. CASE WorkerEnds
  <2>1. CountsAgree' /\ NothingWaits'
    BY <1>5, HostKept DEF WorkerEnds
  <2>2. FlushIsWhole'
    BY <1>5, StepKept DEF WorkerEnds, WholeInv
  <2>3. Whole(loaded)' /\ Whole(saving)' /\ Whole(stored)'
    BY <1>5, NothingIsWhole DEF WorkerEnds, WholeInv
  <2> QED BY <2>1, <2>2, <2>3 DEF WholeInv
<1> QED BY <1>1, <1>2, <1>3, <1>4, <1>5

\* The steps of a document that begins, restores or ends.
LEMMA DocumentSteps ==
  ASSUME WholeInv,
         \/ RestoreBegins \/ RestoreFails \/ DocumentEnds
         \/ \E orphans \in BOOLEAN : Restored(orphans)
  PROVE  WholeInv'
<1>1. CASE RestoreBegins
  <2>1. CountsAgree' /\ NothingWaits'
    BY <1>1, SMT DEF RestoreBegins, WholeInv, CountsAgree, NothingWaits, Whole, Counted, Fields
  <2> QED BY <1>1, <2>1, PlacesKept DEF RestoreBegins, controllerVars, workerVars
<1>2. CASE RestoreFails
  <2>1. CountsAgree' /\ NothingWaits'
    BY <1>2, NothingIsWhole, SMT DEF RestoreFails, WholeInv, CountsAgree, NothingWaits, Whole, EmptyHost
  <2>2. FlushIsWhole'
    BY <1>2 DEF RestoreFails, controllerVars, FlushIsWhole, WholeInv
  <2>3. Whole(loaded)' /\ Whole(saving)' /\ Whole(stored)'
    BY <1>2, NothingIsWhole DEF RestoreFails, Answered, WholeInv
  <2> QED BY <2>1, <2>2, <2>3 DEF WholeInv
<1>3. CASE DocumentEnds
  <2>1. CountsAgree' /\ NothingWaits'
    BY <1>3, NothingIsWhole, SMT DEF DocumentEnds, WholeInv, CountsAgree, NothingWaits, Whole, EmptyHost
  <2>2. FlushIsWhole'
    BY <1>3, NothingIsWhole, SMT DEF DocumentEnds, FlushIsWhole, NoFlush
  <2>3. Whole(loaded)' /\ Whole(saving)' /\ Whole(stored)'
    BY <1>3, NothingIsWhole DEF DocumentEnds, WholeInv
  <2> QED BY <2>1, <2>2, <2>3 DEF WholeInv
<1>4. ASSUME NEW orphans \in BOOLEAN, Restored(orphans) PROVE WholeInv'
  <2>1. CountsAgree' /\ NothingWaits'
    <3>1. CASE orphans
      BY <1>4, <3>1, SMT DEF Restored, WholeInv, CountsAgree, NothingWaits, Counted, Fields
    <3>2. CASE ~orphans
      BY <1>4, <3>2, SMT DEF Restored, WholeInv, CountsAgree, NothingWaits, Counted, Fields
    <3> QED BY <3>1, <3>2
  <2>2. FlushIsWhole'
    BY <1>4 DEF Restored, FlushIsWhole, WholeInv
  <2>3. Whole(loaded)' /\ Whole(saving)' /\ Whole(stored)'
    BY <1>4, NothingIsWhole DEF Restored, Answered, WholeInv
  <2> QED BY <2>1, <2>2, <2>3 DEF WholeInv
<1> QED BY <1>1, <1>2, <1>3, <1>4

\* No step of any of the three makes a checkpoint that is not whole.
THEOREM WholePreserved == WholeInv /\ [CheckpointNext]_checkpointVars => WholeInv'
<1> SUFFICES ASSUME WholeInv, [CheckpointNext]_checkpointVars PROVE WholeInv'
  OBVIOUS
<1>1. CASE UNCHANGED checkpointVars
  <2>1. CountsAgree' /\ NothingWaits'
    BY <1>1, HostKept DEF checkpointVars, documentVars
  <2> QED BY <1>1, <2>1, PlacesKept DEF checkpointVars, documentVars, controllerVars, workerVars
<1>2. CASE CheckpointNext
  BY <1>2, HostSteps, ControllerSteps, WorkerSteps, DocumentSteps DEF CheckpointNext
<1> QED BY <1>1, <1>2

\* Every checkpoint chrome.storage.session ever holds is a state between two
\* announcements of the session, whatever fails or ends and when.
THEOREM CheckpointsAreWhole == CheckpointSpec => []CheckpointIsWhole
<1>1. WholeInv => CheckpointIsWhole
  BY DEF WholeInv, Whole, CheckpointIsWhole
<1> QED BY <1>1, WholeInitially, WholePreserved, PTL DEF CheckpointSpec

-----------------------------------------------------------------------------
(* What is quiet is saved *)

FlushFits ==
  /\ DOMAIN flushing = {"step", "generation", "state", "after"}
  /\ flushing = NoFlush \/ flushing.step \in {"behind", "sent", "saved", "refused"}
  /\ generation \in Nat /\ flushing.generation \in Nat
  /\ pending \in Nat /\ flushes \in Nat

\* Until its document is initialized nothing is changed, marked or flushed.
UnreadyIsFresh ==
  runtime # "ready" =>
    pending = 0 /\ returning = {} /\ generation = 0 /\ ~dirty /\ flushing = NoFlush

\* What is marked is going to be flushed, or is in the flush that runs.
MarkIsFlushed == dirty => timer \/ flushes > 0 \/ flushing # NoFlush
FlushIsOfMark == flushing # NoFlush => dirty /\ flushing.generation <= generation

\* The host is ahead of the marks: its announcement or the end of a request is to come.
Ahead == pending > 0 \/ returning # {} \/ unmarked

\* A flush since which nothing was marked has the state the host has.
FlushIsCurrent ==
  flushing # NoFlush /\ flushing.generation = generation /\ ~Ahead => flushing.state = host

\* The worker writes what the flush that runs sent, and nothing behind a clean one.
SaveIsOfFlush ==
  /\ flushing.step = "sent" => saving = flushing.state
  /\ flushing.step \in {"saved", "refused"} \/ (generation > 0 /\ ~dirty) => saving = NoCheckpoint
  /\ flushing.step = "saved" => stored = flushing.state

CleanIsSaved == runtime = "ready" /\ generation > 0 /\ ~dirty /\ ~Ahead => stored = host

SavedInv ==
  /\ FlushFits /\ UnreadyIsFresh /\ MarkIsFlushed /\ FlushIsOfMark
  /\ FlushIsCurrent /\ SaveIsOfFlush /\ CleanIsSaved

\* No flush is a flush of nothing.
LEMMA NoFlushFits ==
  /\ DOMAIN NoFlush = {"step", "generation", "state", "after"}
  /\ NoFlush.step = "none" /\ NoFlush.generation = 0
BY DEF NoFlush

\* At the start there is nothing to save.
LEMMA SavedInitially == CheckpointInit => SavedInv
BY NoFlushFits DEF CheckpointInit, SavedInv, FlushFits, UnreadyIsFresh, MarkIsFlushed, FlushIsOfMark,
   FlushIsCurrent, SaveIsOfFlush, CleanIsSaved, Ahead

\* The host changes and is marked, in one step.
LEMMA MarkedKeeps ==
  ASSUME SavedInv, Mark, runtime' = "ready", pending' \in Nat, UNCHANGED <<flushes, flushing, saving, stored>>
  PROVE  SavedInv'
BY NoFlushFits, SMT DEF SavedInv, FlushFits, UnreadyIsFresh, MarkIsFlushed, FlushIsOfMark,
   FlushIsCurrent, SaveIsOfFlush, CleanIsSaved, Ahead, Mark

\* The host changes and is to be marked.
LEMMA AheadKeeps ==
  ASSUME SavedInv, Ahead', runtime = "ready", pending' \in Nat,
         UNCHANGED <<runtime, dirty, generation, timer, flushes, flushing, saving, stored>>
  PROVE  SavedInv'
BY NoFlushFits, SMT DEF SavedInv, FlushFits, UnreadyIsFresh, MarkIsFlushed, FlushIsOfMark,
   FlushIsCurrent, SaveIsOfFlush, CleanIsSaved

\* Neither the host nor what is marked, flushed or saved changes.
LEMMA RestKeeps ==
  ASSUME SavedInv, UNCHANGED <<host, pending, returning, dirty, generation, flushing, saving, stored, unmarked>>,
         flushes' \in Nat, timer \/ flushes > 0 => timer' \/ flushes' > 0,
         runtime' = "ready" /\ runtime # "ready" => generation = 0,
         runtime' # "ready" => runtime # "ready"
  PROVE  SavedInv'
BY NoFlushFits, SMT DEF SavedInv, FlushFits, UnreadyIsFresh, MarkIsFlushed, FlushIsOfMark,
   FlushIsCurrent, SaveIsOfFlush, CleanIsSaved, Ahead

\* What the host does is marked, or its announcement or answer is still to come (publish, reply).
LEMMA HostKeepsSaved ==
  ASSUME SavedInv, Opens \/ AgentChanges \/ Announces \/ \E release \in BOOLEAN : HostAnswers(release)
  PROVE  SavedInv'
<1>0. pending \in Nat BY DEF SavedInv, FlushFits
<1>1. CASE Opens BY <1>0, <1>1, MarkedKeeps DEF Opens, Emits, workerVars
<1>2. CASE AgentChanges
  <2>1. pending' \in Nat /\ pending' > 0 BY <1>0, <1>2 DEF AgentChanges
  <2> QED BY <1>2, <2>1, AheadKeeps DEF AgentChanges, workerVars, controllerVars, Ahead
<1>3. CASE Announces
  <2>1. pending' \in Nat BY <1>0, <1>3 DEF Announces
  <2>2. runtime = "ready" BY <1>3 DEF Announces, SavedInv, UnreadyIsFresh
  <2> QED BY <1>3, <2>1, <2>2, MarkedKeeps DEF Announces, Emits, workerVars
<1>4. ASSUME NEW release \in BOOLEAN, HostAnswers(release) PROVE SavedInv'
  <2>1. returning' # {} BY <1>4 DEF HostAnswers
  <2> QED BY <1>0, <1>4, <2>1, AheadKeeps DEF HostAnswers, workerVars, Ahead
<1> QED BY <1>1, <1>2, <1>3, <1>4

\* The controller marks, arms its timer and flushes the state it exports (markDirty,
\* flushCheckpoint).
LEMMA ControllerKeepsSaved ==
  ASSUME SavedInv,
         \/ \E ok \in BOOLEAN : StreamDelivers(ok) \/ FlushEnds(ok)
         \/ \E r \in returning : Returns(r)
         \/ TimerFires \/ Flushes \/ FlushSends
  PROVE  SavedInv'
<1>0. pending \in Nat /\ flushes \in Nat BY DEF SavedInv, FlushFits
<1>1. ASSUME NEW ok \in BOOLEAN, StreamDelivers(ok) PROVE SavedInv'
  BY <1>0, <1>1, RestKeeps DEF StreamDelivers, workerVars
<1>2. ASSUME NEW ok \in BOOLEAN, FlushEnds(ok) PROVE SavedInv'
  <2>1. /\ flushing # NoFlush /\ flushing.step = (IF ok THEN "saved" ELSE "refused")
        /\ flushing' = NoFlush
        /\ UNCHANGED <<host, pending, returning, generation, flushes, runtime, saving, stored, unmarked>>
    BY <1>2, NoFlushFits DEF FlushEnds, workerVars
  <2>2. dirty /\ saving = NoCheckpoint /\ (ok => stored = flushing.state)
    BY <2>1 DEF SavedInv, FlushIsOfMark, SaveIsOfFlush
  <2>3. runtime = "ready" BY <2>1 DEF SavedInv, UnreadyIsFresh
  <2>4. FlushFits' BY <2>1, NoFlushFits, SMT DEF SavedInv, FlushFits
  <2>5. CASE ok /\ generation = flushing.generation
    <3>1. dirty' = FALSE BY <1>2, <2>5 DEF FlushEnds
    <3>2. ~Ahead => stored = host BY <2>1, <2>2, <2>5 DEF SavedInv, FlushIsCurrent
    <3> QED BY <2>1, <2>2, <2>3, <2>4, <3>1, <3>2, NoFlushFits DEF SavedInv, UnreadyIsFresh, MarkIsFlushed,
               FlushIsOfMark, FlushIsCurrent, SaveIsOfFlush, CleanIsSaved, Ahead
  <2>6. CASE ~(ok /\ generation = flushing.generation)
    <3>1. dirty' = TRUE /\ timer' = TRUE BY <1>2, <2>6 DEF FlushEnds
    <3> QED BY <2>1, <2>2, <2>3, <2>4, <3>1, NoFlushFits DEF SavedInv, UnreadyIsFresh, MarkIsFlushed,
               FlushIsOfMark, FlushIsCurrent, SaveIsOfFlush, CleanIsSaved, Ahead
  <2> QED BY <2>5, <2>6
<1>3. ASSUME NEW r \in returning, Returns(r) PROVE SavedInv'
  <2>1. runtime = "ready" BY <1>3 DEF SavedInv, UnreadyIsFresh
  <2>2. CASE streamTail.failed
    <3>1. Ahead' BY <1>3, <2>2 DEF Returns, Ahead
    <3> QED BY <1>0, <1>3, <2>1, <2>2, <3>1, AheadKeeps DEF Returns, Unmarked, workerVars
  <2>3. CASE ~streamTail.failed BY <1>0, <1>3, <2>1, <2>3, MarkedKeeps DEF Returns, workerVars
  <2> QED BY <2>2, <2>3
<1>4. CASE TimerFires BY <1>0, <1>4, RestKeeps DEF TimerFires, workerVars
<1>5. CASE Flushes
  <2>1. CASE dirty /\ pending = 0
    <3>1. /\ flushing' = [step |-> "behind", generation |-> generation, state |-> host, after |-> streamTail.sent]
          /\ flushes > 0 /\ flushes' = flushes - 1
          /\ UNCHANGED <<host, pending, returning, dirty, generation, runtime, saving, stored, unmarked>>
      BY <1>5, <2>1 DEF Flushes, workerVars
    <3>2. /\ DOMAIN flushing' = {"step", "generation", "state", "after"}
          /\ flushing'.step = "behind" /\ flushing'.generation = generation /\ flushing'.state = host
          /\ flushing' # NoFlush
      BY <3>1, NoFlushFits
    <3>3. FlushFits' BY <3>1, <3>2, SMT DEF SavedInv, FlushFits
    <3>4. runtime = "ready" BY <2>1 DEF SavedInv, UnreadyIsFresh
    <3>5. generation \in Nat BY DEF SavedInv, FlushFits
    <3> QED BY <2>1, <3>1, <3>2, <3>3, <3>4, <3>5 DEF SavedInv, UnreadyIsFresh, MarkIsFlushed,
               FlushIsOfMark, FlushIsCurrent, SaveIsOfFlush, CleanIsSaved, Ahead
  <2>2. CASE ~(dirty /\ pending = 0)
    <3>1. /\ flushes > 0 /\ flushes' = flushes - 1
          /\ UNCHANGED <<host, pending, returning, dirty, generation, runtime, flushing, saving, stored, unmarked>>
      BY <1>5, <2>2 DEF Flushes, workerVars
    <3>2. dirty => timer'
      <4>1. dirty => pending > 0 BY <1>0, <2>2
      <4>2. timer' = (timer \/ (dirty /\ pending > 0)) BY <1>5 DEF Flushes
      <4> QED BY <4>1, <4>2, Zenon
    <3>3. FlushFits' BY <3>1, SMT DEF SavedInv, FlushFits
    <3> QED BY <3>1, <3>2, <3>3 DEF SavedInv, UnreadyIsFresh, MarkIsFlushed,
               FlushIsOfMark, FlushIsCurrent, SaveIsOfFlush, CleanIsSaved, Ahead
  <2> QED BY <2>1, <2>2
<1>6. CASE FlushSends
  BY <1>6, NoFlushFits, SMT DEF FlushSends, SavedInv, FlushFits, UnreadyIsFresh, MarkIsFlushed, FlushIsOfMark,
     FlushIsCurrent, SaveIsOfFlush, CleanIsSaved, Ahead
<1> QED BY <1>1, <1>2, <1>3, <1>4, <1>5, <1>6

\* The worker stores the state of the flush it was sent (handleCheckpoint), or dies.
LEMMA WorkerKeepsSaved ==
  ASSUME SavedInv,
         \/ \E ok \in BOOLEAN : Saves(ok)
         \/ Ensures \/ Loads \/ Initialized \/ WorkerEnds
  PROVE  SavedInv'
<1>0. flushes \in Nat BY DEF SavedInv, FlushFits
<1>1. ASSUME NEW ok \in BOOLEAN, Saves(ok) PROVE SavedInv'
  BY <1>1, NoFlushFits, SMT DEF Saves, SavedInv, FlushFits, UnreadyIsFresh, MarkIsFlushed, FlushIsOfMark,
     FlushIsCurrent, SaveIsOfFlush, CleanIsSaved, Ahead
<1>2. CASE Ensures BY <1>0, <1>2, RestKeeps DEF Ensures, controllerVars
<1>3. CASE Loads BY <1>0, <1>3, RestKeeps DEF Loads, documentVars, controllerVars
<1>4. CASE Initialized
  <2>1. runtime # "ready" => generation = 0 BY DEF SavedInv, UnreadyIsFresh
  <2> QED BY <1>0, <1>4, <2>1, RestKeeps DEF Initialized, controllerVars
<1>5. CASE WorkerEnds
  BY <1>5, NoFlushFits, SMT DEF WorkerEnds, SavedInv, FlushFits, UnreadyIsFresh, MarkIsFlushed, FlushIsOfMark,
     FlushIsCurrent, SaveIsOfFlush, CleanIsSaved, Ahead
<1> QED BY <1>1, <1>2, <1>3, <1>4, <1>5

\* A document that is restored or lost leaves nothing to save (initialize).
LEMMA DocumentKeepsSaved ==
  ASSUME SavedInv,
         \/ RestoreBegins \/ RestoreFails \/ DocumentEnds
         \/ \E orphans \in BOOLEAN : Restored(orphans)
  PROVE  SavedInv'
<1>1. CASE RestoreBegins
  BY <1>1, NoFlushFits, SMT DEF RestoreBegins, SavedInv, FlushFits, UnreadyIsFresh, MarkIsFlushed, FlushIsOfMark,
     FlushIsCurrent, SaveIsOfFlush, CleanIsSaved, Ahead, controllerVars, workerVars
<1>2. CASE RestoreFails
  BY <1>2, NoFlushFits, SMT DEF RestoreFails, SavedInv, FlushFits, UnreadyIsFresh, MarkIsFlushed, FlushIsOfMark,
     FlushIsCurrent, SaveIsOfFlush, CleanIsSaved, Ahead, controllerVars
<1>3. CASE DocumentEnds
  BY <1>3, NoFlushFits, SMT DEF DocumentEnds, SavedInv, FlushFits, UnreadyIsFresh, MarkIsFlushed, FlushIsOfMark,
     FlushIsCurrent, SaveIsOfFlush, CleanIsSaved, Ahead
<1>4. ASSUME NEW orphans \in BOOLEAN, Restored(orphans) PROVE SavedInv'
  <2>1. pending' \in Nat BY <1>4 DEF Restored, SavedInv, FlushFits
  <2> QED BY <1>4, <2>1, MarkedKeeps DEF Restored
<1> QED BY <1>1, <1>2, <1>3, <1>4

\* Every step keeps what is saved with what is to be saved.
THEOREM SavedPreserved == SavedInv /\ [CheckpointNext]_checkpointVars => SavedInv'
<1> SUFFICES ASSUME SavedInv, [CheckpointNext]_checkpointVars PROVE SavedInv'
  OBVIOUS
<1>1. CASE UNCHANGED checkpointVars
  <2>1. flushes \in Nat BY DEF SavedInv, FlushFits
  <2> QED BY <1>1, <2>1, RestKeeps DEF checkpointVars, documentVars, controllerVars, workerVars
<1>2. CASE CheckpointNext
  BY <1>2, HostKeepsSaved, ControllerKeepsSaved, WorkerKeepsSaved, DocumentKeepsSaved DEF CheckpointNext
<1> QED BY <1>1, <1>2

\* When nothing is left to do, chrome.storage.session has what the host has, for any
\* number of changes and failures.
THEOREM WhatIsQuietIsSaved == CheckpointSpec => []QuietIsSaved
<1>1. SavedInv => QuietIsSaved
  BY DEF SavedInv, MarkIsFlushed, CleanIsSaved, Ahead, FlushFits, QuietIsSaved
<1> QED BY <1>1, SavedInitially, SavedPreserved, PTL DEF CheckpointSpec

-----------------------------------------------------------------------------
(* Owners of a route *)

PortRecords ==
  [state: {"unborn", "open", "connected", "closed"}, session: RouteSessions \cup {NoSession}, lease: Nat,
   answer: {"none", "ok", "refused"}, request: {"none", "create", "release", "served", "released"}]
JobFields == {"kind", "session", "port", "step", "previous", "old", "write"}
FreshJobs ==
  [kind: {"connect", "bind", "replace", "release"}, session: RouteSessions, port: RoutePorts \cup {NoPort},
   step: {"begin"}, previous: {NoPort}, old: {NoSession}, write: {0}]

\* A port that asked for its session and was not answered: it is not connected and
\* has sent nothing.
Waits(p) ==
  /\ ports[p].state \in {"open", "closed"} /\ ports[p].session # NoSession
  /\ ports[p].answer = "none" /\ ports[p].request = "none"

NobodyConnected == \A p \in RoutePorts : ports[p].state # "connected"

\* Of each port: what is connected owns the route, what was answered "ok" has a session.
PortsFit ==
  /\ ports \in [RoutePorts -> PortRecords] /\ lease \in Nat /\ latestHello \in {"none", "known"}
  /\ \A p \in RoutePorts :
       /\ ports[p].state = "connected" =>
            accepted = ports[p].session /\ activePort = p /\ accepted # NoSession /\ latestHello = "known"
       /\ ports[p].request # "none" \/ ports[p].state = "connected" => ports[p].answer = "ok"
       /\ ports[p].answer = "ok" => ports[p].session # NoSession

\* Of the job: where it is in its steps, the route is nobody's, or still the old session's.
JobFits ==
  /\ DOMAIN holder = JobFields
  /\ holder.kind \in {"none", "connect", "bind", "replace", "release"}
  /\ holder.kind = "none" => holder.step = "none"
  /\ holder.kind = "connect" =>
       /\ holder.port \in RoutePorts /\ Waits(holder.port) /\ ports[holder.port].session = holder.session
       /\ holder.step \in {"begin", "greet", "bind", "persist"}
       /\ holder.step # "begin" => NobodyConnected /\ activePort \in {holder.port, NoPort}
                                /\ (PortOpen(holder.port) => activePort = holder.port)
       /\ holder.step \in {"bind", "persist"} => accepted = NoSession
       /\ holder.step = "greet" => accepted = holder.session
       /\ holder.step = "persist" => latestHello = "known"
  /\ LockedSession =>
       /\ holder.step \in {"begin", "hello", "release", "released", "forgotten", "bind", "persist", "greet"}
       /\ holder.step \in {"hello", "release", "released"} => accepted \in {holder.old, NoSession}
       /\ holder.step \in {"forgotten", "bind", "persist"} => accepted = NoSession
       /\ holder.step = "greet" => NobodyConnected

\* Of the jobs that wait: the ports of the connects wait, each in one of them.
ConnectAt(i) == i \in 1..Len(waiting) /\ waiting[i].kind = "connect"
QueueFits ==
  /\ waiting \in Seq(FreshJobs)
  /\ \A i \in 1..Len(waiting) : ConnectAt(i) =>
       /\ waiting[i].port \in RoutePorts /\ Waits(waiting[i].port)
       /\ ports[waiting[i].port].session = waiting[i].session
       /\ holder.kind = "connect" => waiting[i].port # holder.port
  /\ \A i, j \in 1..Len(waiting) : ConnectAt(i) /\ ConnectAt(j) /\ i # j => waiting[i].port # waiting[j].port

RouteInv == PortsFit /\ JobFits /\ QueueFits

\* At the start there is no port, no job and no session.
THEOREM RouteInitially == RouteInit => RouteInv
<1> SUFFICES ASSUME RouteInit PROVE RouteInv
  OBVIOUS
<1>1. PortsFit
  BY SMT DEF RouteInit, PortsFit, PortRecords, Unborn
<1>2. JobFits
  BY SMT DEF RouteInit, JobFits, JobFields, NoJob, Job, LockedSession
<1>3. QueueFits
  BY SMT DEF RouteInit, QueueFits, ConnectAt
<1> QED BY <1>1, <1>2, <1>3 DEF RouteInv

-----------------------------------------------------------------------------
(* What a step may do to the ports without touching who waits *)

\* The ports that wait wait on, and for the same session, but perhaps for the job's.
LEMMA QueueKept ==
  ASSUME QueueFits, UNCHANGED waiting,
         holder'.kind = "connect" => holder.kind = "connect" /\ holder'.port = holder.port,
         \A p \in RoutePorts :
            Waits(p) /\ (holder.kind = "connect" => p # holder.port) => Waits(p)' /\ ports'[p].session = ports[p].session
  PROVE  QueueFits'
BY SMT DEF QueueFits, ConnectAt

\* closeConnection, whatever ports it closes.
LEMMA Closing ==
  ASSUME RouteInv, NEW gone,
         ports' = Shut(ports, gone), activePort' = ActiveWithout(gone)
  PROVE  /\ ports' \in [RoutePorts -> PortRecords]
         /\ \A p \in RoutePorts :
              /\ Waits(p) => Waits(p)' /\ ports'[p].session = ports[p].session
              /\ ports'[p].state = "connected" => ports[p].state = "connected" /\ p \notin gone
              /\ ports'[p].session = ports[p].session /\ ports'[p].answer = ports[p].answer
              /\ ports'[p].request = ports[p].request
              /\ PortOpen(p)' <=> PortOpen(p) /\ p \notin gone
<1>1. \A p \in RoutePorts : ports[p] \in PortRecords
  BY DEF RouteInv, PortsFit
<1>2. \A p \in RoutePorts : ports'[p] = IF p \in gone THEN [ports[p] EXCEPT !.state = "closed"] ELSE ports[p]
  BY DEF Shut
<1>3. ASSUME NEW p \in RoutePorts PROVE ports'[p] \in PortRecords
  <2>1. [ports[p] EXCEPT !.state = "closed"] \in PortRecords
    BY <1>1, SMT DEF PortRecords
  <2> QED BY <1>1, <1>2, <2>1
<1>4. ports' \in [RoutePorts -> PortRecords]
  BY <1>3 DEF Shut
<1> QED BY <1>1, <1>2, <1>4, SMT DEF PortRecords, Waits, PortOpen

\* A step that closes ports and leaves the job and the route to whom they are.
LEMMA ClosingKeeps ==
  ASSUME RouteInv, NEW gone,
         ports' = Shut(ports, gone), activePort' = ActiveWithout(gone),
         UNCHANGED <<accepted, latestHello, lease, holder, waiting>>
  PROVE  RouteInv'
<1>1. PortsFit'
  <2>1. ASSUME NEW p \in RoutePorts
        PROVE  /\ ports'[p].state = "connected" =>
                    accepted' = ports'[p].session /\ activePort' = p /\ accepted' # NoSession /\ latestHello' = "known"
               /\ ports'[p].request # "none" \/ ports'[p].state = "connected" => ports'[p].answer = "ok"
               /\ ports'[p].answer = "ok" => ports'[p].session # NoSession
    <3>1. /\ ports'[p].state = "connected" => ports[p].state = "connected" /\ p \notin gone
          /\ ports'[p].session = ports[p].session /\ ports'[p].answer = ports[p].answer
          /\ ports'[p].request = ports[p].request
      BY Closing
    <3> QED BY <3>1, SMT DEF RouteInv, PortsFit, ActiveWithout
  <2> QED BY <2>1, Closing DEF RouteInv, PortsFit
<1>2. JobFits'
  BY Closing, SMT DEF RouteInv, JobFits, ActiveWithout, NobodyConnected, LockedSession
<1>3. QueueFits'
  BY Closing, QueueKept DEF RouteInv
<1> QED BY <1>1, <1>2, <1>3 DEF RouteInv

\* A step that changes one port, which does not wait and is not connected by it.
LEMMA PortChanges ==
  ASSUME RouteInv, NEW p \in RoutePorts, NEW r \in PortRecords,
         ports' = [ports EXCEPT ![p] = r], ~Waits(p),
         r.state = "connected" => ports[p].state = "connected" /\ r.session = ports[p].session,
         r.request # "none" \/ r.state = "connected" => r.answer = "ok",
         r.answer = "ok" => r.session # NoSession,
         UNCHANGED <<activePort, accepted, latestHello, lease, holder, waiting>>
  PROVE  RouteInv'
<1>1. ports \in [RoutePorts -> PortRecords]
  BY DEF RouteInv, PortsFit
<1>2. ports' \in [RoutePorts -> PortRecords] /\ ports'[p] = r
  BY <1>1
<1>3. \A q \in RoutePorts : q # p => ports'[q] = ports[q]
  BY <1>1
<1>4. \A q \in RoutePorts : Waits(q) => Waits(q)' /\ ports'[q] = ports[q]
  <2> SUFFICES ASSUME NEW q \in RoutePorts, Waits(q) PROVE Waits(q)' /\ ports'[q] = ports[q]
    OBVIOUS
  <2>1. q # p
    OBVIOUS
  <2>2. ports'[q] = ports[q]
    BY <2>1, <1>3
  <2> QED BY <2>2 DEF Waits
<1>5. PortsFit'
  <2>1. ASSUME NEW q \in RoutePorts
        PROVE  /\ ports'[q].state = "connected" =>
                    accepted' = ports'[q].session /\ activePort' = q /\ accepted' # NoSession /\ latestHello' = "known"
               /\ ports'[q].request # "none" \/ ports'[q].state = "connected" => ports'[q].answer = "ok"
               /\ ports'[q].answer = "ok" => ports'[q].session # NoSession
    <3>1. CASE q = p
      BY <1>2, <3>1, SMT DEF RouteInv, PortsFit
    <3>2. CASE q # p
      BY <1>3, <3>2, SMT DEF RouteInv, PortsFit
    <3> QED BY <3>1, <3>2
  <2> QED BY <1>2, <2>1 DEF PortsFit, RouteInv
<1>6. JobFits'
  <2>1. NobodyConnected => NobodyConnected'
    BY <1>2, <1>3 DEF NobodyConnected
  <2> QED BY <1>4, <2>1, SMT DEF RouteInv, JobFits, LockedSession, PortOpen
<1>7. QueueFits'
  <2>1. \A q \in RoutePorts :
          Waits(q) /\ (holder.kind = "connect" => q # holder.port) => Waits(q)' /\ ports'[q].session = ports[q].session
    BY <1>4
  <2> QED BY <2>1, QueueKept DEF RouteInv
<1> QED BY <1>5, <1>6, <1>7 DEF RouteInv

-----------------------------------------------------------------------------
(* Ports *)

\* A page opens its port (handleConnect).
LEMMA PortOpensKeeps == ASSUME RouteInv, NEW p \in RoutePorts, PortOpens(p) PROVE RouteInv'
<1> DEFINE r == [Unborn EXCEPT !.state = "open", !.lease = lease]
<1>0. r = [state |-> "open", session |-> NoSession, lease |-> lease, answer |-> "none", request |-> "none"]
  <2>1. [Unborn EXCEPT !.state = "open"] =
          [state |-> "open", session |-> NoSession, lease |-> 0, answer |-> "none", request |-> "none"]
    BY DEF Unborn
  <2>2. r = [[Unborn EXCEPT !.state = "open"] EXCEPT !.lease = lease]
    BY DEF Unborn
  <2>3. [[state |-> "open", session |-> NoSession, lease |-> 0, answer |-> "none", request |-> "none"]
           EXCEPT !.lease = lease]
         = [state |-> "open", session |-> NoSession, lease |-> lease, answer |-> "none", request |-> "none"]
    OBVIOUS
  <2> QED BY <2>1, <2>2, <2>3, Zenon
<1>1. r \in PortRecords /\ r.state = "open" /\ r.request = "none" /\ r.answer = "none"
  BY <1>0 DEF RouteInv, PortsFit, PortRecords
<1>2. ~Waits(p)
  BY SMT DEF PortOpens, Waits, Unborn
<1>3. ports' = [ports EXCEPT ![p] = r] /\ UNCHANGED <<activePort, accepted, latestHello, lease, holder, waiting>>
  BY DEF PortOpens, lockVars
<1> HIDE DEF r
<1> QED BY <1>1, <1>2, <1>3, PortChanges

\* A port disconnects (handleDisconnect).
LEMMA PortClosesKeeps == ASSUME RouteInv, NEW p \in RoutePorts, PortCloses(p) PROVE RouteInv'
BY ClosingKeeps DEF PortCloses, lockVars

\* The offscreen document is made anew: what was cached of it goes.
LEMMA NewDocumentKeeps == ASSUME RouteInv, NewDocument PROVE RouteInv'
<1>1. UNCHANGED <<ports, activePort, accepted, latestHello, holder, waiting>> /\ lease' = lease + 1
  BY DEF NewDocument, lockVars
<1>2. PortsFit'
  BY <1>1, SMT DEF RouteInv, PortsFit
<1>3. JobFits'
  BY <1>1 DEF RouteInv, JobFits, Waits, NobodyConnected, PortOpen, LockedSession
<1>4. QueueFits'
  BY <1>1, QueueKept DEF RouteInv, Waits
<1> QED BY <1>2, <1>3, <1>4 DEF RouteInv

\* A port that asks had no session: it waits in no other job.
LEMMA PortAsksKeeps ==
  ASSUME RouteInv, NEW p \in RoutePorts, NEW s \in RouteSessions, PortAsks(p, s)
  PROVE  RouteInv'
<1>1. CASE ~Current(p)
  BY <1>1, ClosingKeeps DEF PortAsks
<1>2. CASE Current(p)
  <2> DEFINE new == Job("connect", s, p)
  <2>1. ports \in [RoutePorts -> PortRecords] /\ waiting \in Seq(FreshJobs)
    BY DEF RouteInv, PortsFit, QueueFits
  <2>2. /\ ports' = [ports EXCEPT ![p].session = s] /\ waiting' = Append(waiting, new)
        /\ UNCHANGED <<activePort, accepted, latestHello, lease, holder>>
        /\ ports[p].state = "open" /\ ports[p].session = NoSession /\ ports[p].answer = "none"
    BY <1>2 DEF PortAsks
  <2>3. /\ new \in FreshJobs /\ new.kind = "connect" /\ new.port = p /\ new.session = s
    <3>1. new = [kind |-> "connect", session |-> s, port |-> p, step |-> "begin", previous |-> NoPort,
                 old |-> NoSession, write |-> 0]
      BY DEF Job, NoJob
    <3> QED BY <3>1 DEF FreshJobs
  <2>4. ports' \in [RoutePorts -> PortRecords]
    <3>1. [ports[p] EXCEPT !.session = s] \in PortRecords
      BY <2>1, SMT DEF PortRecords
    <3>2. ports' = [ports EXCEPT ![p] = [ports[p] EXCEPT !.session = s]]
      BY <2>2
    <3> QED BY <2>1, <3>1, <3>2
  <2>5. \A q \in RoutePorts : q # p => ports'[q] = ports[q]
    BY <2>1, <2>2
  <2>6. /\ ports'[p].state = "open" /\ ports'[p].session = s /\ s # NoSession
        /\ ports'[p].answer = "none" /\ ports'[p].request = ports[p].request /\ ports[p].request = "none"
    BY <2>1, <2>2, RoutesAssumption, SMT DEF RouteInv, PortsFit, PortRecords
  <2>7. Waits(p)' /\ ~Waits(p)
    BY <2>2, <2>6 DEF Waits
  <2>8. PortsFit'
    <3>1. ASSUME NEW q \in RoutePorts
          PROVE  /\ ports'[q].state = "connected" =>
                      accepted' = ports'[q].session /\ activePort' = q /\ accepted' # NoSession /\ latestHello' = "known"
                 /\ ports'[q].request # "none" \/ ports'[q].state = "connected" => ports'[q].answer = "ok"
                 /\ ports'[q].answer = "ok" => ports'[q].session # NoSession
      <4>1. CASE q = p
        BY <2>6, <4>1
      <4>2. CASE q # p
        BY <2>2, <2>5, <4>2 DEF RouteInv, PortsFit
      <4> QED BY <4>1, <4>2
    <3> QED BY <2>2, <2>4, <3>1 DEF PortsFit, RouteInv
  <2>9. holder.kind = "connect" => holder.port # p
    BY <2>7 DEF RouteInv, JobFits
  <2>10. JobFits'
    <3>1. NobodyConnected => NobodyConnected'
      BY <2>5, <2>6 DEF NobodyConnected
    <3>2. holder.kind = "connect" => ports'[holder.port] = ports[holder.port]
      BY <2>5, <2>9 DEF RouteInv, JobFits
    <3> QED BY <2>2, <3>1, <3>2, SMT DEF RouteInv, JobFits, LockedSession, PortOpen, Waits
  <2>11. QueueFits'
    <3>1. /\ Len(waiting') = Len(waiting) + 1 /\ waiting' \in Seq(FreshJobs)
          /\ \A i \in 1..Len(waiting) : waiting'[i] = waiting[i]
          /\ waiting'[Len(waiting) + 1] = new
      BY <2>1, <2>2, <2>3, SMT
    <3>2. \A i \in 1..Len(waiting) : ConnectAt(i) => waiting[i].port # p
      BY <2>7 DEF RouteInv, QueueFits
    <3> HIDE DEF new
    <3>3. ASSUME NEW i \in 1..Len(waiting'), ConnectAt(i)'
          PROVE  (/\ waiting[i].port \in RoutePorts /\ Waits(waiting[i].port)
                  /\ ports[waiting[i].port].session = waiting[i].session
                  /\ holder.kind = "connect" => waiting[i].port # holder.port)'
      <4>1. CASE i = Len(waiting) + 1
        BY <2>2, <2>3, <2>6, <2>7, <2>9, <3>1, <4>1
      <4>2. CASE i # Len(waiting) + 1
        <5>1. i \in 1..Len(waiting)
          BY <2>1, <3>1, <4>2, SMT
        <5>2. waiting'[i] = waiting[i] /\ ConnectAt(i) /\ waiting[i].port # p
          BY <3>1, <3>2, <3>3, <5>1 DEF ConnectAt
        <5>3. ports'[waiting[i].port] = ports[waiting[i].port]
          BY <2>5, <5>1, <5>2 DEF RouteInv, QueueFits
        <5> QED BY <2>2, <5>1, <5>2, <5>3 DEF RouteInv, QueueFits, Waits
      <4> QED BY <4>1, <4>2
    <3>4. ASSUME NEW i \in 1..Len(waiting'), NEW j \in 1..Len(waiting'), ConnectAt(i)', ConnectAt(j)', i # j
          PROVE  waiting'[i].port # waiting'[j].port
      <4>1. \A k \in 1..Len(waiting') : ConnectAt(k)' /\ k # Len(waiting) + 1 =>
              k \in 1..Len(waiting) /\ ConnectAt(k) /\ waiting'[k] = waiting[k] /\ waiting[k].port # p
        BY <2>1, <3>1, <3>2, SMT DEF ConnectAt
      <4>2. waiting'[Len(waiting) + 1].port = p
        BY <2>3, <3>1
      <4> QED BY <3>4, <4>1, <4>2 DEF RouteInv, QueueFits
    <3> QED BY <3>1, <3>3, <3>4 DEF QueueFits
  <2> QED BY <2>8, <2>10, <2>11 DEF RouteInv
<1> QED BY <1>1, <1>2

\* A connected port asks the host for a session or for its release.
LEMMA PortRequestsKeeps ==
  ASSUME RouteInv, NEW p \in RoutePorts, NEW request \in {"create", "release"}, PortRequests(p, request)
  PROVE  RouteInv'
<1>1. CASE ~Current(p)
  BY <1>1, ClosingKeeps DEF PortRequests, lockVars
<1>2. CASE Current(p)
  <2> DEFINE r == [ports[p] EXCEPT !.request = request]
  <2>1. ports[p] \in PortRecords /\ ports[p].state = "connected"
    BY DEF RouteInv, PortsFit, PortRequests
  <2>2. /\ r \in PortRecords /\ r.state = ports[p].state /\ r.session = ports[p].session
        /\ r.answer = ports[p].answer
    BY <2>1, SMT DEF PortRecords
  <2>3. ~Waits(p) /\ r.answer = "ok" /\ r.session # NoSession
    BY <2>1, <2>2 DEF RouteInv, PortsFit, Waits
  <2>4. ports' = [ports EXCEPT ![p] = r] /\ UNCHANGED <<activePort, accepted, latestHello, lease, holder, waiting>>
    BY <1>2 DEF PortRequests, lockVars
  <2> HIDE DEF r
  <2> QED BY <2>2, <2>3, <2>4, PortChanges
<1> QED BY <1>1, <1>2

\* The host serves what a port asked.
LEMMA HostServesKeeps == ASSUME RouteInv, NEW p \in RoutePorts, HostServes(p) PROVE RouteInv'
<1>1. PICK served \in {"served", "released"} :
        ports' = [ports EXCEPT ![p] = [ports[p] EXCEPT !.request = served]]
  BY DEF HostServes
<1> DEFINE r == [ports[p] EXCEPT !.request = served]
<1>2. ports[p] \in PortRecords /\ ports[p].request # "none"
  BY DEF RouteInv, PortsFit, HostServes
<1>3. /\ r \in PortRecords /\ r.state = ports[p].state /\ r.session = ports[p].session
      /\ r.answer = ports[p].answer
  BY <1>2, SMT DEF PortRecords
<1>4. ~Waits(p) /\ r.answer = "ok" /\ r.session # NoSession
  BY <1>2, <1>3 DEF RouteInv, PortsFit, Waits
<1>5. UNCHANGED <<activePort, accepted, latestHello, lease, holder, waiting>>
  BY DEF HostServes, lockVars
<1> HIDE DEF r
<1>6. ports' = [ports EXCEPT ![p] = r]
  BY <1>1 DEF r
<1> QED BY <1>3, <1>4, <1>5, <1>6, PortChanges

\* The answer to a request of a port that waits no more.  If it ends the route, the job
\* that holds the lock is not a connect past its first step: its port would be the route's (activePort).
LEMMA PortAnsweredKeeps == ASSUME RouteInv, NEW p \in RoutePorts, PortAnswered(p) PROVE RouteInv'
<1> DEFINE ps == [ports EXCEPT ![p].request = "none"]
<1>1. ports \in [RoutePorts -> PortRecords] /\ ports[p].request # "none" /\ ~Waits(p)
  BY DEF RouteInv, PortsFit, PortAnswered, Waits
<1>2. ps \in [RoutePorts -> PortRecords]
  <2>1. [ports[p] EXCEPT !.request = "none"] \in PortRecords
    BY <1>1, SMT DEF PortRecords
  <2>2. ps = [ports EXCEPT ![p] = [ports[p] EXCEPT !.request = "none"]]
    OBVIOUS
  <2> QED BY <1>1, <2>1, <2>2
<1>3. \A q \in RoutePorts :
        /\ q # p => ps[q] = ports[q]
        /\ ps[q].state = ports[q].state /\ ps[q].session = ports[q].session /\ ps[q].answer = ports[q].answer
        /\ ps[q].request \in {ports[q].request, "none"}
  BY <1>1, SMT DEF PortRecords
<1>4. UNCHANGED <<lease, holder, waiting>>
  BY DEF PortAnswered, lockVars
<1>5. \A q \in RoutePorts : Waits(q) => q # p /\ ps[q] = ports[q]
  BY <1>1, <1>3
<1>6. holder.kind = "connect" => holder.port # p
  BY <1>1 DEF RouteInv, JobFits
<1> DEFINE ends == Current(p) /\ activePort = p /\ ports[p].request = "released" /\ accepted = ports[p].session
<1> DEFINE gone == IF Current(p) THEN {} ELSE {p}
<1>7. /\ ends => Forgets(ps, FALSE)
      /\ ~ends => /\ ports' = Shut(ps, gone) /\ activePort' = ActiveWithout(gone)
                  /\ UNCHANGED <<accepted, latestHello>>
  BY DEF PortAnswered
<1> HIDE DEF ps
<1>8. CASE ends
  <2>1. /\ ports' = [q \in RoutePorts |-> [ps[q] EXCEPT !.state = IF @ = "connected" THEN "open" ELSE @]]
        /\ accepted' = NoSession /\ activePort' = NoPort /\ activePort = p /\ latestHello' = "none"
    BY <1>7, <1>8 DEF Forgets
  <2>2. ASSUME NEW q \in RoutePorts
        PROVE  /\ ports'[q] \in PortRecords /\ ports'[q].state # "connected"
               /\ ports'[q].session = ports[q].session /\ ports'[q].answer = ports[q].answer
               /\ ports'[q].request \in {ports[q].request, "none"}
               /\ Waits(q) => Waits(q)'
    <3>1. ps[q] \in PortRecords
      BY <1>2
    <3>2. ports'[q] = [ps[q] EXCEPT !.state = IF ps[q].state = "connected" THEN "open" ELSE ps[q].state]
      BY <2>1
    <3>3. /\ ports'[q] \in PortRecords /\ ports'[q].state # "connected"
          /\ ports'[q].session = ps[q].session /\ ports'[q].answer = ps[q].answer
          /\ ports'[q].request = ps[q].request
          /\ ports'[q].state = IF ps[q].state = "connected" THEN "open" ELSE ps[q].state
      BY <3>1, <3>2, SMT DEF PortRecords
    <3> QED BY <1>3, <1>5, <3>3 DEF Waits
  <2>3. ports' \in [RoutePorts -> PortRecords]
    BY <2>1, <2>2
  <2>4. PortsFit'
    <3>1. ASSUME NEW q \in RoutePorts
          PROVE  /\ ports'[q].request # "none" => ports'[q].answer = "ok"
                 /\ ports'[q].answer = "ok" => ports'[q].session # NoSession
      BY <2>2 DEF RouteInv, PortsFit
    <3> QED BY <1>4, <2>1, <2>2, <2>3, <3>1 DEF RouteInv, PortsFit
  <2>5. NobodyConnected'
    BY <2>2 DEF NobodyConnected
  <2>6. holder.kind = "connect" => holder.step = "begin" /\ Waits(holder.port)' /\ ports'[holder.port].session = holder.session
    <3>1. p # NoPort
      BY RoutesAssumption
    <3>2. holder.kind = "connect" => holder.port \in RoutePorts /\ Waits(holder.port)
      BY DEF RouteInv, JobFits
    <3>3. holder.kind = "connect" => holder.step = "begin"
      BY <1>6, <2>1, <3>1 DEF RouteInv, JobFits
    <3> QED BY <1>4, <2>2, <3>2, <3>3 DEF RouteInv, JobFits
  <2>7. JobFits'
    BY <1>4, <2>1, <2>5, <2>6, SMT DEF RouteInv, JobFits, LockedSession
  <2>8. QueueFits'
    BY <1>4, <2>2, QueueKept DEF RouteInv
  <2> QED BY <2>4, <2>7, <2>8 DEF RouteInv
<1>9. CASE ~ends
  <2>1. /\ ports' = [q \in RoutePorts |-> IF q \in gone THEN [ps[q] EXCEPT !.state = "closed"] ELSE ps[q]]
        /\ activePort' = IF activePort \in gone THEN NoPort ELSE activePort
        /\ UNCHANGED <<accepted, latestHello>> /\ gone \subseteq {p}
    BY <1>7, <1>9 DEF Shut, ActiveWithout
  <2> HIDE DEF gone, ends
  <2>2. ASSUME NEW q \in RoutePorts
        PROVE  /\ ports'[q] \in PortRecords
               /\ ports'[q].session = ports[q].session /\ ports'[q].answer = ports[q].answer
               /\ ports'[q].request \in {ports[q].request, "none"}
               /\ ports'[q].state = IF q \in gone THEN "closed" ELSE ports[q].state
    <3>1. ps[q] \in PortRecords
      BY <1>2
    <3>2. [ps[q] EXCEPT !.state = "closed"] \in PortRecords
      BY <3>1, SMT DEF PortRecords
    <3>3. ports'[q] = IF q \in gone THEN [ps[q] EXCEPT !.state = "closed"] ELSE ps[q]
      BY <2>1
    <3> QED BY <1>3, <3>1, <3>2, <3>3, SMT DEF PortRecords
  <2>3. ports' \in [RoutePorts -> PortRecords]
    BY <2>1, <2>2
  <2>4. PortsFit'
    <3>1. ASSUME NEW q \in RoutePorts
          PROVE  /\ ports'[q].state = "connected" =>
                      accepted' = ports'[q].session /\ activePort' = q /\ accepted' # NoSession /\ latestHello' = "known"
                 /\ ports'[q].request # "none" \/ ports'[q].state = "connected" => ports'[q].answer = "ok"
                 /\ ports'[q].answer = "ok" => ports'[q].session # NoSession
      <4>1. ports'[q].state = "connected" => ports[q].state = "connected" /\ q \notin gone
        BY <2>2
      <4>2. ports[q].state = "connected" =>
              accepted = ports[q].session /\ activePort = q /\ accepted # NoSession /\ latestHello = "known"
        BY DEF RouteInv, PortsFit
      <4>3. ports'[q].state = "connected" =>
              accepted' = ports'[q].session /\ activePort' = q /\ accepted' # NoSession /\ latestHello' = "known"
        BY <2>1, <2>2, <4>1, <4>2
      <4>4. /\ ports'[q].request # "none" \/ ports'[q].state = "connected" => ports'[q].answer = "ok"
            /\ ports'[q].answer = "ok" => ports'[q].session # NoSession
        BY <2>2, <4>1 DEF RouteInv, PortsFit
      <4> QED BY <4>3, <4>4
    <3> QED BY <1>4, <2>1, <2>3, <3>1 DEF RouteInv, PortsFit
  <2>5. \A q \in RoutePorts : q # p => ports'[q] = ports[q]
    BY <1>3, <2>1
  <2>6. holder.kind = "connect" => ports'[holder.port] = ports[holder.port] /\ (activePort = holder.port => activePort' = activePort)
    BY <1>6, <2>1, <2>5 DEF RouteInv, JobFits
  <2>7. NobodyConnected => NobodyConnected'
    BY <2>2 DEF NobodyConnected
  <2>8. activePort' \in {activePort, NoPort}
    BY <2>1
  <2>9. JobFits'
    <3>1. holder.kind = "connect" =>
            /\ holder.port \in RoutePorts /\ Waits(holder.port)' /\ ports'[holder.port].session = holder.session
            /\ holder.step \in {"begin", "greet", "bind", "persist"}
            /\ holder.step # "begin" => NobodyConnected' /\ activePort' \in {holder.port, NoPort}
                                     /\ (PortOpen(holder.port)' => activePort' = holder.port)
            /\ holder.step \in {"bind", "persist"} => accepted = NoSession
            /\ holder.step = "greet" => accepted = holder.session
            /\ holder.step = "persist" => latestHello = "known"
      BY <1>4, <2>6, <2>7, <2>8 DEF RouteInv, JobFits, PortOpen, Waits
    <3>2. LockedSession /\ holder.step = "greet" => NobodyConnected'
      BY <2>7 DEF RouteInv, JobFits
    <3>3. /\ DOMAIN holder = JobFields
          /\ holder.kind \in {"none", "connect", "bind", "replace", "release"}
          /\ holder.kind = "none" => holder.step = "none"
      BY DEF RouteInv, JobFits
    <3>4. LockedSession =>
            /\ holder.step \in {"begin", "hello", "release", "released", "forgotten", "bind", "persist", "greet"}
            /\ holder.step \in {"hello", "release", "released"} => accepted \in {holder.old, NoSession}
            /\ holder.step \in {"forgotten", "bind", "persist"} => accepted = NoSession
      BY DEF RouteInv, JobFits
    <3> QED BY <1>4, <2>1, <3>1, <3>2, <3>3, <3>4 DEF JobFits, LockedSession
  <2>10. QueueFits'
    <3>1. \A q \in RoutePorts : Waits(q) => Waits(q)' /\ ports'[q].session = ports[q].session
      BY <1>1, <2>5 DEF Waits
    <3> QED BY <1>4, <3>1, QueueKept DEF RouteInv
  <2> QED BY <2>4, <2>9, <2>10 DEF RouteInv
<1> QED BY <1>8, <1>9

-----------------------------------------------------------------------------
(* The lock *)

\* A panel asks for a bind, a replace or a release: another job waits for the lock.
LEMMA AsksKeeps ==
  ASSUME RouteInv, NEW kind \in {"bind", "replace", "release"}, NEW s \in RouteSessions, Asks(kind, s)
  PROVE  RouteInv'
<1> DEFINE new == Job(kind, s, NoPort)
<1>1. new \in FreshJobs /\ new.kind # "connect"
  BY DEF Job, FreshJobs
<1>2. waiting' = Append(waiting, new) /\ UNCHANGED <<ports, activePort, accepted, latestHello, lease, holder>>
  BY DEF Asks, portVars
<1> HIDE DEF new
<1>3. PortsFit' /\ JobFits'
  BY <1>2 DEF RouteInv, PortsFit, JobFits, Waits, NobodyConnected, PortOpen, LockedSession
<1>4. waiting \in Seq(FreshJobs)
  BY DEF RouteInv, QueueFits
<1>5. /\ Len(waiting') = Len(waiting) + 1 /\ waiting' \in Seq(FreshJobs) /\ Len(waiting) \in Nat
      /\ \A i \in 1..Len(waiting) : waiting'[i] = waiting[i]
      /\ waiting'[Len(waiting) + 1] = new
  BY <1>1, <1>2, <1>4, SMT
<1>6. \A i \in 1..Len(waiting') : ConnectAt(i)' => i \in 1..Len(waiting) /\ ConnectAt(i) /\ waiting'[i] = waiting[i]
  BY <1>1, <1>5, SMT DEF ConnectAt
<1>7. QueueFits'
  BY <1>2, <1>5, <1>6 DEF RouteInv, QueueFits, Waits
<1> QED BY <1>3, <1>7 DEF RouteInv

\* The first of the queue takes the lock; its port is in no other job.
LEMMA TakesKeeps == ASSUME RouteInv, Takes PROVE RouteInv'
<1>1. /\ holder = NoJob /\ waiting # <<>> /\ holder' = Head(waiting) /\ waiting' = Tail(waiting)
      /\ UNCHANGED <<ports, activePort, accepted, latestHello, lease>>
  BY DEF Takes, portVars
<1>2. waiting \in Seq(FreshJobs)
  BY DEF RouteInv, QueueFits
<1>3. /\ Len(waiting) \in Nat /\ Len(waiting) > 0 /\ holder' = waiting[1] /\ holder' \in FreshJobs
      /\ Len(waiting') = Len(waiting) - 1 /\ waiting' \in Seq(FreshJobs)
      /\ \A i \in 1..Len(waiting') : waiting'[i] = waiting[i + 1] /\ i + 1 \in 1..Len(waiting)
  BY <1>1, <1>2, SMT
<1>4. PortsFit'
  BY <1>1 DEF RouteInv, PortsFit
<1>5. JobFits'
  <2>1. DOMAIN holder' = JobFields /\ holder'.step = "begin" /\ holder'.kind \in {"connect", "bind", "replace", "release"}
    BY <1>3 DEF FreshJobs, JobFields
  <2>2. holder'.kind = "connect" =>
          holder'.port \in RoutePorts /\ Waits(holder'.port) /\ ports[holder'.port].session = holder'.session
    BY <1>3, SMT DEF RouteInv, QueueFits, ConnectAt
  <2>3. holder'.kind = "connect" => (Waits(holder.port) /\ ports[holder.port].session = holder.session)'
    BY <1>1, <2>2 DEF Waits
  <2> QED BY <2>1, <2>2, <2>3 DEF JobFits, LockedSession
<1>6. \A i \in 1..Len(waiting') : ConnectAt(i)' => i + 1 \in 1..Len(waiting) /\ ConnectAt(i + 1)
  BY <1>3 DEF ConnectAt
<1>7. QueueFits'
  <2>1. ASSUME NEW i \in 1..Len(waiting'), ConnectAt(i)'
        PROVE  (/\ waiting[i].port \in RoutePorts /\ Waits(waiting[i].port)
                /\ ports[waiting[i].port].session = waiting[i].session
                /\ holder.kind = "connect" => waiting[i].port # holder.port)'
    <3>1. i + 1 \in 1..Len(waiting) /\ ConnectAt(i + 1) /\ waiting'[i] = waiting[i + 1]
      BY <1>3, <1>6, <2>1
    <3>2. holder'.kind = "connect" => waiting[i + 1].port # holder'.port
      <4>1. 1 \in 1..Len(waiting) /\ i + 1 # 1
        BY <1>3, SMT
      <4>2. holder'.kind = "connect" => ConnectAt(1)
        BY <1>3, <4>1 DEF ConnectAt
      <4> QED BY <1>3, <3>1, <4>1, <4>2 DEF RouteInv, QueueFits
    <3> QED BY <1>1, <3>1, <3>2 DEF RouteInv, QueueFits, Waits
  <2>2. ASSUME NEW i \in 1..Len(waiting'), NEW j \in 1..Len(waiting'), ConnectAt(i)', ConnectAt(j)', i # j
        PROVE  waiting'[i].port # waiting'[j].port
    <3>1. i + 1 \in 1..Len(waiting) /\ ConnectAt(i + 1) /\ waiting'[i] = waiting[i + 1]
      BY <1>3, <1>6, <2>2
    <3>2. j + 1 \in 1..Len(waiting) /\ ConnectAt(j + 1) /\ waiting'[j] = waiting[j + 1]
      BY <1>3, <1>6, <2>2
    <3>3. i + 1 # j + 1
      BY <1>3, <2>2, SMT
    <3> QED BY <3>1, <3>2, <3>3 DEF RouteInv, QueueFits
  <2> QED BY <1>3, <2>1, <2>2 DEF QueueFits
<1> QED BY <1>4, <1>5, <1>7 DEF RouteInv

\* A job of the worker goes on, or anyone is done: the ports that wait wait on.
LEMMA JobMoves ==
  ASSUME RouteInv, UNCHANGED <<ports, waiting, lease>>,
         PortsFit', JobFits', holder'.kind = "connect" => holder.kind = "connect" /\ holder'.port = holder.port
  PROVE  RouteInv'
BY QueueKept DEF RouteInv, Waits

\* No job is a job at rest.
LEMMA NoJobFits == ASSUME holder = NoJob PROVE JobFits
BY SMT DEF JobFits, NoJob, Job, JobFields, LockedSession

-----------------------------------------------------------------------------
(* A connect *)

\* A job that ends, and leaves the ports in order, keeps the invariant.
LEMMA DoneKeeps ==
  ASSUME RouteInv, holder' = NoJob, UNCHANGED waiting, PortsFit',
         \A q \in RoutePorts :
            Waits(q) /\ (holder.kind = "connect" => q # holder.port) => Waits(q)' /\ ports'[q].session = ports[q].session
  PROVE  RouteInv'
<1>1. holder'.kind = "none" /\ holder'.step = "none" /\ DOMAIN holder' = JobFields
  BY SMT DEF NoJob, Job, JobFields
<1>2. JobFits'
  BY <1>1 DEF JobFits, LockedSession
<1>3. QueueFits'
  BY <1>1, QueueKept DEF RouteInv
<1> QED BY <1>2, <1>3 DEF RouteInv

\* Closing ports changes nothing but their state.
LEMMA ShutFacts ==
  ASSUME NEW ps \in [RoutePorts -> PortRecords], NEW gone
  PROVE  /\ Shut(ps, gone) \in [RoutePorts -> PortRecords]
         /\ \A q \in RoutePorts :
              /\ Shut(ps, gone)[q].session = ps[q].session /\ Shut(ps, gone)[q].answer = ps[q].answer
              /\ Shut(ps, gone)[q].request = ps[q].request
              /\ Shut(ps, gone)[q].state = IF q \in gone THEN "closed" ELSE ps[q].state
<1> SUFFICES ASSUME NEW q \in RoutePorts
             PROVE  /\ Shut(ps, gone)[q] \in PortRecords
                    /\ Shut(ps, gone)[q].session = ps[q].session /\ Shut(ps, gone)[q].answer = ps[q].answer
                    /\ Shut(ps, gone)[q].request = ps[q].request
                    /\ Shut(ps, gone)[q].state = IF q \in gone THEN "closed" ELSE ps[q].state
  BY DEF Shut
<1>1. ps[q] \in PortRecords
  OBVIOUS
<1>2. [ps[q] EXCEPT !.state = "closed"] \in PortRecords
  BY <1>1, SMT DEF PortRecords
<1>3. Shut(ps, gone)[q] = IF q \in gone THEN [ps[q] EXCEPT !.state = "closed"] ELSE ps[q]
  BY DEF Shut
<1> QED BY <1>1, <1>2, <1>3, SMT DEF PortRecords

\* The ports as closeConnection may leave them before a connect is answered.
Thinned(ps) ==
  /\ ps \in [RoutePorts -> PortRecords]
  /\ \A q \in RoutePorts :
       /\ ps[q].session = ports[q].session /\ ps[q].answer = ports[q].answer /\ ps[q].request = ports[q].request
       /\ ps[q].state \in {ports[q].state, "closed"}
       /\ Waits(q) => ps[q].state \in {"open", "closed"}

\* Ports that are closed are not connected to anything more.
LEMMA ShutThins ==
  ASSUME RouteInv, NEW gone PROVE Thinned(Shut(ports, gone)) /\ Thinned(ports)
BY ShutFacts DEF RouteInv, PortsFit, Thinned, Waits

\* A connect that succeeds: its port is the only one connected.
LEMMA ConnectSucceeds ==
  ASSUME RouteInv, holder.kind = "connect", NEW ps, Thinned(ps), NEW previous,
         ports' = Connected(ps, previous), holder' = NoJob,
         accepted' = holder.session, activePort' = holder.port, latestHello' = "known", UNCHANGED <<lease, waiting>>,
         \A q \in RoutePorts \ {holder.port} : ps[q].state = "connected" => q = previous
  PROVE  RouteInv'
<1> DEFINE p == holder.port
<1> DEFINE closed == Shut(ps, {previous} \ {NoPort, p})
<1>1. p \in RoutePorts /\ Waits(p) /\ ports[p].session = holder.session /\ holder.session # NoSession
  BY DEF RouteInv, JobFits, Waits
<1>2. /\ closed \in [RoutePorts -> PortRecords]
      /\ \A q \in RoutePorts :
           /\ closed[q].session = ps[q].session /\ closed[q].answer = ps[q].answer
           /\ closed[q].request = ps[q].request
           /\ closed[q].state = IF q \in {previous} \ {NoPort, p} THEN "closed" ELSE ps[q].state
  BY ShutFacts DEF Thinned
<1>3. ports' = [closed EXCEPT ![p] = [closed[p] EXCEPT !.state = "connected", !.answer = "ok"]]
  BY DEF Connected
<1> HIDE DEF closed
<1>4. /\ [closed[p] EXCEPT !.state = "connected", !.answer = "ok"] \in PortRecords
      /\ [closed[p] EXCEPT !.state = "connected", !.answer = "ok"].session = ports[p].session
      /\ [closed[p] EXCEPT !.state = "connected", !.answer = "ok"].answer = "ok"
  <2> DEFINE r1 == [closed[p] EXCEPT !.state = "connected"]
  <2>1. closed[p] \in PortRecords /\ closed[p].session = ports[p].session
    BY <1>1, <1>2 DEF Thinned
  <2>2. r1 \in PortRecords /\ r1.session = ports[p].session
    BY <2>1, SMT DEF PortRecords
  <2>3. [closed[p] EXCEPT !.state = "connected", !.answer = "ok"] = [r1 EXCEPT !.answer = "ok"]
    OBVIOUS
  <2> HIDE DEF r1
  <2>4. /\ [r1 EXCEPT !.answer = "ok"] \in PortRecords
        /\ [r1 EXCEPT !.answer = "ok"].session = ports[p].session
        /\ [r1 EXCEPT !.answer = "ok"].answer = "ok"
    BY <2>2, SMT DEF PortRecords
  <2> QED BY <2>3, <2>4, Zenon
<1>5. ports' \in [RoutePorts -> PortRecords] /\ ports'[p].session = holder.session /\ ports'[p].answer = "ok"
  BY <1>1, <1>2, <1>3, <1>4
<1>6. \A q \in RoutePorts : q # p => ports'[q] = closed[q]
  BY <1>2, <1>3
<1>7. ASSUME NEW q \in RoutePorts, q # p
      PROVE  /\ ports'[q].session = ports[q].session /\ ports'[q].answer = ports[q].answer
             /\ ports'[q].request = ports[q].request /\ ports'[q].state # "connected"
             /\ Waits(q) => Waits(q)'
  <2>1. /\ ports'[q].session = ports[q].session /\ ports'[q].answer = ports[q].answer
        /\ ports'[q].request = ports[q].request
        /\ ports'[q].state = IF q \in {previous} \ {NoPort, p} THEN "closed" ELSE ps[q].state
    BY <1>2, <1>6, <1>7 DEF Thinned
  <2>2. q # NoPort
    BY RoutesAssumption
  <2>3. ports'[q].state # "connected"
    BY <1>7, <2>1, <2>2
  <2>4. Waits(q) => Waits(q)'
    BY <2>1 DEF Waits, Thinned
  <2> QED BY <2>1, <2>3, <2>4
<1>8. PortsFit'
  <2>1. ASSUME NEW q \in RoutePorts
        PROVE  /\ ports'[q].state = "connected" =>
                    accepted' = ports'[q].session /\ activePort' = q /\ accepted' # NoSession /\ latestHello' = "known"
               /\ ports'[q].request # "none" \/ ports'[q].state = "connected" => ports'[q].answer = "ok"
               /\ ports'[q].answer = "ok" => ports'[q].session # NoSession
    <3>1. CASE q = p
      BY <1>1, <1>5, <3>1
    <3>2. CASE q # p
      BY <1>7, <3>2 DEF RouteInv, PortsFit
    <3> QED BY <3>1, <3>2
  <2> QED BY <1>5, <2>1 DEF RouteInv, PortsFit
<1> QED BY <1>7, <1>8, DoneKeeps

\* A connect that is refused: its port may ask no more.
LEMMA ConnectRefused ==
  ASSUME RouteInv, holder.kind = "connect", NEW ps, Thinned(ps),
         ports' = Refused(ps), holder' = NoJob, latestHello' \in {latestHello, "known"}, UNCHANGED <<accepted, lease, waiting>>,
         \A q \in RoutePorts \ {holder.port} : ps[q].state = "connected" => activePort' = activePort
  PROVE  RouteInv'
<1> DEFINE p == holder.port
<1>1. p \in RoutePorts /\ Waits(p) /\ ps[p].state # "connected" /\ ps[p].request = "none"
  BY DEF RouteInv, JobFits, Waits, Thinned
<1>2. ports' = [ps EXCEPT ![p] = [ps[p] EXCEPT !.session = NoSession, !.answer = "refused"]]
  BY DEF Refused
<1>3. ps[p] \in PortRecords
  BY <1>1 DEF Thinned
<1>4. /\ [ps[p] EXCEPT !.session = NoSession, !.answer = "refused"] \in PortRecords
      /\ [ps[p] EXCEPT !.session = NoSession, !.answer = "refused"].state = ps[p].state
      /\ [ps[p] EXCEPT !.session = NoSession, !.answer = "refused"].request = ps[p].request
      /\ [ps[p] EXCEPT !.session = NoSession, !.answer = "refused"].answer = "refused"
  <2> DEFINE r1 == [ps[p] EXCEPT !.session = NoSession]
  <2>1. r1 \in PortRecords /\ r1.state = ps[p].state /\ r1.request = ps[p].request
    BY <1>3, SMT DEF PortRecords
  <2>2. [ps[p] EXCEPT !.session = NoSession, !.answer = "refused"] = [r1 EXCEPT !.answer = "refused"]
    OBVIOUS
  <2> HIDE DEF r1
  <2>3. /\ [r1 EXCEPT !.answer = "refused"] \in PortRecords
        /\ [r1 EXCEPT !.answer = "refused"].state = ps[p].state
        /\ [r1 EXCEPT !.answer = "refused"].request = ps[p].request
        /\ [r1 EXCEPT !.answer = "refused"].answer = "refused"
    BY <2>1, SMT DEF PortRecords
  <2> QED BY <2>2, <2>3, Zenon
<1>5. /\ ports' \in [RoutePorts -> PortRecords] /\ ports'[p].state # "connected"
      /\ ports'[p].request = "none" /\ ports'[p].answer = "refused"
  BY <1>1, <1>2, <1>4 DEF Thinned
<1>6. \A q \in RoutePorts : q # p => ports'[q] = ps[q]
  BY <1>2 DEF Thinned
<1>7. ASSUME NEW q \in RoutePorts, q # p
      PROVE  /\ ports'[q].session = ports[q].session /\ ports'[q].answer = ports[q].answer
             /\ ports'[q].request = ports[q].request /\ ports'[q].state \in {ports[q].state, "closed"}
             /\ ports'[q].state = "connected" => activePort' = activePort
             /\ Waits(q) => Waits(q)'
  BY <1>6, <1>7 DEF Thinned, Waits
<1>8. PortsFit'
  <2>1. ASSUME NEW q \in RoutePorts
        PROVE  /\ ports'[q].state = "connected" =>
                    accepted' = ports'[q].session /\ activePort' = q /\ accepted' # NoSession /\ latestHello' = "known"
               /\ ports'[q].request # "none" \/ ports'[q].state = "connected" => ports'[q].answer = "ok"
               /\ ports'[q].answer = "ok" => ports'[q].session # NoSession
    <3>1. CASE q = p
      BY <1>5, <3>1
    <3>2. CASE q # p
      <4>1. ports'[q].state = "connected" => ports[q].state = "connected" /\ activePort' = activePort
        BY <1>7, <3>2
      <4> QED BY <1>7, <3>2, <4>1 DEF RouteInv, PortsFit
    <3> QED BY <3>1, <3>2
  <2> QED BY <1>5, <2>1 DEF RouteInv, PortsFit
<1> QED BY <1>7, <1>8, DoneKeeps

\* A connect whose port was closed, or is of an earlier document, gives up (fenceConnection).
LEMMA ConnectFencedKeeps ==
  ASSUME RouteInv, NEW step \in {"begin", "greet", "bind"}, ConnectFenced(step)
  PROVE  RouteInv'
<1>1. /\ ports' = Shut(ports, {holder.port}) /\ activePort' = ActiveWithout({holder.port}) /\ holder' = NoJob
      /\ UNCHANGED <<accepted, lease, waiting>> /\ latestHello' \in {latestHello, "known"}
  BY DEF ConnectFenced, HelloMayBe, Done
<1>2. PortsFit'
  <2>1. ASSUME NEW q \in RoutePorts
        PROVE  /\ ports'[q].state = "connected" =>
                    accepted' = ports'[q].session /\ activePort' = q /\ accepted' # NoSession /\ latestHello' = "known"
               /\ ports'[q].request # "none" \/ ports'[q].state = "connected" => ports'[q].answer = "ok"
               /\ ports'[q].answer = "ok" => ports'[q].session # NoSession
    <3>1. /\ ports'[q].state = "connected" => ports[q].state = "connected" /\ q \notin {holder.port}
          /\ ports'[q].session = ports[q].session /\ ports'[q].answer = ports[q].answer
          /\ ports'[q].request = ports[q].request
      BY <1>1, Closing
    <3> QED BY <1>1, <3>1 DEF RouteInv, PortsFit, ActiveWithout
  <2>2. ports' \in [RoutePorts -> PortRecords]
    BY <1>1, Closing
  <2> QED BY <1>1, <2>1, <2>2 DEF RouteInv, PortsFit
<1>3. \A q \in RoutePorts : Waits(q) => Waits(q)' /\ ports'[q].session = ports[q].session
  BY <1>1, Closing
<1> QED BY <1>1, <1>2, <1>3, DoneKeeps

\* What a port of the job has before its first step: nobody else's connection matters,
\* for it is of the session asked for, or closed, or there is none.
LEMMA ConnectBeginsKeeps == ASSUME RouteInv, ConnectBegins PROVE RouteInv'
<1> DEFINE other == {q \in {activePort} \ {NoPort, holder.port} : ports[q].lease # ports[holder.port].lease}
<1> DEFINE previous == ActiveWithout(other)
<1> DEFINE ps == Shut(ports, other)
<1>1. /\ holder.kind = "connect" /\ holder.step = "begin" /\ holder.port \in RoutePorts /\ Waits(holder.port)
      /\ ports[holder.port].session = holder.session /\ Current(holder.port)
  BY DEF ConnectBegins, Holds, RouteInv, JobFits
<1>2. Thinned(ps)
  BY ShutThins
<1>3. \A q \in RoutePorts \ {holder.port} : ps[q].state = "connected" => q = activePort /\ previous = activePort
  <2> SUFFICES ASSUME NEW q \in RoutePorts \ {holder.port}, ps[q].state = "connected"
               PROVE  q = activePort /\ previous = activePort
    OBVIOUS
  <2>1. ps[q].state = IF q \in other THEN "closed" ELSE ports[q].state
    BY ShutFacts DEF RouteInv, PortsFit
  <2> HIDE DEF other, ps
  <2>2. q \notin other /\ ports[q].state = "connected"
    BY <2>1
  <2>3. q = activePort
    BY <2>2 DEF RouteInv, PortsFit
  <2> QED BY <2>2, <2>3 DEF ActiveWithout
<1>4. UNCHANGED <<accepted, latestHello, lease, waiting>>
  BY DEF ConnectBegins
<1>5. CASE accepted \notin {NoSession, holder.session} /\ ports' = Refused(ps) /\ activePort' = previous /\ holder' = NoJob
  <2> HIDE DEF ps, previous, other
  <2> QED BY <1>1, <1>2, <1>3, <1>4, <1>5, ConnectRefused
<1>6. CASE /\ accepted = holder.session /\ latestHello = "known"
           /\ ports' = Connected(ps, previous) /\ activePort' = holder.port /\ holder' = NoJob
  <2>1. \A q \in RoutePorts \ {holder.port} : ps[q].state = "connected" => q = previous
    BY <1>3
  <2> HIDE DEF ps, previous, other
  <2> QED BY <1>1, <1>2, <1>4, <1>6, <2>1, ConnectSucceeds
<1>7. CASE /\ accepted = NoSession \/ (accepted = holder.session /\ latestHello = "none")
           /\ ports' = ps /\ activePort' = holder.port
           /\ holder' = [holder EXCEPT !.step = IF accepted = NoSession THEN "bind" ELSE "greet", !.previous = previous]
  <2>1. NobodyConnected
    BY <1>7 DEF NobodyConnected, RouteInv, PortsFit
  <2> HIDE DEF ps, previous, other
  <2>2. ASSUME NEW q \in RoutePorts
        PROVE  /\ ports'[q].session = ports[q].session /\ ports'[q].answer = ports[q].answer
               /\ ports'[q].request = ports[q].request /\ ports'[q].state # "connected"
               /\ Waits(q) => Waits(q)'
    BY <1>2, <1>7, <2>1 DEF Thinned, NobodyConnected, Waits
  <2>3. PortsFit'
    <3>1. ports' \in [RoutePorts -> PortRecords]
      BY <1>2, <1>7 DEF Thinned
    <3> QED BY <1>4, <2>2, <3>1 DEF RouteInv, PortsFit
  <2>4. /\ DOMAIN holder' = JobFields /\ holder'.kind = "connect" /\ holder'.port = holder.port /\ holder'.session = holder.session
        /\ holder'.step = IF accepted = NoSession THEN "bind" ELSE "greet"
    <3> DEFINE j == [holder EXCEPT !.step = IF accepted = NoSession THEN "bind" ELSE "greet"]
    <3>1. /\ DOMAIN j = JobFields /\ j.kind = "connect" /\ j.port = holder.port /\ j.session = holder.session
          /\ j.step = IF accepted = NoSession THEN "bind" ELSE "greet"
      BY <1>1, SMT DEF RouteInv, JobFits, JobFields
    <3>2. holder' = [j EXCEPT !.previous = previous]
      BY <1>7
    <3> HIDE DEF j
    <3> QED BY <3>1, <3>2, SMT DEF JobFields
  <2>5. NobodyConnected'
    BY <2>2 DEF NobodyConnected
  <2>6. Waits(holder.port)' /\ ports'[holder'.port].session = holder'.session
    BY <1>1, <2>2, <2>4 DEF Waits
  <2>7. JobFits'
    BY <1>1, <1>4, <1>7, <2>4, <2>5, <2>6 DEF JobFits, LockedSession
  <2>8. QueueFits'
    BY <1>1, <1>4, <2>2, <2>4, QueueKept DEF RouteInv
  <2> QED BY <2>3, <2>7, <2>8 DEF RouteInv
<1> QED BY <1>5, <1>6, <1>7 DEF ConnectBegins, Done

\* A connect past its first step: nobody is connected.
LEMMA ConnectAlone ==
  ASSUME RouteInv, holder.kind = "connect", holder.step # "begin"
  PROVE  /\ NobodyConnected /\ holder.port \in RoutePorts
         /\ PortOpen(holder.port) => activePort = holder.port
         /\ holder.step = "greet" => accepted = holder.session
         /\ holder.step = "persist" => latestHello = "known"
BY DEF RouteInv, JobFits

\* A connect to the session of before has its hello and is answered: its port is connected.
LEMMA ConnectGreetedKeeps == ASSUME RouteInv, ConnectGreeted PROVE RouteInv'
<1>1. /\ holder.kind = "connect" /\ holder.step = "greet" /\ PortOpen(holder.port)
      /\ latestHello' = "known" /\ ports' = Connected(ports, holder.previous) /\ holder' = NoJob
      /\ UNCHANGED <<accepted, activePort, lease, waiting>>
  BY DEF ConnectGreeted, Holds, Current, Done
<1>2. NobodyConnected /\ activePort = holder.port /\ accepted = holder.session
  BY <1>1, ConnectAlone
<1>3. \A q \in RoutePorts \ {holder.port} : ports[q].state = "connected" => q = holder.previous
  BY <1>2 DEF NobodyConnected
<1>4. Thinned(ports)
  BY ShutThins
<1> QED BY <1>1, <1>2, <1>3, <1>4, ConnectSucceeds

\* The hello of a connect fails; its port is not told.
LEMMA ConnectThrowsKeeps == ASSUME RouteInv, ConnectThrows PROVE RouteInv'
<1>1. /\ holder' = NoJob /\ latestHello' \in {latestHello, "known"}
      /\ UNCHANGED <<ports, accepted, activePort, lease, waiting>>
  BY DEF ConnectThrows, HelloMayBe, Done, portVars
<1>2. PortsFit'
  BY <1>1 DEF RouteInv, PortsFit
<1> QED BY <1>1, <1>2, DoneKeeps DEF Waits

\* A connect writes the registry.
LEMMA ConnectPersistsKeeps == ASSUME RouteInv, ConnectPersists PROVE RouteInv'
<1>1. /\ holder.kind = "connect" /\ holder.step = "bind" /\ latestHello' = "known"
      /\ holder' = [holder EXCEPT !.step = "persist", !.write = asked + 1]
      /\ UNCHANGED <<ports, accepted, activePort, lease, waiting>>
  BY DEF ConnectPersists, Holds, portVars
<1>2. PortsFit'
  BY <1>1 DEF RouteInv, PortsFit
<1>3. /\ DOMAIN holder' = JobFields /\ holder'.kind = "connect" /\ holder'.port = holder.port /\ holder'.session = holder.session
      /\ holder'.step = "persist"
  <2> DEFINE j == [holder EXCEPT !.step = "persist"]
  <2>1. /\ DOMAIN j = JobFields /\ j.kind = "connect" /\ j.port = holder.port /\ j.session = holder.session
        /\ j.step = "persist"
    BY <1>1, SMT DEF RouteInv, JobFits, JobFields
  <2>2. holder' = [j EXCEPT !.write = asked + 1]
    BY <1>1
  <2> HIDE DEF j
  <2> QED BY <2>1, <2>2, SMT DEF JobFields
<1>4. JobFits'
  BY <1>1, <1>3 DEF RouteInv, JobFits, LockedSession, Waits, PortOpen, NobodyConnected
<1> QED BY <1>1, <1>2, <1>3, <1>4, JobMoves

\* A connect fails to bind: it is refused, and the port before it may be the route's again.
LEMMA ConnectFailsKeeps == ASSUME RouteInv, ConnectFails PROVE RouteInv'
<1>1. /\ holder.kind = "connect" /\ holder.step = "bind" /\ ports' = Refused(ports) /\ holder' = NoJob
      /\ latestHello' \in {latestHello, "known"} /\ UNCHANGED <<accepted, lease, waiting>>
  BY DEF ConnectFails, Holds, HelloMayBe, Done
<1>2. \A q \in RoutePorts \ {holder.port} : ports[q].state = "connected" => activePort' = activePort
  BY <1>1, ConnectAlone DEF NobodyConnected
<1>3. Thinned(ports)
  BY ShutThins
<1> QED BY <1>1, <1>2, <1>3, ConnectRefused

\* A connect accepts its session: its port is connected, and no other is.
LEMMA ConnectAcceptsKeeps == ASSUME RouteInv, ConnectAccepts PROVE RouteInv'
<1>1. /\ holder.kind = "connect" /\ holder.step = "persist" /\ accepted' = holder.session /\ holder' = NoJob
      /\ UNCHANGED <<latestHello, lease, waiting>>
  BY DEF ConnectAccepts, Holds, Done
<1>2. NobodyConnected /\ latestHello = "known" /\ (PortOpen(holder.port) => activePort = holder.port)
  BY <1>1, ConnectAlone
<1>3. CASE Current(holder.port)
  <2>1. ports' = Connected(ports, holder.previous) /\ activePort' = activePort /\ activePort = holder.port
    BY <1>2, <1>3 DEF ConnectAccepts, Current
  <2>2. \A q \in RoutePorts \ {holder.port} : ports[q].state = "connected" => q = holder.previous
    BY <1>2 DEF NobodyConnected
  <2>3. Thinned(ports)
    BY ShutThins
  <2> QED BY <1>1, <1>2, <2>1, <2>2, <2>3, ConnectSucceeds
<1>4. CASE ~Current(holder.port)
  <2>1. ports' = Shut(ports, {holder.port}) /\ activePort' = ActiveWithout({holder.port})
    BY <1>4 DEF ConnectAccepts
  <2>2. ASSUME NEW q \in RoutePorts
        PROVE  /\ ports'[q].state # "connected"
               /\ ports'[q].request # "none" => ports'[q].answer = "ok"
               /\ ports'[q].answer = "ok" => ports'[q].session # NoSession
               /\ Waits(q) => Waits(q)' /\ ports'[q].session = ports[q].session
    <3>1. /\ ports'[q].state = "connected" => ports[q].state = "connected"
          /\ ports'[q].session = ports[q].session /\ ports'[q].answer = ports[q].answer
          /\ ports'[q].request = ports[q].request
          /\ Waits(q) => Waits(q)'
      BY <2>1, Closing
    <3> QED BY <1>2, <3>1 DEF NobodyConnected, RouteInv, PortsFit
  <2>3. ports' \in [RoutePorts -> PortRecords]
    BY <2>1, Closing
  <2>4. PortsFit'
    BY <1>1, <2>2, <2>3 DEF RouteInv, PortsFit
  <2> QED BY <1>1, <2>2, <2>4, DoneKeeps
<1> QED BY <1>3, <1>4

-----------------------------------------------------------------------------
(* A job of the worker *)

\* The job goes to a step, and what it needs there holds.
LEMMA JobGoes ==
  ASSUME RouteInv, LockedSession, UNCHANGED <<ports, waiting, lease>>, PortsFit',
         DOMAIN holder' = JobFields, holder'.kind = holder.kind,
         holder'.step \in {"begin", "hello", "release", "released", "forgotten", "bind", "persist", "greet"},
         holder'.step \in {"hello", "release", "released"} => accepted' \in {holder'.old, NoSession},
         holder'.step \in {"forgotten", "bind", "persist"} => accepted' = NoSession,
         holder'.step = "greet" => NobodyConnected'
  PROVE  RouteInv'
<1>1. JobFits'
  BY DEF JobFits, LockedSession
<1>2. holder'.kind # "connect"
  BY DEF LockedSession
<1> QED BY <1>1, <1>2, JobMoves

\* A job begins: it is to bind, is to release the session accepted, or has nothing to do.
LEMMA JobBeginsKeeps == ASSUME RouteInv, JobBegins PROVE RouteInv'
<1>1. LockedSession /\ UNCHANGED <<accepted, latestHello, ports, activePort, lease, waiting>>
  BY DEF JobBegins, portVars
<1>2. PortsFit'
  BY <1>1 DEF RouteInv, PortsFit
<1>3. DOMAIN holder = JobFields
  BY DEF RouteInv, JobFits
<1>4. CASE accepted = NoSession /\ GoesTo("bind")
  <2>1. DOMAIN holder' = JobFields /\ holder'.kind = holder.kind /\ holder'.step = "bind"
    BY <1>3, <1>4, SMT DEF GoesTo, JobFields
  <2> QED BY <1>1, <1>2, <1>4, <2>1, JobGoes
<1>5. CASE holder' = [holder EXCEPT !.step = IF latestHello = "known" THEN "release" ELSE "hello", !.old = accepted]
  <2> DEFINE j == [holder EXCEPT !.step = IF latestHello = "known" THEN "release" ELSE "hello"]
  <2>1. DOMAIN j = JobFields /\ j.kind = holder.kind /\ j.step \in {"release", "hello"}
    BY <1>3, SMT DEF JobFields
  <2>2. holder' = [j EXCEPT !.old = accepted]
    BY <1>5
  <2> HIDE DEF j
  <2>3. DOMAIN holder' = JobFields /\ holder'.kind = holder.kind /\ holder'.step \in {"release", "hello"} /\ holder'.old = accepted
    BY <2>1, <2>2, SMT DEF JobFields
  <2> QED BY <1>1, <1>2, <2>3, JobGoes
<1>6. CASE holder' = NoJob
  BY <1>1, <1>2, <1>6, DoneKeeps DEF Waits
<1> QED BY <1>4, <1>5, <1>6 DEF JobBegins, Done

\* The steps of a release are not a connect's.
LEMMA JobSteps ==
  ASSUME RouteInv, holder.step \in {"hello", "release", "released", "forgotten"}
  PROVE  /\ LockedSession /\ DOMAIN holder = JobFields
         /\ holder.step \in {"hello", "release", "released"} => accepted \in {holder.old, NoSession}
         /\ holder.step = "forgotten" => accepted = NoSession
BY DEF RouteInv, JobFits, LockedSession

\* A job goes on to its next step and stays the same job.
LEMMA StepTaken ==
  ASSUME DOMAIN holder = JobFields, NEW step, GoesTo(step)
  PROVE  DOMAIN holder' = JobFields /\ holder'.kind = holder.kind /\ holder'.step = step /\ holder'.old = holder.old
BY SMT DEF GoesTo, JobFields

\* A job makes sure of the hello before it releases (ensureReleaseHello).
LEMMA JobGreetsKeeps == ASSUME RouteInv, JobGreets PROVE RouteInv'
<1>1. /\ holder.step = "hello" /\ UNCHANGED <<accepted, ports, activePort, lease, waiting>>
      /\ accepted # NoSession => latestHello' = "known"
      /\ latestHello' \in {"none", "known"} /\ (GoesTo("release") \/ holder' = NoJob)
  BY DEF JobGreets, portVars, Done
<1>2. PortsFit'
  BY <1>1 DEF RouteInv, PortsFit
<1>3. CASE GoesTo("release")
  BY <1>1, <1>2, <1>3, JobSteps, StepTaken, JobGoes
<1>4. CASE holder' = NoJob
  BY <1>1, <1>2, <1>4, DoneKeeps DEF Waits
<1> QED BY <1>1, <1>3, <1>4

\* The host releases the old session of a job.
LEMMA HostReleasesKeeps == ASSUME RouteInv, HostReleases PROVE RouteInv'
<1>1. /\ holder.step = "release" /\ UNCHANGED <<accepted, latestHello, ports, activePort, lease, waiting>>
      /\ GoesTo("released") \/ holder' = NoJob
  BY DEF HostReleases, portVars, Done
<1>2. PortsFit'
  BY <1>1 DEF RouteInv, PortsFit
<1>3. CASE GoesTo("released")
  BY <1>1, <1>2, <1>3, JobSteps, StepTaken, JobGoes
<1>4. CASE holder' = NoJob
  BY <1>1, <1>2, <1>4, DoneKeeps DEF Waits
<1> QED BY <1>1, <1>3, <1>4

\* A job forgets the session that was released, and shuts its ports (releaseSessionLocked).
LEMMA JobForgetsKeeps == ASSUME RouteInv, JobForgets PROVE RouteInv'
<1> DEFINE write == IF accepted = holder.old THEN asked + 1 ELSE 0
<1>1. holder.step = "released" /\ UNCHANGED <<lease, waiting>> /\ holder' = [holder EXCEPT !.step = "forgotten", !.write = write]
  BY DEF JobForgets
<1>2. /\ DOMAIN holder' = JobFields /\ holder'.kind = holder.kind /\ holder'.step = "forgotten" /\ LockedSession
  <2> DEFINE j == [holder EXCEPT !.step = "forgotten"]
  <2>1. DOMAIN j = JobFields /\ j.kind = holder.kind /\ j.step = "forgotten" /\ LockedSession
    BY <1>1, JobSteps, SMT DEF JobFields
  <2>2. holder' = [j EXCEPT !.write = write]
    BY <1>1
  <2> HIDE DEF j, write
  <2> QED BY <2>1, <2>2, SMT DEF JobFields
<1> HIDE DEF write
<1>3. holder'.kind # "connect" /\ holder.kind # "connect"
  BY <1>2 DEF LockedSession
<1>4. CASE accepted = holder.old
  <2>1. /\ ports' = Shut(ports, {q \in RoutePorts : PortOpen(q)})
        /\ accepted' = NoSession /\ latestHello' = "none" /\ activePort' = NoPort
    BY <1>4 DEF JobForgets, Forgets
  <2>2. ports' \in [RoutePorts -> PortRecords]
    BY <2>1, ShutFacts DEF RouteInv, PortsFit
  <2>3. ASSUME NEW q \in RoutePorts
        PROVE  /\ ports'[q].session = ports[q].session /\ ports'[q].answer = ports[q].answer
               /\ ports'[q].request = ports[q].request /\ ports'[q].state # "connected"
               /\ Waits(q) => Waits(q)'
    <3>1. /\ ports'[q].session = ports[q].session /\ ports'[q].answer = ports[q].answer
          /\ ports'[q].request = ports[q].request
          /\ ports'[q].state = IF q \in {r \in RoutePorts : PortOpen(r)} THEN "closed" ELSE ports[q].state
      BY <2>1, ShutFacts DEF RouteInv, PortsFit
    <3> QED BY <3>1 DEF PortOpen, Waits
  <2>4. PortsFit'
    BY <1>1, <2>1, <2>2, <2>3 DEF RouteInv, PortsFit
  <2>5. JobFits'
    BY <1>2, <1>3, <2>1 DEF JobFits, LockedSession
  <2>6. QueueFits'
    BY <1>1, <1>3, <2>3, QueueKept DEF RouteInv
  <2> QED BY <2>4, <2>5, <2>6 DEF RouteInv
<1>5. CASE accepted # holder.old
  <2>1. UNCHANGED <<accepted, latestHello, activePort, ports>> /\ accepted = NoSession
    BY <1>1, <1>5, JobSteps DEF JobForgets
  <2>2. PortsFit'
    BY <1>1, <2>1 DEF RouteInv, PortsFit
  <2> QED BY <1>1, <1>2, <2>1, <2>2, JobGoes
<1> QED BY <1>4, <1>5

\* A replacement goes on to bind, a release ends.
LEMMA JobRebindsKeeps == ASSUME RouteInv, JobRebinds PROVE RouteInv'
<1>1. /\ holder.step = "forgotten" /\ UNCHANGED <<accepted, latestHello, ports, activePort, lease, waiting>>
      /\ GoesTo("bind") \/ holder' = NoJob
  BY DEF JobRebinds, portVars, Done
<1>2. PortsFit'
  BY <1>1 DEF RouteInv, PortsFit
<1>3. CASE GoesTo("bind")
  BY <1>1, <1>2, <1>3, JobSteps, StepTaken, JobGoes
<1>4. CASE holder' = NoJob
  BY <1>1, <1>2, <1>4, DoneKeeps DEF Waits
<1> QED BY <1>1, <1>3, <1>4

\* A job writes the registry.
LEMMA JobPersistsKeeps == ASSUME RouteInv, JobPersists PROVE RouteInv'
<1>1. /\ LockedSession /\ holder.step = "bind" /\ UNCHANGED <<accepted, latestHello, ports, activePort, lease, waiting>>
      /\ holder' = [holder EXCEPT !.step = "persist", !.write = asked + 1]
  BY DEF JobPersists, portVars
<1>2. PortsFit'
  BY <1>1 DEF RouteInv, PortsFit
<1>3. DOMAIN holder' = JobFields /\ holder'.kind = holder.kind /\ holder'.step = "persist"
  <2> DEFINE j == [holder EXCEPT !.step = "persist"]
  <2>1. DOMAIN j = JobFields /\ j.kind = holder.kind /\ j.step = "persist"
    BY SMT DEF RouteInv, JobFits, JobFields
  <2>2. holder' = [j EXCEPT !.write = asked + 1]
    BY <1>1
  <2> HIDE DEF j
  <2> QED BY <2>1, <2>2, SMT DEF JobFields
<1>4. accepted = NoSession
  BY <1>1 DEF RouteInv, JobFits
<1> QED BY <1>1, <1>2, <1>3, <1>4, JobGoes

\* A job accepts its session; the panel has yet to connect.
LEMMA JobAcceptsKeeps == ASSUME RouteInv, JobAccepts PROVE RouteInv'
<1>1. /\ LockedSession /\ holder.step = "persist" /\ GoesTo("greet")
      /\ UNCHANGED <<latestHello, ports, activePort, lease, waiting>>
  BY DEF JobAccepts, portVars
<1>2. accepted = NoSession /\ DOMAIN holder = JobFields
  BY <1>1 DEF RouteInv, JobFits
<1>3. NobodyConnected
  BY <1>2 DEF RouteInv, PortsFit, NobodyConnected
<1>4. PortsFit'
  BY <1>1, <1>3 DEF RouteInv, PortsFit, NobodyConnected
<1>5. NobodyConnected'
  BY <1>1, <1>3 DEF NobodyConnected
<1> QED BY <1>1, <1>2, <1>4, <1>5, StepTaken, JobGoes

\* A job whose session is accepted ends.
LEMMA JobBoundKeeps == ASSUME RouteInv, JobBound PROVE RouteInv'
<1>1. holder' = NoJob /\ latestHello' = "known" /\ UNCHANGED <<accepted, ports, activePort, lease, waiting>>
  BY DEF JobBound, portVars, Done
<1>2. PortsFit'
  BY <1>1 DEF RouteInv, PortsFit
<1> QED BY <1>1, <1>2, DoneKeeps DEF Waits

\* A job fails at any of its steps.
LEMMA JobFailsKeeps == ASSUME RouteInv, JobFails PROVE RouteInv'
<1>1. /\ LockedSession /\ holder' = NoJob /\ UNCHANGED <<latestHello, ports, activePort, lease, waiting>>
      /\ holder.step # "greet" => accepted' = accepted
  BY DEF JobFails, portVars, Done
<1>2. holder.step = "greet" => NobodyConnected
  BY <1>1 DEF RouteInv, JobFits
<1>3. PortsFit'
  BY <1>1, <1>2 DEF RouteInv, PortsFit, NobodyConnected
<1> QED BY <1>1, <1>3, DoneKeeps DEF Waits

-----------------------------------------------------------------------------
(* The rest, and the worker *)

\* Nothing of the worker is there before it starts again.
WorkerGone ==
  worker # "up" => /\ \A p \in RoutePorts : ports[p].state \in {"unborn", "closed"} /\ ports[p].request = "none"
                   /\ holder = NoJob /\ waiting = <<>>

\* Sessions that are created, writes of the registry that land, and a worker that stops or starts.
LEMMA RouteRestKeeps ==
  ASSUME RouteInv, WorkerGone,
         \/ \E s \in RouteSessions : Creates(s) \/ HostCreates(s)
         \/ RegistryWrites \/ WorkerStops
         \/ \E recovered \in BOOLEAN : WorkerStarts(recovered)
  PROVE  RouteInv'
<1>1. CASE UNCHANGED <<accepted, latestHello, ports, activePort, lease, holder, waiting>>
  <2>1. PortsFit'
    BY <1>1 DEF RouteInv, PortsFit
  <2>2. JobFits'
    BY <1>1 DEF RouteInv, JobFits, LockedSession, Waits, PortOpen, NobodyConnected
  <2> QED BY <1>1, <2>1, <2>2, QueueKept DEF RouteInv, Waits
<1>2. CASE WorkerStops
  <2>1. /\ accepted' = NoSession /\ latestHello' = "none" /\ lease' = lease /\ holder' = NoJob /\ waiting' = <<>>
        /\ ports' = [p \in RoutePorts |-> IF ports[p] = Unborn THEN Unborn ELSE [Unborn EXCEPT !.state = "closed"]]
    BY <1>2 DEF WorkerStops
  <2>2. ASSUME NEW p \in RoutePorts
        PROVE  /\ ports'[p] \in PortRecords /\ ports'[p].state # "connected"
               /\ ports'[p].request = "none" /\ ports'[p].answer = "none"
    BY <2>1, SMT DEF PortRecords, Unborn
  <2>3. PortsFit'
    BY <2>1, <2>2 DEF RouteInv, PortsFit
  <2>4. holder'.kind = "none" /\ holder'.step = "none" /\ DOMAIN holder' = JobFields
    BY <2>1, SMT DEF NoJob, Job, JobFields
  <2>5. JobFits'
    BY <2>4 DEF JobFits, LockedSession
  <2>6. QueueFits'
    BY <2>1, SMT DEF QueueFits, ConnectAt
  <2> QED BY <2>3, <2>5, <2>6 DEF RouteInv
<1>3. ASSUME NEW recovered \in BOOLEAN, WorkerStarts(recovered) PROVE RouteInv'
  <2>1. /\ UNCHANGED <<ports, activePort, lease, holder, waiting>> /\ latestHello' \in {"none", "known"}
        /\ holder = NoJob /\ \A p \in RoutePorts : ports[p].state # "connected"
    BY <1>3 DEF WorkerStarts, WorkerGone, portVars, lockVars
  <2>2. PortsFit'
    BY <2>1 DEF RouteInv, PortsFit
  <2> QED BY <2>1, <2>2, DoneKeeps DEF Waits
<1> QED BY <1>1, <1>2, <1>3 DEF Creates, HostCreates, RegistryWrites, portVars, lockVars

\* What a port does keeps the invariant.
LEMMA PortActionKeeps ==
  ASSUME RouteInv, NEW p \in RoutePorts,
         \/ PortOpens(p) \/ PortCloses(p) \/ HostServes(p) \/ PortAnswered(p)
         \/ \E s \in RouteSessions : PortAsks(p, s)
         \/ \E request \in {"create", "release"} : PortRequests(p, request)
  PROVE  RouteInv'
BY PortOpensKeeps, PortClosesKeeps, HostServesKeeps, PortAnsweredKeeps, PortAsksKeeps, PortRequestsKeeps

\* What whoever has the lock does keeps the invariant.
LEMMA LockActionKeeps ==
  ASSUME RouteInv,
         \/ \E kind \in {"bind", "replace", "release"}, s \in RouteSessions : Asks(kind, s)
         \/ Takes
         \/ \E step \in {"begin", "greet", "bind"} : ConnectFenced(step)
         \/ ConnectBegins \/ ConnectGreeted \/ ConnectThrows \/ ConnectPersists \/ ConnectFails \/ ConnectAccepts
         \/ JobBegins \/ JobGreets \/ HostReleases \/ JobForgets \/ JobRebinds
         \/ JobPersists \/ JobAccepts \/ JobBound \/ JobFails
  PROVE  RouteInv'
BY AsksKeeps, TakesKeeps, ConnectFencedKeeps, ConnectBeginsKeeps, ConnectGreetedKeeps, ConnectThrowsKeeps,
   ConnectPersistsKeeps, ConnectFailsKeeps, ConnectAcceptsKeeps, JobBeginsKeeps, JobGreetsKeeps,
   HostReleasesKeeps, JobForgetsKeeps, JobRebindsKeeps, JobPersistsKeeps, JobAcceptsKeeps, JobBoundKeeps,
   JobFailsKeeps

\* What a port or the lock's holder does, it does while the worker is up.
LEMMA GoneDoesNothing ==
  ASSUME WorkerGone, worker # "up"
  PROVE  /\ \A p \in RoutePorts :
              /\ ~(PortOpens(p) \/ PortCloses(p) \/ HostServes(p) \/ PortAnswered(p))
              /\ \A s \in RouteSessions : ~PortAsks(p, s)
              /\ \A request \in {"create", "release"} : ~PortRequests(p, request)
         /\ \A kind \in {"bind", "replace", "release"}, s \in RouteSessions : ~Asks(kind, s)
         /\ ~Takes
         /\ \A step \in {"begin", "greet", "bind"} : ~ConnectFenced(step)
         /\ ~(ConnectBegins \/ ConnectGreeted \/ ConnectThrows \/ ConnectPersists \/ ConnectFails \/ ConnectAccepts)
         /\ ~(JobBegins \/ JobGreets \/ HostReleases \/ JobForgets \/ JobRebinds)
         /\ ~(JobPersists \/ JobAccepts \/ JobBound \/ JobFails)
         /\ ~WorkerStops /\ \A s \in RouteSessions : ~Creates(s)
<1>1. holder.kind = "none" /\ holder.step = "none"
  BY SMT DEF WorkerGone, NoJob, Job
<1>2. \A p \in RoutePorts : ports[p].state \in {"unborn", "closed"} /\ ports[p].request = "none"
  BY DEF WorkerGone
<1>3. \A p \in RoutePorts : ~(PortOpens(p) \/ PortCloses(p) \/ HostServes(p) \/ PortAnswered(p))
  BY <1>2 DEF PortOpens, PortCloses, HostServes, PortAnswered, PortOpen
<1>4. \A p \in RoutePorts : /\ \A s \in RouteSessions : ~PortAsks(p, s)
                            /\ \A request \in {"create", "release"} : ~PortRequests(p, request)
  BY <1>2 DEF PortAsks, PortRequests
<1>5. /\ ~Takes /\ ~WorkerStops /\ \A s \in RouteSessions : ~Creates(s)
      /\ \A kind \in {"bind", "replace", "release"}, s \in RouteSessions : ~Asks(kind, s)
  BY DEF WorkerGone, Takes, WorkerStops, Creates, Asks
<1>6. ~(ConnectBegins \/ ConnectGreeted \/ ConnectThrows \/ ConnectPersists \/ ConnectFails \/ ConnectAccepts)
  BY <1>1 DEF ConnectBegins, ConnectGreeted, ConnectThrows, ConnectPersists, ConnectFails, ConnectAccepts, Holds
<1>7. \A step \in {"begin", "greet", "bind"} : ~ConnectFenced(step)
  BY <1>1 DEF ConnectFenced, Holds
<1>8. /\ ~(JobBegins \/ JobGreets \/ HostReleases \/ JobForgets \/ JobRebinds)
      /\ ~(JobPersists \/ JobAccepts \/ JobBound \/ JobFails)
  BY <1>1 DEF JobBegins, JobGreets, HostReleases, JobForgets, JobRebinds, JobPersists, JobAccepts, JobBound,
              JobFails, LockedSession
<1> QED BY <1>3, <1>4, <1>5, <1>6, <1>7, <1>8

\* A worker that is down has no port, no job and no session.
LEMMA GoneStays ==
  ASSUME WorkerGone, [RouteNext]_routeVars
  PROVE  WorkerGone'
<1>1. CASE worker = "up" /\ WorkerStops
  BY <1>1 DEF WorkerStops, WorkerGone, Unborn
<1>2. CASE worker = "up" /\ worker' = "up"
  BY <1>2 DEF WorkerGone
<1>3. CASE UNCHANGED <<worker, ports, holder, waiting>>
  BY <1>3 DEF WorkerGone
<1>4. ASSUME worker = "up", RouteNext PROVE WorkerStops \/ worker' = "up"
  <2>1. ASSUME NEW p \in RoutePorts,
               \/ PortOpens(p) \/ PortCloses(p) \/ HostServes(p) \/ PortAnswered(p)
               \/ \E s \in RouteSessions : PortAsks(p, s)
               \/ \E request \in {"create", "release"} : PortRequests(p, request)
        PROVE  worker' = worker
    BY <2>1 DEF PortOpens, PortCloses, HostServes, PortAnswered, PortAsks, PortRequests
  <2>2. CASE \/ NewDocument \/ Takes
             \/ \E kind \in {"bind", "replace", "release"}, s \in RouteSessions : Asks(kind, s)
             \/ \E s \in RouteSessions : Creates(s) \/ HostCreates(s)
             \/ RegistryWrites
    BY <2>2, <1>4 DEF NewDocument, Takes, Asks, Creates, HostCreates, RegistryWrites
  <2>3. CASE \/ \E step \in {"begin", "greet", "bind"} : ConnectFenced(step)
             \/ ConnectBegins \/ ConnectGreeted \/ ConnectThrows \/ ConnectPersists \/ ConnectFails \/ ConnectAccepts
    BY <2>3, <1>4 DEF ConnectFenced, ConnectBegins, ConnectGreeted, ConnectThrows, ConnectPersists, ConnectFails,
                      ConnectAccepts
  <2>4. CASE \/ JobBegins \/ JobGreets \/ HostReleases \/ JobForgets \/ JobRebinds
             \/ JobPersists \/ JobAccepts \/ JobBound \/ JobFails
    BY <2>4, <1>4 DEF JobBegins, JobGreets, HostReleases, JobForgets, JobRebinds, JobPersists, JobAccepts, JobBound,
                      JobFails
  <2>5. CASE \E recovered \in BOOLEAN : WorkerStarts(recovered)
    BY <2>5, <1>4 DEF WorkerStarts
  <2> QED BY <1>4, <2>1, <2>2, <2>3, <2>4, <2>5 DEF RouteNext
<1>5. ASSUME worker # "up", RouteNext PROVE worker' = "up" \/ UNCHANGED <<worker, ports, holder, waiting>>
  <2>1. \/ NewDocument \/ RegistryWrites
        \/ \E s \in RouteSessions : HostCreates(s)
        \/ \E recovered \in BOOLEAN : WorkerStarts(recovered)
    BY <1>5, GoneDoesNothing DEF RouteNext
  <2> QED BY <2>1 DEF NewDocument, RegistryWrites, HostCreates, WorkerStarts, lockVars, portVars
<1>6. ASSUME worker' = "up" PROVE WorkerGone'
  BY <1>6 DEF WorkerGone
<1> QED BY <1>1, <1>3, <1>4, <1>5, <1>6 DEF routeVars, portVars, lockVars

-----------------------------------------------------------------------------

\* Every step of the route, of the host and of the worker keeps the owner.
THEOREM RoutePreserved ==
  ASSUME RouteInv, WorkerGone, [RouteNext]_routeVars
  PROVE  RouteInv' /\ WorkerGone'
<1>1. ASSUME UNCHANGED routeVars PROVE RouteInv'
  <2>1. UNCHANGED <<accepted, latestHello, ports, activePort, lease, holder, waiting>>
    BY <1>1 DEF routeVars, portVars, lockVars
  <2>2. PortsFit'
    BY <2>1 DEF RouteInv, PortsFit
  <2>3. JobFits'
    BY <2>1 DEF RouteInv, JobFits, LockedSession, Waits, PortOpen, NobodyConnected
  <2> QED BY <2>1, <2>2, <2>3, QueueKept DEF RouteInv, Waits
<1>2. ASSUME RouteNext PROVE RouteInv'
  BY <1>2, PortActionKeeps, LockActionKeeps, RouteRestKeeps, NewDocumentKeeps DEF RouteNext
<1> QED BY <1>1, <1>2, GoneStays

\* At the start the worker is down.
LEMMA WorkerStartsUp == RouteInit => WorkerGone
BY DEF RouteInit, WorkerGone

\* What the runs check of owners follows from the invariant.
LEMMA OwnerFollows == RouteInv => ConnectedIsOwned /\ ReplaceKeepsRoute
<1> SUFFICES ASSUME RouteInv PROVE ConnectedIsOwned /\ ReplaceKeepsRoute
  OBVIOUS
<1>1. ConnectedIsOwned
  BY DEF RouteInv, PortsFit, ConnectedIsOwned
<1>2. holder.kind = "replace" => LockedSession
  BY DEF LockedSession
<1>3. ReplaceKeepsRoute
  BY <1>2 DEF RouteInv, JobFits, ReplaceKeepsRoute
<1> QED BY <1>1, <1>3

\* A connected port is the only one of its route and speaks for the session the route
\* has (fenceConnection, forgetAcceptedDescriptor), whatever is released, replaced or
\* superseded, with the lock or without it.
THEOREM PortOwnsItsRoute == RouteSpec => []ConnectedIsOwned
<1>1. RouteInv /\ WorkerGone /\ [RouteNext]_routeVars => RouteInv' /\ WorkerGone'
  BY RoutePreserved
<1>2. RouteInv => ConnectedIsOwned
  BY OwnerFollows
<1> QED BY <1>1, <1>2, RouteInitially, WorkerStartsUp, PTL DEF RouteSpec

\* Between the release of the old session and the bind of the new one the route is
\* nobody's (replaceSession), although a panel's own release waits for no lock.
THEOREM NobodyGetsBetween == RouteSpec => []ReplaceKeepsRoute
<1>1. RouteInv /\ WorkerGone /\ [RouteNext]_routeVars => RouteInv' /\ WorkerGone'
  BY RoutePreserved
<1>2. RouteInv => ReplaceKeepsRoute
  BY OwnerFollows
<1> QED BY <1>1, <1>2, RouteInitially, WorkerStartsUp, PTL DEF RouteSpec
-----------------------------------------------------------------------------
(* The registry *)

Descriptors == RouteSessions \cup {NoSession}

\* What the registry will hold once the writes that wait are done: the session that
\* is accepted, or about to be.
Latest == IF updates = <<>> THEN registry ELSE updates[Len(updates)]
Expected == IF holder.step = "persist" THEN holder.session ELSE accepted
RegistryFits ==
  /\ updates \in Seq(Descriptors) /\ holder.session \in Descriptors
  /\ worker = "up" => Latest = Expected
  /\ worker # "up" => updates = <<>>

\* The write asked for last is the one done last.
LEMMA WriteIsLatest ==
  ASSUME updates \in Seq(Descriptors), NEW s \in Descriptors, Writes(s)
  PROVE  updates' \in Seq(Descriptors) /\ Latest' = s
<1>1. /\ updates' \in Seq(Descriptors) /\ Len(updates') = Len(updates) + 1 /\ updates'[Len(updates) + 1] = s
  BY SMT DEF Writes
<1>2. updates' # <<>> /\ Len(updates) \in Nat
  BY <1>1, SMT
<1> QED BY <1>1, <1>2 DEF Latest

\* A step of a job leaves its session.
LEMMA StepSession ==
  ASSUME RouteInv, RegistryFits, NEW step, NEW write,
         \/ holder' = [holder EXCEPT !.step = step]
         \/ holder' = [holder EXCEPT !.step = step, !.write = write]
  PROVE  holder'.session = holder.session /\ holder'.step = step
<1> DEFINE j == [holder EXCEPT !.step = step]
<1>1. DOMAIN j = JobFields /\ j.session = holder.session /\ j.step = step
  BY SMT DEF RouteInv, JobFits, JobFields
<1>2. holder' = j \/ holder' = [j EXCEPT !.write = write]
  OBVIOUS
<1> HIDE DEF j
<1> QED BY <1>1, <1>2, SMT DEF JobFields

\* No job has no session.
LEMMA NoJobSession == NoJob.session = NoSession /\ NoJob.step = "none" /\ NoSession \in Descriptors
BY SMT DEF NoJob, Job, Descriptors

\* A step that changes neither the registry, its writes, what is accepted nor where a
\* job is between its write and its acceptance.
LEMMA RegistryKept ==
  ASSUME RegistryFits, UNCHANGED <<worker, registry, updates, accepted>>,
         holder'.session \in Descriptors, Expected' = Expected
  PROVE  RegistryFits'
BY DEF RegistryFits, Latest

\* A write of the registry is of the session that is to be accepted (persistRegistry).
LEMMA RegistryWritten ==
  ASSUME RegistryFits, NEW s \in Descriptors, Writes(s), worker' = worker, worker = "up",
         holder'.session \in Descriptors, Expected' = s
  PROVE  RegistryFits'
BY WriteIsLatest DEF RegistryFits

\* The panel's release, without the lock: it finds no job between write and acceptance.
LEMMA AnswerKeepsRegistry ==
  ASSUME RouteInv, RegistryFits, worker = "up", NEW p \in RoutePorts, PortAnswered(p)
  PROVE  RegistryFits'
<1>1. UNCHANGED <<worker, registry, holder>>
  BY DEF PortAnswered, lockVars
<1>2. \/ UNCHANGED <<accepted, updates>>
      \/ ports[p].request = "released" /\ accepted = ports[p].session /\ accepted' = NoSession /\ Writes(NoSession)
  BY DEF PortAnswered, Forgets
<1>3. CASE UNCHANGED <<accepted, updates>>
  BY <1>1, <1>3, RegistryKept DEF RegistryFits, Expected
<1>4. CASE /\ ports[p].request = "released" /\ accepted = ports[p].session
           /\ accepted' = NoSession /\ Writes(NoSession)
  <2>1. accepted # NoSession
    BY <1>4 DEF RouteInv, PortsFit
  <2>2. holder.step # "persist"
    <3>1. holder.kind = "connect" \/ LockedSession => (holder.step = "persist" => accepted = NoSession)
      BY DEF RouteInv, JobFits
    <3>2. holder.kind = "none" => holder.step = "none"
      BY DEF RouteInv, JobFits
    <3> QED BY <2>1, <3>1, <3>2 DEF RouteInv, JobFits, LockedSession
  <2>3. Expected' = NoSession
    BY <1>1, <1>4, <2>2 DEF Expected
  <2> QED BY <1>1, <1>4, <2>3, NoJobSession, RegistryWritten DEF RegistryFits
<1> QED BY <1>2, <1>3, <1>4

\* What ports do leaves the registry and what is accepted.
LEMMA PortsKeepRegistry ==
  ASSUME RouteInv, RegistryFits, worker = "up", NEW p \in RoutePorts,
         \/ PortOpens(p) \/ PortCloses(p) \/ HostServes(p) \/ PortAnswered(p)
         \/ \E s \in RouteSessions : PortAsks(p, s)
         \/ \E request \in {"create", "release"} : PortRequests(p, request)
  PROVE  RegistryFits'
<1>1. ASSUME UNCHANGED <<worker, registry, updates, accepted, holder>> PROVE RegistryFits'
  BY <1>1, RegistryKept DEF RegistryFits, Expected
<1>2. ASSUME PortOpens(p) \/ PortCloses(p) \/ HostServes(p) PROVE RegistryFits'
  BY <1>1, <1>2 DEF PortOpens, PortCloses, HostServes, lockVars, storeVars
<1>3. ASSUME \/ \E s \in RouteSessions : PortAsks(p, s)
             \/ \E request \in {"create", "release"} : PortRequests(p, request)
      PROVE  RegistryFits'
  BY <1>1, <1>3 DEF PortAsks, PortRequests, lockVars, storeVars
<1> QED BY <1>2, <1>3, AnswerKeepsRegistry

\* The steps of a job that write nothing and accept nothing.
LEMMA QuietStepsKeepRegistry ==
  ASSUME RouteInv, RegistryFits,
         \/ \E kind \in {"bind", "replace", "release"}, s \in RouteSessions : Asks(kind, s)
         \/ Takes
         \/ \E step \in {"begin", "greet", "bind"} : ConnectFenced(step)
         \/ ConnectBegins \/ ConnectGreeted \/ ConnectThrows \/ ConnectFails
         \/ JobBegins \/ JobGreets \/ HostReleases \/ JobRebinds \/ JobBound
  PROVE  RegistryFits'
<1>1. UNCHANGED <<worker, registry, updates, accepted>>
  BY DEF Asks, Takes, ConnectFenced, ConnectBegins, ConnectGreeted, ConnectThrows, ConnectFails, JobBegins,
         JobGreets, HostReleases, JobRebinds, JobBound, storeVars
<1>2. ASSUME holder' = holder PROVE RegistryFits'
  BY <1>1, <1>2, RegistryKept DEF RegistryFits, Expected
<1>3. ASSUME holder' = NoJob, holder.step # "persist" PROVE RegistryFits'
  BY <1>1, <1>3, RegistryKept, NoJobSession DEF Expected
<1>4. ASSUME NEW step, step # "persist", holder.step # "persist",
             holder'.session = holder.session, holder'.step = step
      PROVE  RegistryFits'
  BY <1>1, <1>4, RegistryKept DEF RegistryFits, Expected
<1>5. ASSUME NEW step, step # "persist", holder.step # "persist", GoesTo(step) PROVE RegistryFits'
  BY <1>4, <1>5, StepSession DEF GoesTo
<1>6. ASSUME Takes PROVE RegistryFits'
  <2>1. holder = NoJob /\ holder' = Head(waiting) /\ waiting # <<>> /\ waiting \in Seq(FreshJobs)
    BY <1>6 DEF Takes, RouteInv, QueueFits
  <2>2. holder' \in FreshJobs
    BY <2>1, SMT
  <2>3. holder'.session \in Descriptors /\ holder'.step = "begin"
    BY <2>2, SMT DEF FreshJobs, Descriptors
  <2> QED BY <1>1, <2>1, <2>3, NoJobSession, RegistryKept DEF Expected
<1>7. ASSUME \/ \E step \in {"begin", "greet", "bind"} : ConnectFenced(step)
             \/ ConnectGreeted \/ ConnectThrows \/ ConnectFails \/ JobBound
      PROVE  RegistryFits'
  BY <1>3, <1>7 DEF ConnectFenced, ConnectGreeted, ConnectThrows, ConnectFails, JobBound, Holds, Done
<1>8. ASSUME ConnectBegins PROVE RegistryFits'
  <2>1. holder.step = "begin"
    BY <1>8 DEF ConnectBegins, Holds
  <2>2. CASE holder' = NoJob
    BY <2>1, <2>2, <1>3
  <2>3. CASE holder' # NoJob
    <3> DEFINE step == IF accepted = NoSession THEN "bind" ELSE "greet"
               j == [holder EXCEPT !.step = step]
    <3>1. \E previous : holder' = [j EXCEPT !.previous = previous]
      BY <1>8, <2>3 DEF ConnectBegins, Done
    <3>2. DOMAIN j = JobFields /\ j.session = holder.session /\ j.step = step
      BY SMT DEF RouteInv, JobFits, JobFields
    <3> HIDE DEF j
    <3>3. holder'.session = holder.session /\ holder'.step = step
      BY <3>1, <3>2, SMT DEF JobFields
    <3> QED BY <2>1, <3>3, <1>4
  <2> QED BY <2>2, <2>3
<1>9. ASSUME JobBegins PROVE RegistryFits'
  <2>1. holder.step = "begin"
    BY <1>9 DEF JobBegins
  <2>2. \/ GoesTo("bind") \/ holder' = NoJob
        \/ \E step \in {"release", "hello"} : holder' = [holder EXCEPT !.step = step, !.old = accepted]
    BY <1>9 DEF JobBegins, Done
  <2>3. ASSUME NEW step \in {"release", "hello"}, holder' = [holder EXCEPT !.step = step, !.old = accepted]
        PROVE  RegistryFits'
    <3> DEFINE j == [holder EXCEPT !.step = step]
    <3>1. DOMAIN j = JobFields /\ j.session = holder.session /\ j.step = step
      BY SMT DEF RouteInv, JobFits, JobFields
    <3>2. holder' = [j EXCEPT !.old = accepted]
      BY <2>3
    <3> HIDE DEF j
    <3>3. holder'.session = holder.session /\ holder'.step = step
      BY <3>1, <3>2, SMT DEF JobFields
    <3> QED BY <2>1, <3>3, <1>4
  <2> QED BY <2>1, <2>2, <2>3, <1>3, <1>5
<1>10. ASSUME JobGreets \/ HostReleases \/ JobRebinds PROVE RegistryFits'
  <2>1. /\ holder.step # "persist"
        /\ holder' = NoJob \/ \E step \in {"release", "released", "bind"} : GoesTo(step)
    BY <1>10 DEF JobGreets, HostReleases, JobRebinds, Done
  <2> QED BY <2>1, <1>3, <1>5
<1>11. ASSUME \E kind \in {"bind", "replace", "release"}, s \in RouteSessions : Asks(kind, s) PROVE RegistryFits'
  BY <1>2, <1>11 DEF Asks
<1> QED BY <1>6, <1>7, <1>8, <1>9, <1>10, <1>11

\* The steps that write, and those that accept what was written.
LEMMA WritingStepsKeepRegistry ==
  ASSUME RouteInv, RegistryFits, worker = "up",
         ConnectPersists \/ ConnectAccepts \/ JobForgets \/ JobPersists \/ JobAccepts \/ JobFails
  PROVE  RegistryFits'
<1>1. UNCHANGED <<worker, registry>>
  BY DEF ConnectPersists, ConnectAccepts, JobForgets, JobPersists, JobAccepts, JobFails, storeVars
<1>2. ASSUME ConnectPersists \/ JobPersists PROVE RegistryFits'
  <2>1. Writes(holder.session) /\ holder' = [holder EXCEPT !.step = "persist", !.write = asked + 1]
    BY <1>2 DEF ConnectPersists, JobPersists
  <2>2. holder'.session = holder.session /\ holder'.step = "persist"
    BY <2>1, StepSession
  <2> QED BY <1>1, <2>1, <2>2, RegistryWritten DEF RegistryFits, Expected
<1>3. ASSUME ConnectAccepts \/ JobAccepts PROVE RegistryFits'
  <2>1. /\ holder.step = "persist" /\ accepted' = holder.session /\ updates' = updates
        /\ holder' = NoJob \/ GoesTo("greet")
    BY <1>3 DEF ConnectAccepts, JobAccepts, Holds, Done, storeVars
  <2>2. holder'.session \in Descriptors /\ holder'.step # "persist"
    BY <2>1, NoJobSession, StepSession DEF GoesTo, RegistryFits
  <2> QED BY <1>1, <2>1, <2>2 DEF RegistryFits, Latest, Expected
<1>4. ASSUME JobForgets PROVE RegistryFits'
  <2>1. /\ holder.step = "released"
        /\ \/ accepted' = NoSession /\ Writes(NoSession)
           \/ UNCHANGED <<accepted, updates>>
        /\ \E write : holder' = [holder EXCEPT !.step = "forgotten", !.write = write]
    BY <1>4 DEF JobForgets, Forgets
  <2>2. holder'.session = holder.session /\ holder'.step = "forgotten"
    BY <2>1, StepSession
  <2>3. CASE accepted' = NoSession /\ Writes(NoSession)
    BY <1>1, <2>2, <2>3, NoJobSession, RegistryWritten DEF RegistryFits, Expected
  <2>4. CASE UNCHANGED <<accepted, updates>>
    BY <1>1, <2>1, <2>2, <2>4, RegistryKept DEF RegistryFits, Expected
  <2> QED BY <2>1, <2>3, <2>4
<1>5. ASSUME JobFails PROVE RegistryFits'
  <2>1. /\ holder.step \in {"hello", "release", "greet"} /\ holder' = NoJob
        /\ \/ accepted' = NoSession /\ Writes(NoSession)
           \/ UNCHANGED <<accepted, updates>>
    BY <1>5 DEF JobFails, Done
  <2>2. CASE accepted' = NoSession /\ Writes(NoSession)
    BY <1>1, <2>1, <2>2, NoJobSession, RegistryWritten DEF Expected
  <2>3. CASE UNCHANGED <<accepted, updates>>
    BY <1>1, <2>1, <2>3, NoJobSession, RegistryKept DEF Expected
  <2> QED BY <2>1, <2>2, <2>3
<1> QED BY <1>2, <1>3, <1>4, <1>5

\* A write that lands is the oldest one; a worker that starts reads what is stored.
LEMMA RestKeepsRegistry ==
  ASSUME RouteInv, WorkerGone, RegistryFits,
         \/ NewDocument \/ RegistryWrites \/ WorkerStops
         \/ \E s \in RouteSessions : Creates(s) \/ HostCreates(s)
         \/ \E recovered \in BOOLEAN : WorkerStarts(recovered)
  PROVE  RegistryFits'
<1>1. ASSUME NewDocument \/ \E s \in RouteSessions : Creates(s) \/ HostCreates(s) PROVE RegistryFits'
  <2>1. UNCHANGED <<worker, registry, updates, accepted, holder>>
    BY <1>1 DEF NewDocument, Creates, HostCreates, lockVars, storeVars
  <2> QED BY <2>1, RegistryKept DEF RegistryFits, Expected
<1>2. ASSUME RegistryWrites PROVE RegistryFits'
  <2>1. /\ UNCHANGED <<worker, accepted, holder>> /\ updates # <<>> /\ updates \in Seq(Descriptors)
        /\ registry' = Head(updates) /\ updates' = Tail(updates)
    BY <1>2 DEF RegistryWrites, lockVars, RegistryFits
  <2>2. CASE Len(updates) = 1
    <3>1. updates' = <<>> /\ registry' = updates[Len(updates)]
      BY <2>1, <2>2, SMT
    <3> QED BY <2>1, <3>1 DEF RegistryFits, Latest, Expected
  <2>3. CASE Len(updates) # 1
    <3>1. /\ updates' \in Seq(Descriptors) /\ updates' # <<>>
          /\ updates'[Len(updates')] = updates[Len(updates)]
      <4>1. Len(updates) \in Nat /\ Len(updates) # 0
        BY <2>1, SMT
      <4>2. updates' \in Seq(Descriptors) /\ Len(updates') = Len(updates) - 1 /\ Len(updates') # 0
        BY <2>1, <2>3, <4>1, SMT
      <4>3. \A i \in 1..Len(updates') : updates'[i] = updates[i + 1]
        BY <2>1, <4>1, <4>2, SMT
      <4> QED BY <4>1, <4>2, <4>3, SMT
    <3> QED BY <2>1, <3>1 DEF RegistryFits, Latest, Expected
  <2> QED BY <2>2, <2>3
<1>3. ASSUME WorkerStops PROVE RegistryFits'
  <2>1. worker' = "down" /\ updates' = <<>> /\ holder' = NoJob
    BY <1>3 DEF WorkerStops
  <2>2. <<>> \in Seq(Descriptors)
    BY SMT
  <2> QED BY <2>1, <2>2, NoJobSession DEF RegistryFits
<1>4. ASSUME NEW recovered \in BOOLEAN, WorkerStarts(recovered) PROVE RegistryFits'
  <2>1. /\ worker = "down" /\ worker' = "up" /\ accepted' = registry
        /\ UNCHANGED <<registry, updates, holder>>
    BY <1>4 DEF WorkerStarts, lockVars, storeVars
  <2>2. holder = NoJob /\ updates = <<>>
    BY <2>1 DEF WorkerGone, RegistryFits
  <2> QED BY <2>1, <2>2, NoJobSession DEF RegistryFits, Latest, Expected
<1> QED BY <1>1, <1>2, <1>3, <1>4

\* Every step keeps the registry with what is accepted.
THEOREM RegistryPreserved ==
  ASSUME RouteInv, WorkerGone, RegistryFits, [RouteNext]_routeVars
  PROVE  RegistryFits'
<1>1. ASSUME UNCHANGED routeVars PROVE RegistryFits'
  <2>1. UNCHANGED <<worker, registry, updates, accepted, holder>>
    BY <1>1 DEF routeVars, lockVars, storeVars
  <2> QED BY <2>1, RegistryKept DEF RegistryFits, Expected
<1>2. ASSUME RouteNext, worker = "up" PROVE RegistryFits'
  BY <1>2, PortsKeepRegistry, QuietStepsKeepRegistry, WritingStepsKeepRegistry, RestKeepsRegistry DEF RouteNext
<1>3. ASSUME RouteNext, worker # "up" PROVE RegistryFits'
  BY <1>3, GoneDoesNothing, RestKeepsRegistry DEF RouteNext
<1> QED BY <1>1, <1>2, <1>3

\* What is stored for a window is the session it has whenever the worker is up, no write
\* waits and no bind is between its write and its acceptance (updateAgentRuntimeRegistry),
\* so a worker that starts again accepts what the one before it had.
THEOREM RegistryFollowsOwner == RouteSpec => []RegistryIsAccepted
<1>1. RouteInit => RegistryFits
  <2> SUFFICES ASSUME RouteInit PROVE RegistryFits
    OBVIOUS
  <2>1. <<>> \in Seq(Descriptors)
    BY SMT
  <2> QED BY <2>1, NoJobSession DEF RouteInit, RegistryFits, Latest, Expected
<1>2. RouteInv /\ WorkerGone /\ RegistryFits /\ [RouteNext]_routeVars => RouteInv' /\ WorkerGone' /\ RegistryFits'
  BY RoutePreserved, RegistryPreserved
<1>3. RegistryFits => RegistryIsAccepted
  BY DEF RegistryFits, RegistryIsAccepted, Latest, Expected
<1> QED BY <1>1, <1>2, <1>3, RouteInitially, WorkerStartsUp, PTL DEF RouteSpec
=============================================================================
