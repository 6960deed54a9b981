------------------------------- MODULE Handoff -------------------------------
(***************************************************************************)
(* A step of a task handed to the human, on one frame of one tab:             *)
(*                                                                         *)
(*   HandoffCoordinator   extension/src/bridge/handoff-coordinator.ts          *)
(*   handoffStart         extension/src/bridge/browser-command-executor.ts     *)
(*   the overlay          extension/src/tools/handoff-overlay.ts,             *)
(*                        extension/src/injected/handoff-runtime.ts           *)
(*                                                                         *)
(* The command shows an overlay, waits for the human to begin, may click for   *)
(* them, and waits for the end, which the human, a timer, an abort, the window *)
(* or a navigation decides.  The overlay's messages and the scripts that show, *)
(* change and remove it cross.  A restart of the worker loses the handoffs and *)
(* their commands, not the overlay.                                         *)
(***************************************************************************)
EXTENDS Naturals, Sequences, SequencesExt

CONSTANTS
  Handoffs,               \* handoff_start commands for the frame
  MaxHandoffNavigations   \* bound: navigations of the frame

Terminal == {"completed", "cancelled", "timed_out"}
Nobody == "nobody"

ASSUME HandoffAssumption == MaxHandoffNavigations \in Nat /\ Nobody \notin Handoffs

VARIABLES
  handRecord,   \* of each handoff: "none", "started", "acknowledged", how it ended, or "lost"
  told,         \* of each handoff, what the coordinator's listeners were told
  stage,        \* of each handoff, what handoffStart awaits
  handed,       \* of each handoff: handoffStart has the handle of an overlay
  cut,          \* the handoffs whose executionAbort is aborted
  boundTo,      \* of each handoff, its navigation generation
  answered,     \* of each handoff, what handoffStart returns
  overlay,      \* the page's overlay: whose it is, and whether it may be begun or resumed
  said,         \* messages of the page under way
  frameGeneration,
  restarted

handVars == <<handRecord, told, stage, handed, cut, boundTo, answered,
              overlay, said, frameGeneration, restarted>>
coordinatorVars == <<handRecord, told, cut>>
commandVars == <<stage, handed, answered>>
pageVars == <<overlay, said, frameGeneration>>

NoOverlay == [of |-> Nobody, acknowledged |-> FALSE, enabled |-> FALSE]

HandInit ==
  /\ handRecord = [h \in Handoffs |-> "none"]
  /\ told = [h \in Handoffs |-> <<>>]
  /\ stage = [h \in Handoffs |-> "idle"]
  /\ handed = [h \in Handoffs |-> FALSE]
  /\ cut = {}
  /\ boundTo = [h \in Handoffs |-> 0]
  /\ answered = [h \in Handoffs |-> "none"]
  /\ overlay = NoOverlay /\ said = {}
  /\ frameGeneration = 0
  /\ restarted = FALSE

Open(h) == handRecord[h] \in {"started", "acknowledged"}
Goes(h, step) == stage' = [stage EXCEPT ![h] = step]

-----------------------------------------------------------------------------
(* The coordinator *)

\* Mutant: the latest outcome counts.
FinishAgain(h, outcome) ==
  /\ handRecord' = [handRecord EXCEPT ![h] = outcome]
  /\ told' = [told EXCEPT ![h] = Append(@, outcome)]
  /\ cut' = cut \cup {h}

\* terminate and finish: nothing if another outcome came first.
Finish(h, outcome) ==
  IF Open(h)
  THEN /\ handRecord' = [handRecord EXCEPT ![h] = outcome]
       /\ told' = [told EXCEPT ![h] = Append(@, outcome)]
       /\ cut' = cut \cup {h}
  ELSE UNCHANGED coordinatorVars

HandTimesOut(h) ==
  /\ Open(h)
  /\ Finish(h, "timed_out")
  /\ UNCHANGED <<commandVars, boundTo, pageVars, restarted>>

\* The command is aborted, or its window closes (cancelWindow).
HandAborted(h) ==
  /\ Open(h)
  /\ Finish(h, "cancelled")
  /\ UNCHANGED <<commandVars, boundTo, pageVars, restarted>>

\* What the page does with the answer to its message.
Refused(h) == overlay' = IF overlay.of = h THEN NoOverlay ELSE overlay

AcceptAcknowledgement(h) ==
  IF handRecord[h] = "started"
  THEN /\ handRecord' = [handRecord EXCEPT ![h] = "acknowledged"]
       /\ told' = [told EXCEPT ![h] = Append(@, "acknowledged")]
       /\ overlay' = IF overlay.of = h THEN [overlay EXCEPT !.acknowledged = TRUE] ELSE overlay
       /\ UNCHANGED cut
  ELSE UNCHANGED coordinatorVars /\ Refused(h)

AcceptEnd(h, state) ==
  /\ IF state = "completed" /\ handRecord[h] # "acknowledged" THEN UNCHANGED coordinatorVars
     ELSE Finish(h, state)
  /\ Refused(h)

\* acceptPageEvent, and the page's reading of its answer.
AcceptPageEvent(m) ==
  /\ m \in said
  /\ said' = said \ {m}
  /\ IF ~Open(m.by) THEN UNCHANGED coordinatorVars /\ Refused(m.by)
     ELSE IF boundTo[m.by] # frameGeneration THEN Finish(m.by, "cancelled") /\ Refused(m.by)
     ELSE IF m.state = "acknowledged" THEN AcceptAcknowledgement(m.by)
     ELSE AcceptEnd(m.by, m.state)
  /\ UNCHANGED <<commandVars, boundTo, frameGeneration, restarted>>

-----------------------------------------------------------------------------
(* handoffStart *)

HandStart(h) ==
  /\ stage[h] = "idle"
  /\ handRecord' = [handRecord EXCEPT ![h] = "started"]
  /\ told' = [told EXCEPT ![h] = <<"started">>]
  /\ boundTo' = [boundTo EXCEPT ![h] = frameGeneration]
  /\ Goes(h, "showing")
  /\ UNCHANGED <<cut, handed, answered, pageVars, restarted>>

\* Mutant: an error goes to the caller past the removal of the overlay.
ThrowsThrough(h) ==
  /\ Finish(h, "cancelled")
  /\ answered' = [answered EXCEPT ![h] = IF h \in cut THEN handRecord[h] ELSE "failed"]
  /\ Goes(h, "done")

\* A step of the command throws.
Throws(h) ==
  /\ Finish(h, "cancelled")
  /\ answered' = [answered EXCEPT ![h] = IF h \in cut THEN handRecord[h] ELSE "failed"]
  /\ Goes(h, "removing")

\* The overlay is shown, unless the frame has one.
HandShown(h) ==
  /\ stage[h] = "showing"
  /\ \/ /\ overlay = NoOverlay
        /\ overlay' = [of |-> h, acknowledged |-> FALSE, enabled |-> TRUE]
        /\ handed' = [handed EXCEPT ![h] = TRUE]
        /\ Goes(h, "waiting")
        /\ UNCHANGED <<coordinatorVars, answered>>
     \/ Throws(h) /\ UNCHANGED <<overlay, handed>>
  /\ UNCHANGED <<boundTo, said, frameGeneration, restarted>>

\* The human began, or never will; a trigger, if there is one, is clicked.
HandBegan(h) ==
  /\ stage[h] = "waiting" /\ handRecord[h] # "started"
  /\ IF Contains(told[h], "acknowledged")
     THEN /\ \E next \in {"clicking", "preparing"} : Goes(h, next)
          /\ UNCHANGED answered
     ELSE /\ answered' = [answered EXCEPT ![h] = handRecord[h]]
          /\ Goes(h, "removing")
  /\ UNCHANGED <<coordinatorVars, handed, boundTo, pageVars, restarted>>

\* refClick, under executionAbort's signal: it clicks or not, or throws.
HandClicked(h) ==
  /\ stage[h] = "clicking"
  /\ \/ /\ Goes(h, "preparing")
        /\ UNCHANGED <<coordinatorVars, answered>>
     \/ Throws(h)
  /\ UNCHANGED <<handed, boundTo, pageVars, restarted>>

\* overlay.ready
HandPrepared(h) ==
  /\ stage[h] = "preparing"
  /\ IF overlay.of = h
     THEN /\ overlay' = [overlay EXCEPT !.enabled = TRUE]
          /\ Goes(h, "ending")
          /\ UNCHANGED <<coordinatorVars, answered>>
     ELSE Throws(h) /\ UNCHANGED overlay
  /\ UNCHANGED <<handed, boundTo, said, frameGeneration, restarted>>

HandEnded(h) ==
  /\ stage[h] = "ending" /\ ~Open(h)
  /\ answered' = [answered EXCEPT ![h] = handRecord[h]]
  /\ Goes(h, "removing")
  /\ UNCHANGED <<coordinatorVars, handed, boundTo, pageVars, restarted>>

\* The overlay goes, if there is one and it is this handoff's.
HandRemoved(h) ==
  /\ stage[h] = "removing"
  /\ overlay' = IF handed[h] /\ overlay.of = h THEN NoOverlay ELSE overlay
  /\ Goes(h, "done")
  /\ UNCHANGED <<coordinatorVars, handed, boundTo, answered, said, frameGeneration, restarted>>

-----------------------------------------------------------------------------
(* The page and the worker *)

\* The primary button begins, then resumes; cancel may be pressed at any time.
HumanBegins ==
  /\ overlay.enabled
  /\ said' = said \cup {[by |-> overlay.of,
                         state |-> IF overlay.acknowledged THEN "completed" ELSE "acknowledged"]}
  /\ overlay' = [overlay EXCEPT !.enabled = FALSE]
  /\ UNCHANGED <<coordinatorVars, commandVars, boundTo, frameGeneration, restarted>>

HumanCancels ==
  /\ overlay # NoOverlay
  /\ said' = said \cup {[by |-> overlay.of, state |-> "cancelled"]}
  /\ UNCHANGED <<coordinatorVars, commandVars, boundTo, overlay, frameGeneration, restarted>>

FrameNavigates ==
  /\ frameGeneration < MaxHandoffNavigations
  /\ frameGeneration' = frameGeneration + 1
  /\ overlay' = NoOverlay
  /\ UNCHANGED <<coordinatorVars, commandVars, boundTo, said, restarted>>

WorkerRestarts ==
  /\ ~restarted /\ restarted' = TRUE
  /\ handRecord' = [h \in Handoffs |-> IF stage[h] = "idle" THEN "none" ELSE
                                       IF Open(h) THEN "lost" ELSE handRecord[h]]
  /\ stage' = [h \in Handoffs |-> IF stage[h] = "idle" THEN "idle" ELSE "done"]
  /\ UNCHANGED <<told, cut, handed, answered, boundTo, pageVars>>

-----------------------------------------------------------------------------

HandStep(h) ==
  HandShown(h) \/ HandBegan(h) \/ HandClicked(h) \/ HandPrepared(h) \/ HandEnded(h) \/ HandRemoved(h)

HandProgress == \E h \in Handoffs : HandStep(h) \/ HandTimesOut(h)

HandNext ==
  \/ HandProgress
  \/ \E h \in Handoffs : HandStart(h) \/ HandAborted(h)
  \/ \E m \in said : AcceptPageEvent(m)
  \/ HumanBegins \/ HumanCancels \/ FrameNavigates \/ WorkerRestarts

HandSpec == HandInit /\ [][HandNext]_handVars

-----------------------------------------------------------------------------
(* Properties *)

\* A handoff ends once, whichever of timer, abort, window and page comes first, is
\* completed only after it was acknowledged, and its command returns that outcome.
OneOutcome ==
  \A h \in Handoffs :
    /\ told[h] \in {<<>>, <<"started">>, <<"started", "acknowledged">>}
         \cup {<<"started", t>> : t \in Terminal \ {"completed"}}
         \cup {<<"started", "acknowledged", t>> : t \in Terminal}
    /\ answered[h] \in Terminal => answered[h] = Last(told[h])

\* When a command is over, its overlay is gone, unless the worker was restarted.
OverlayGoesWithCommand ==
  overlay # NoOverlay /\ stage[overlay.of] = "done" => restarted
=============================================================================
