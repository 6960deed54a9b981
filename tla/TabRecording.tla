---------------------------- MODULE TabRecording ----------------------------
(***************************************************************************)
(* A tab recorded by `record start --mode tab-capture`, from the CLI to the    *)
(* media recorder and back:                                                 *)
(*                                                                         *)
(*   recordSession            cli/src/cli.ts                                *)
(*   ChromeTabCaptureRecorder extension/src/recording/chrome-tab-capture-recorder.ts *)
(*   the offscreen document   extension/src/recording/offscreen-tab-capture.ts *)
(*   their messages           extension/src/background.ts                    *)
(*                                                                         *)
(* CLI, command and recording have one number.  What the document sends the   *)
(* worker is handled in the order it was sent, answers included.  What the     *)
(* worker sends through the window's socket and the bridge every CLI hears, in   *)
(* order; nobody acts on it in between, so that it is heard when it is sent.    *)
(***************************************************************************)
EXTENDS Naturals, Sequences, SequencesExt

CONSTANTS
  MaxCaptures,     \* bound: record_start commands for the tab
  MaxChunks,       \* bound: chunks of a recording
  MaxRecordStops,  \* bound: record_stop commands, by whomever
  MaxPartings      \* bound: ends of the worker, its socket or the window's bridge

ASSUME RecordingAssumption == {MaxCaptures, MaxChunks, MaxRecordStops, MaxPartings} \subseteq Nat

Captures == 1..MaxCaptures
RecordStops == 1..MaxRecordStops
Nothing == 0

VARIABLES
  \* the CLIs
  cliStep,      \* of each: "idle", "asked", "started", "finished", "failed"
  adopted,      \* recordingId
  received,     \* the chunks it took: pendingChunks, then the file
  artifact,     \* artifactState of the summary with which it finished
  mixed,        \* history: CLIs that took a chunk or a summary of another recording
  \* the bridge
  link,         \* the window's socket: "open", "dead" while nobody knows it, "closed"
  \* the worker
  startStep,    \* of each start: "idle", "asked", "sent", "showing", "over"
  byTab, byId,  \* byTabId of the tab, byRecordingId
  stopStep,     \* of each stop: "idle", "recovering", "requesting", "over", and its recording
  \* the offscreen document
  tape,         \* of each recording: phase, chunks queued, next sequence number, artifactState
  partings,
  swallowed     \* history: recordings whose end was not heard of by their CLI

recordCliVars == <<cliStep, adopted, received, artifact, mixed>>
recorderVars == <<startStep, byTab, byId, stopStep>>
recordingVars == <<recordCliVars, link, recorderVars, tape, partings, swallowed>>

NoTape == [phase |-> "none", queued |-> 0, next |-> 0, state |-> "complete"]

RecordingInit ==
  /\ cliStep = [c \in Captures |-> "idle"] /\ adopted = [c \in Captures |-> Nothing]
  /\ received = [c \in Captures |-> <<>>] /\ artifact = [c \in Captures |-> "none"]
  /\ mixed = {}
  /\ link = "open"
  /\ startStep = [c \in Captures |-> "idle"] /\ byTab = Nothing /\ byId = {}
  /\ stopStep = [k \in RecordStops |-> [step |-> "idle", of |-> Nothing]]
  /\ tape = [c \in Captures |-> NoTape]
  /\ partings = 0 /\ swallowed = {}

\* captures: deleted before the completion is sent.
Held == {c \in Captures : tape[c].phase \in {"recording", "stopping"}}

-----------------------------------------------------------------------------
(* The CLIs *)

\* A CLI that waits for its recordingId takes the first it hears of.
CliListens(c, m) == cliStep[c] \in {"asked", "started"} /\ adopted[c] \in {Nothing, m.of}

CliHearsResponse(m) ==
  /\ cliStep' = [cliStep EXCEPT ![m.of] =
       IF @ # "asked" THEN @ ELSE IF m.ok THEN "started" ELSE "failed"]
  /\ adopted' = [adopted EXCEPT ![m.of] = IF cliStep[m.of] = "asked" /\ m.ok THEN m.of ELSE @]
  /\ UNCHANGED <<received, artifact, mixed>>

\* Mutant: chunks that come before the answer are not kept.
CliHearsChunkStarted(m) ==
  /\ adopted' = [c \in Captures |-> IF CliListens(c, m) THEN m.of ELSE adopted[c]]
  /\ received' = [c \in Captures |->
       IF CliListens(c, m) /\ cliStep[c] = "started" THEN Append(received[c], m.seq) ELSE received[c]]
  /\ mixed' = mixed \cup {c \in Captures : CliListens(c, m) /\ c # m.of}
  /\ UNCHANGED <<cliStep, artifact>>

CliHearsChunk(m) ==
  /\ adopted' = [c \in Captures |-> IF CliListens(c, m) THEN m.of ELSE adopted[c]]
  /\ received' = [c \in Captures |-> IF CliListens(c, m) THEN Append(received[c], m.seq) ELSE received[c]]
  /\ mixed' = mixed \cup {c \in Captures : CliListens(c, m) /\ c # m.of}
  /\ UNCHANGED <<cliStep, artifact>>

\* Mutant: an end that comes before the answer is not taken.
CliHearsFinalStarted(m) ==
  /\ artifact' = [c \in Captures |->
       IF CliListens(c, m) /\ cliStep[c] = "started" THEN m.state ELSE artifact[c]]
  /\ cliStep' = [c \in Captures |->
       IF CliListens(c, m) /\ cliStep[c] = "started" THEN "finished" ELSE cliStep[c]]
  /\ mixed' = mixed \cup {c \in Captures : CliListens(c, m) /\ c # m.of}
  /\ UNCHANGED <<adopted, received>>

\* A CLI that has its answer has a file; one that has not ends all the same.
CliHearsFinal(m) ==
  /\ artifact' = [c \in Captures |->
       IF CliListens(c, m) /\ cliStep[c] = "started" THEN m.state ELSE artifact[c]]
  /\ cliStep' = [c \in Captures |-> IF CliListens(c, m) THEN "finished" ELSE cliStep[c]]
  /\ mixed' = mixed \cup {c \in Captures : CliListens(c, m) /\ c # m.of}
  /\ UNCHANGED <<adopted, received>>

CliHears(m) ==
  CASE m.type = "response" -> CliHearsResponse(m)
    [] m.type = "chunk" -> CliHearsChunk(m)
    [] m.type = "final" -> CliHearsFinal(m)

\* sendEvent, sendResponse of the bridge client.
Sends(m) == IF link = "open" THEN CliHears(m) ELSE UNCHANGED recordCliVars

Answers(c, ok) == Sends([type |-> "response", of |-> c, ok |-> ok])

-----------------------------------------------------------------------------
(* start *)

RecordAsks(c) ==
  /\ cliStep[c] = "idle" /\ link = "open"
  /\ \A d \in Captures : d < c => cliStep[d] # "idle"
  /\ cliStep' = [cliStep EXCEPT ![c] = "asked"]
  /\ startStep' = [startStep EXCEPT ![c] = "asked"]
  /\ UNCHANGED <<adopted, received, artifact, mixed, link, byTab, byId, stopStep, tape, partings, swallowed>>

\* byTabId is looked at, the stream asked for, and the document told to record.
StartSends(c) ==
  /\ startStep[c] = "asked"
  /\ IF byTab # Nothing
     THEN /\ startStep' = [startStep EXCEPT ![c] = "over"]
          /\ Answers(c, FALSE)
          /\ UNCHANGED tape
     ELSE /\ startStep' = [startStep EXCEPT ![c] = "sent"]
          /\ tape' = [tape EXCEPT ![c].phase = "asked"]
          /\ UNCHANGED recordCliVars
  /\ UNCHANGED <<link, byTab, byId, stopStep, partings, swallowed>>

\* startCapture, or somebody refuses: the user, Chrome, the tab.  Chrome captures a tab
\* once at a time.
DocumentStarts(c) ==
  /\ tape[c].phase = "asked"
  /\ \E phase \in {"refused"} \cup {p \in {"recording"} : Held = {}} :
       tape' = [tape EXCEPT ![c].phase = phase]
  /\ UNCHANGED <<recordCliVars, link, recorderVars, partings, swallowed>>

StartAnswered(c) ==
  /\ startStep[c] = "sent" /\ tape[c].phase # "asked"
  /\ IF tape[c].phase = "refused"
     THEN /\ startStep' = [startStep EXCEPT ![c] = "over"]
          /\ Answers(c, FALSE)
          /\ UNCHANGED <<byTab, byId>>
     ELSE /\ startStep' = [startStep EXCEPT ![c] = "showing"]
          /\ byTab' = c /\ byId' = byId \cup {c}
          /\ UNCHANGED recordCliVars
  /\ UNCHANGED <<link, stopStep, tape, partings, swallowed>>

\* dataavailable; the last one comes with the end.
More(c) == {tape[c].queued} \cup
           {n \in {tape[c].queued + 1} : tape[c].next + n <= MaxChunks}

\* requestStop in the document.  A stop by a user, a closed tab or the longest duration
\* leaves a complete artifact, and the last one counts.
StopsTape(c, state) ==
  \/ /\ tape[c].phase = "recording"
     /\ \E n \in More(c) :
          tape' = [tape EXCEPT ![c].phase = "stopping", ![c].state = state, ![c].queued = n]
  \/ /\ tape[c].phase = "stopping"
     /\ tape' = [tape EXCEPT ![c].state = state]

\* showIndicator settles, and with it the command.
StartEnds(c, shown) ==
  /\ startStep[c] = "showing"
  /\ startStep' = [startStep EXCEPT ![c] = "over"]
  /\ Answers(c, shown)
  /\ IF ~shown /\ c \in Held THEN StopsTape(c, "partial") ELSE UNCHANGED tape
  /\ UNCHANGED <<link, byTab, byId, stopStep, partings, swallowed>>

-----------------------------------------------------------------------------
(* The document *)

ChunkRecorded(c) ==
  /\ tape[c].phase = "recording" /\ tape[c].queued + 1 \in More(c)
  /\ tape' = [tape EXCEPT ![c].queued = @ + 1]
  /\ UNCHANGED <<recordCliVars, link, recorderVars, partings, swallowed>>

\* The recorder ends by itself: the duration is over, the tab closed, recording failed.
RecorderEnds(c) ==
  /\ tape[c].phase = "recording"
  /\ \E state \in {"complete", "partial"} : StopsTape(c, state)
  /\ UNCHANGED <<recordCliVars, link, recorderVars, partings, swallowed>>

\* What the worker does not know of, it sends on while its socket is open.
Handles(c)   == startStep[c] # "sent" /\ (c \in byId \/ link # "closed")
Unhandled(c) == startStep[c] # "sent" /\ ~(c \in byId \/ link # "closed")

\* A chunk is taken, or was refused for ten seconds.
ChunkSent(c) ==
  /\ tape[c].queued > 0
  /\ \/ /\ Handles(c)
        /\ Sends([type |-> "chunk", of |-> c, seq |-> tape[c].next])
        /\ tape' = [tape EXCEPT ![c].queued = @ - 1, ![c].next = @ + 1]
     \/ /\ Unhandled(c)
        /\ tape' = [tape EXCEPT ![c].queued = @ - 1, ![c].next = @ + 1, ![c].state = "partial"]
        /\ UNCHANGED recordCliVars
  /\ UNCHANGED <<link, recorderVars, partings, swallowed>>

EndPasses(c) ==
  /\ tape' = [tape EXCEPT ![c].phase = "over"]
  /\ swallowed' = IF link = "open" THEN swallowed ELSE swallowed \cup {c}
  /\ Sends([type |-> "final", of |-> c, state |-> tape[c].state])

\* Mutant: the tab stays taken.
EndTakenKeepsTab(c) ==
  /\ Handles(c) /\ EndPasses(c)
  /\ byId' = byId \ {c} /\ UNCHANGED byTab

\* The worker takes the completion: what it knows of the recording goes, and whatever
\* the tab has.
EndTaken(c) ==
  /\ Handles(c) /\ EndPasses(c)
  /\ byId' = byId \ {c}
  /\ byTab' = IF c \in byId THEN Nothing ELSE byTab

EndRefused(c, phase) ==
  /\ Unhandled(c)
  /\ tape' = [tape EXCEPT ![c].phase = phase]
  /\ swallowed' = IF phase = "over" THEN swallowed \cup {c} ELSE swallowed
  /\ UNCHANGED <<recordCliVars, byTab, byId>>

\* completeCapture, behind the chunks.
Completes(c) ==
  /\ tape[c].phase = "stopping" /\ tape[c].queued = 0
  /\ EndTaken(c) \/ EndRefused(c, "completing")
  /\ UNCHANGED <<link, startStep, stopStep, partings>>

\* sendEvent, forty times.
CompletesAgain(c) ==
  /\ tape[c].phase = "completing"
  /\ EndTaken(c) \/ EndRefused(c, "over")
  /\ UNCHANGED <<link, startStep, stopStep, partings>>

-----------------------------------------------------------------------------
(* stop *)

StopGoes(k, step, c) == stopStep' = [stopStep EXCEPT ![k] = [step |-> step, of |-> c]]

\* A stop names the tab or not; Ctrl-C, the button in the page and the bridge, when a
\* CLI is gone, stop as record_stop does.
StopAsked(k, named) ==
  /\ stopStep[k].step = "idle" /\ \A j \in RecordStops : j < k => stopStep[j].step # "idle"
  /\ \E c \in Captures : cliStep[c] # "idle"
  /\ \/ named /\ byTab # Nothing /\ StopGoes(k, "requesting", byTab)
     \/ ~named /\ \E c \in byId : byId = {c} /\ StopGoes(k, "requesting", c)
     \/ ~named /\ (\E c, d \in byId : c # d) /\ StopGoes(k, "over", Nothing)
     \/ (IF named THEN byTab = Nothing ELSE byId = {}) /\ StopGoes(k, "recovering", Nothing)
  /\ UNCHANGED <<recordCliVars, link, startStep, byTab, byId, tape, partings, swallowed>>

\* recoverState: the document knows, if the worker does not.  The stop fails with the
\* indicator.
StopRecovers(k) ==
  /\ stopStep[k].step = "recovering"
  /\ \/ \E c \in Held :
          /\ startStep[c] # "sent"
          /\ byTab' = c /\ byId' = byId \cup {c}
          /\ \E step \in {"requesting", "over"} :
               StopGoes(k, step, IF step = "over" THEN Nothing ELSE c)
     \/ Held = {} /\ StopGoes(k, "over", Nothing) /\ UNCHANGED <<byTab, byId>>
  /\ UNCHANGED <<recordCliVars, link, startStep, tape, partings, swallowed>>

StopRequests(k) ==
  LET c == stopStep[k].of IN
  /\ stopStep[k].step = "requesting"
  /\ StopGoes(k, "over", Nothing)
  /\ IF c \in Held THEN StopsTape(c, "complete") ELSE UNCHANGED tape
  /\ UNCHANGED <<recordCliVars, link, startStep, byTab, byId, partings, swallowed>>

-----------------------------------------------------------------------------
(* Partings *)

\* Ctrl-C before anything was heard, a timeout, or the end of its process.
CliLeaves(c) ==
  /\ cliStep[c] \in {"asked", "started"}
  /\ partings < MaxPartings /\ partings' = partings + 1
  /\ cliStep' = [cliStep EXCEPT ![c] = "failed"]
  /\ UNCHANGED <<adopted, received, artifact, mixed, link, recorderVars, tape, swallowed>>

LinkDies ==
  /\ link = "open" /\ link' = "dead"
  /\ partings < MaxPartings /\ partings' = partings + 1
  /\ UNCHANGED <<recordCliVars, recorderVars, tape, swallowed>>

\* The server fails what it waits for; CLIs that have their answer are told nothing.
Parts ==
  /\ IF link = "dead" THEN UNCHANGED partings
     ELSE partings < MaxPartings /\ partings' = partings + 1
  /\ link' = "closed"
  /\ cliStep' = [c \in Captures |-> IF cliStep[c] = "asked" THEN "failed" ELSE cliStep[c]]
  /\ UNCHANGED <<adopted, received, artifact, mixed, swallowed>>

SocketLost == link # "closed" /\ Parts /\ UNCHANGED <<recorderVars, tape>>

StartsForgotten == startStep' = [c \in Captures |-> IF startStep[c] = "idle" THEN "idle" ELSE "over"]
StopsForgotten(steps) ==
  stopStep' = [k \in RecordStops |->
    IF stopStep[k].step \in steps THEN [step |-> "over", of |-> Nothing] ELSE stopStep[k]]

RecordingWorkerEnds ==
  /\ Parts
  /\ byTab' = Nothing /\ byId' = {}
  /\ StartsForgotten /\ StopsForgotten({"recovering", "requesting"})
  /\ UNCHANGED tape

\* disposeBridgeWindowResources: the recorder aborts what it knows of.  What it has
\* begun goes on without a record of it: a start that finds the tab free may still tell
\* the document to record.
RecorderDisposed ==
  /\ Parts
  /\ byTab' = Nothing /\ byId' = {}
  /\ StartsForgotten /\ StopsForgotten({"recovering"})
  /\ \E late \in SUBSET {c \in Captures : startStep[c] = "asked" /\ byTab = Nothing} :
       tape' = [c \in Captures |->
         IF c \in late THEN [tape[c] EXCEPT !.phase = "asked"]
         ELSE IF c \in byId \cap Held THEN [tape[c] EXCEPT !.phase = "stopping", !.state = "partial"]
         ELSE tape[c]]

SocketReturns ==
  /\ link = "closed" /\ link' = "open"
  /\ UNCHANGED <<recordCliVars, recorderVars, tape, partings, swallowed>>

-----------------------------------------------------------------------------

StartSteps(c) == StartSends(c) \/ StartAnswered(c) \/ \E shown \in BOOLEAN : StartEnds(c, shown)
TapeSteps(c) == DocumentStarts(c) \/ RecorderEnds(c) \/ Completes(c) \/ CompletesAgain(c)

RecordingNext ==
  \/ \E c \in Captures :
       RecordAsks(c) \/ StartSteps(c) \/ TapeSteps(c) \/ ChunkRecorded(c) \/ ChunkSent(c) \/ CliLeaves(c)
  \/ \E k \in RecordStops :
       StopRecovers(k) \/ StopRequests(k) \/ \E named \in BOOLEAN : StopAsked(k, named)
  \/ LinkDies \/ SocketLost \/ RecordingWorkerEnds \/ RecorderDisposed \/ SocketReturns

RecordingSpec == RecordingInit /\ [][RecordingNext]_recordingVars

\* Promises settle, a recording has a longest duration, events are handled or given up,
\* and what is sent arrives.
RecordingFairness ==
  /\ \A c \in Captures :
       /\ WF_recordingVars(StartSteps(c)) /\ WF_recordingVars(TapeSteps(c))
       /\ WF_recordingVars(ChunkSent(c))
  /\ WF_recordingVars(link = "dead" /\ SocketLost)

-----------------------------------------------------------------------------
(* Properties *)

\* A file that is called complete has every chunk of its recording, once and in order,
\* whatever came before the answer of record_start; if nothing parted meanwhile, and
\* the CLI heard of no other recording before its answer.
ArtifactWhole ==
  \A c \in Captures :
    artifact[c] = "complete" /\ c \notin mixed /\ partings = 0 =>
      received[c] = [n \in 1..tape[c].next + tape[c].queued |-> n - 1]

\* The worker refuses a recording of the tab only while there is one whose end it will
\* hear of: what it knows, by tab or by name, the document has.
BlockedWhileRecorded == byId \subseteq Held /\ byTab \in byId \cup {Nothing}

\* A record_start ends: with the summary of its recording or an error, unless the end
\* of the recording was sent into a socket that was gone.
RecordStartEnds ==
  \A c \in Captures :
    (cliStep[c] = "asked") ~> (cliStep[c] \in {"finished", "failed"} \/ c \in swallowed)

\* A CLI whose record_start is not answered waits for a start that goes on, or its socket
\* is gone and that will be noticed; one whose recording has begun waits for an end that is
\* still to come, unless it was sent into a socket that was gone.
StartsAreAnswered ==
  \A c \in Captures :
    /\ cliStep[c] = "asked" => startStep[c] \in {"asked", "sent", "showing"} \/ link = "dead"
    /\ cliStep[c] = "started" => tape[c].phase \in {"recording", "stopping", "completing"} \/ c \in swallowed
=============================================================================
