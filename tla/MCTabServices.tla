---------------------------- MODULE MCTabServices ----------------------------
(***************************************************************************)
(* What the extension does to one tab, service by service: a behaviour is one  *)
(* of the debugger, of a recording through it, of a recording of the tab's      *)
(* stream, of a network capture or of a handoff.  The services share no state,   *)
(* so their interleavings would add no case.                                    *)
(***************************************************************************)
EXTENDS TabDebugger, PageScreencast, TabRecording, PageNetwork, Handoff

VARIABLE service

Init ==
  /\ TabInit /\ CastInit /\ RecordingInit /\ NetInit /\ HandInit
  /\ service \in {"debugger", "screencast", "recording", "network", "handoff"}

\* A tool uses the debugger, or the browser detaches it, but not both in one behaviour.
DebuggerSteps ==
  service = "debugger" /\ TabNext /\ tabSpent'.uses + tabSpent'.detaches <= 1
    /\ UNCHANGED <<castVars, recordingVars, netVars, handVars, service>>
ScreencastSteps ==
  service = "screencast" /\ CastNext /\ UNCHANGED <<tabVars, recordingVars, netVars, handVars, service>>
RecordingSteps ==
  service = "recording" /\ RecordingNext /\ UNCHANGED <<tabVars, castVars, netVars, handVars, service>>
NetworkSteps ==
  service = "network" /\ NetNext /\ UNCHANGED <<tabVars, castVars, recordingVars, handVars, service>>
HandoffSteps ==
  service = "handoff" /\ HandNext /\ UNCHANGED <<tabVars, castVars, recordingVars, netVars, service>>

Next == DebuggerSteps \/ ScreencastSteps \/ RecordingSteps \/ NetworkSteps \/ HandoffSteps

\* TabFairness, CastFairness and RecordingFairness, each of a behaviour of its service.
RecordingGoesOn(c) ==
  /\ WF_recordingVars(service = "recording" /\ StartSteps(c))
  /\ WF_recordingVars(service = "recording" /\ TapeSteps(c))
  /\ WF_recordingVars(service = "recording" /\ ChunkSent(c))
GoesOn ==
  /\ WF_tabVars(service = "debugger" /\ TabProgress)
  /\ WF_castVars(service = "screencast" /\ CastProgress)
  /\ \A c \in Captures : RecordingGoesOn(c)
  /\ WF_recordingVars(service = "recording" /\ link = "dead" /\ SocketLost)

LiveSpec ==
  /\ Init /\ [][Next]_<<tabVars, castVars, recordingVars, netVars, handVars, service>>
  /\ GoesOn
=============================================================================
