--------------------------- MODULE PageScreencast ---------------------------
(***************************************************************************)
(* The recordings of a page driver (driver/src/page-screencast-engine.ts).    *)
(* A recording starts in three commands to Chrome and ends in two; stop,      *)
(* abort, dispose, a full buffer and the close of the transport may come      *)
(* between any two of them.  A recording that is still starting is ended only *)
(* by its own start, after the command it awaits.                            *)
(*                                                                         *)
(* The driver's lifetime holds the debugger, so acquire settles at once.      *)
(***************************************************************************)
EXTENDS Naturals

CONSTANTS
  MaxRecordings,   \* bound: recordings begun
  MaxFrames        \* maxSourceBytes, in frames

ASSUME ScreencastAssumption == MaxRecordings \in Nat \ {0} /\ MaxFrames \in Nat \ {0}

Reasons == {"user", "abort", "error", "max-bytes", "max-duration", "target-closed"}

VARIABLES
  cast,         \* the current recording, NoCast if there is none
  castCount,    \* recordings begun
  castEngine,   \* disposed, transportClosed, transport (what Chrome has)
  casting,      \* the recording Chrome sends frames of, 0 if none
  castHolder,   \* the recording whose owner holds the debugger, 0 if none
  castAck,      \* the recording whose frame waits for its acknowledgement, 0 if none
  castDone      \* of each finished recording, its summary

castVars == <<cast, castCount, castEngine, casting, castHolder, castAck, castDone>>

NoCast == [id |-> 0, phase |-> "none", step |-> "none", acquired |-> FALSE, started |-> FALSE,
           closed |-> FALSE, reason |-> "none", aborted |-> FALSE, frames |-> 0]

CastInit ==
  /\ cast = NoCast /\ castCount = 0
  /\ castEngine = [disposed |-> FALSE, transportClosed |-> FALSE, transport |-> TRUE]
  /\ casting = 0 /\ castHolder = 0 /\ castAck = 0
  /\ castDone = [n \in 1..MaxRecordings |-> "none"]

\* requestStop of recording r: what is left of it.
StopRequested(r, reason, finishStarting) ==
  LET why == IF r.reason = "none" THEN reason ELSE r.reason IN
  IF r.phase \notin {"starting", "active"} THEN r
  ELSE IF r.phase = "starting" /\ ~finishStarting THEN [r EXCEPT !.reason = why]
  ELSE [r EXCEPT !.reason = why, !.phase = "stopping", !.step = "stopping"]

\* assertStartupCanContinue
MayContinue ==
  /\ ~cast.closed /\ ~castEngine.transportClosed
  /\ ~cast.aborted /\ ~castEngine.disposed
  /\ cast.reason = "none"

FailReason == IF cast.closed THEN "target-closed" ELSE IF cast.aborted THEN "abort" ELSE "error"

\* Mutant: a start that has its answer goes on, asked to stop or not.
CastContinuesAnyway(r, next, failed) ==
  cast' = IF ~failed THEN next ELSE StopRequested(r, FailReason, TRUE)

\* A step of start: r is what the command it awaited left; on it goes, or it stops.
CastContinues(r, next, failed) ==
  cast' = IF ~failed /\ MayContinue THEN next
          ELSE StopRequested(r, FailReason, TRUE)

-----------------------------------------------------------------------------

CastStart ==
  /\ ~castEngine.disposed /\ ~castEngine.transportClosed /\ cast = NoCast
  /\ castCount < MaxRecordings
  /\ castCount' = castCount + 1
  /\ cast' = [NoCast EXCEPT !.id = castCount + 1, !.phase = "starting", !.step = "acquire"]
  /\ UNCHANGED <<castEngine, casting, castHolder, castAck, castDone>>

\* Mutant: the acquisition counts once the start is known to go on.
CastAcquiredLate ==
  /\ cast.step = "acquire"
  /\ LET held == castEngine.transport
         r == [cast EXCEPT !.acquired = held /\ MayContinue]
     IN /\ castHolder' = IF held THEN cast.id ELSE castHolder
        /\ CastContinues(r, [r EXCEPT !.step = "ensure"], ~held)
  /\ UNCHANGED <<castCount, castEngine, casting, castAck, castDone>>

CastAcquired ==
  /\ cast.step = "acquire"
  /\ LET held == castEngine.transport
         r == [cast EXCEPT !.acquired = held]
     IN /\ castHolder' = IF held THEN cast.id ELSE castHolder
        /\ CastContinues(r, [r EXCEPT !.step = "ensure"], ~held)
  /\ UNCHANGED <<castCount, castEngine, casting, castAck, castDone>>

PageEnabled ==
  /\ cast.step = "ensure"
  /\ CastContinues(cast, [cast EXCEPT !.step = "begin"], ~castEngine.transport)
  /\ UNCHANGED <<castCount, castEngine, casting, castHolder, castAck, castDone>>

\* Page.startScreencast answers, or fails.
CastBegun ==
  /\ cast.step = "begin"
  /\ \E begun \in (IF castEngine.transport THEN BOOLEAN ELSE {FALSE}) :
       LET r == [cast EXCEPT !.started = begun] IN
       /\ casting' = IF begun THEN cast.id ELSE casting
       /\ CastContinues(r, [r EXCEPT !.phase = "active", !.step = "none"], ~begun)
  /\ UNCHANGED <<castCount, castEngine, castHolder, castAck, castDone>>

\* stop, its duration's timer, the abort of its signal.
CastStop ==
  /\ cast # NoCast
  /\ \E reason \in {"user", "max-duration", "abort"} :
       /\ reason = "max-duration" => cast.phase = "active"
       /\ reason = "abort" => cast.phase \in {"starting", "active"} /\ ~cast.aborted
       /\ cast' = IF reason # "abort" THEN StopRequested(cast, reason, FALSE)
                  ELSE LET r == [cast EXCEPT !.aborted = TRUE, !.reason = "abort"] IN
                       IF cast.phase = "starting" THEN r ELSE StopRequested(r, "abort", FALSE)
  /\ UNCHANGED <<castCount, castEngine, casting, castHolder, castAck, castDone>>

CastDispose ==
  /\ ~castEngine.disposed
  /\ castEngine' = [castEngine EXCEPT !.disposed = TRUE]
  /\ cast' = IF cast = NoCast THEN cast ELSE StopRequested(cast, "abort", FALSE)
  /\ UNCHANGED <<castCount, casting, castHolder, castAck, castDone>>

\* The transport closes: the debugger is gone, and a recording that still listens is told.
CastTransportCloses ==
  LET told == cast.phase \in {"starting", "active"}
      r == [cast EXCEPT !.closed = TRUE]
  IN
  /\ castEngine.transport
  /\ castEngine' = [castEngine EXCEPT !.transport = FALSE, !.transportClosed = @ \/ told]
  /\ casting' = 0 /\ castHolder' = 0
  /\ cast' = IF ~told THEN cast
             ELSE IF cast.phase = "starting" THEN [r EXCEPT !.reason = "target-closed"]
             ELSE StopRequested(r, "target-closed", FALSE)
  /\ UNCHANGED <<castCount, castAck, castDone>>

AcceptsFrames == cast.phase \in {"starting", "active"}

\* A frame comes; it is acknowledged before it counts.
CastFrame ==
  /\ casting # 0 /\ casting = cast.id /\ AcceptsFrames /\ castAck = 0
  /\ castAck' = cast.id
  /\ UNCHANGED <<cast, castCount, castEngine, casting, castHolder, castDone>>

\* emitFrame, and the end of a recording that is full.
Counted ==
  LET more == [cast EXCEPT !.frames = @ + 1] IN
  IF more.frames >= MaxFrames THEN StopRequested(more, "max-bytes", FALSE) ELSE more

CastAcked ==
  /\ castAck # 0
  /\ castAck' = 0
  /\ cast' = IF castAck # cast.id THEN cast
             ELSE IF ~castEngine.transport THEN StopRequested(cast, "error", FALSE)
             ELSE IF AcceptsFrames THEN Counted ELSE cast
  /\ UNCHANGED <<castCount, castEngine, casting, castHolder, castDone>>

\* captureSeedFrameIfNeeded: a page that does not change is sent no frame, so one is taken.
CastSeed ==
  /\ cast.phase = "active" /\ cast.frames = 0 /\ castEngine.transport
  /\ cast' = Counted
  /\ UNCHANGED <<castCount, castEngine, casting, castHolder, castAck, castDone>>

\* finishState: Page.stopScreencast, then release, then the summary.
CastEnded ==
  /\ cast.step = "stopping"
  /\ LET tells == cast.started /\ ~cast.closed IN
     casting' = IF tells /\ castEngine.transport THEN 0 ELSE casting
  /\ cast' = [cast EXCEPT !.step = "releasing"]
  /\ UNCHANGED <<castCount, castEngine, castHolder, castAck, castDone>>

CastFinished ==
  /\ cast.step = "releasing"
  /\ castHolder' = IF cast.acquired /\ ~cast.closed /\ castHolder = cast.id THEN 0 ELSE castHolder
  /\ castDone' = [castDone EXCEPT ![cast.id] = cast.reason]
  /\ cast' = NoCast
  /\ UNCHANGED <<castCount, castEngine, casting, castAck>>

-----------------------------------------------------------------------------

CastProgress ==
  CastAcquired \/ PageEnabled \/ CastBegun \/ CastEnded \/ CastFinished

CastNext ==
  \/ CastProgress
  \/ CastStart \/ CastStop \/ CastDispose \/ CastTransportCloses \/ CastFrame \/ CastAcked \/ CastSeed

CastSpec == CastInit /\ [][CastNext]_castVars
\* Chrome answers its commands.
CastFairness == WF_castVars(CastProgress)

-----------------------------------------------------------------------------
(* Properties *)

\* A recording that is over has ended in Chrome what it began: no frames are sent
\* for it and its owner holds no debugger.
OverHoldsNothing ==
  \A n \in 1..castCount : castDone[n] # "none" => casting # n /\ castHolder # n

\* A recording that was asked to end, and every recording of a disposed engine, does
\* end: its completion settles, whichever command of its start or end it awaits.
StopSettles == (cast.reason # "none" \/ castEngine.disposed) ~> cast = NoCast

\* A recording that was asked to end, or whose engine is disposed, is not active: a command
\* of its start or of its end is under way, and goes on to its end.
StopsAreUnderWay == cast.reason # "none" \/ castEngine.disposed => cast = NoCast \/ cast.step # "none"
=============================================================================
