---------------------------- MODULE PageOperations ----------------------------
(***************************************************************************)
(* Operations on a page that code in the offscreen document asks of the       *)
(* worker, which alone may touch tabs (agent/offscreen-runtime-controller.ts,   *)
(* bridge/agent-runtime-coordinator.ts, bridge/agent-runtime-page-controller.ts).*)
(* An operation belongs to an execution of one session.  It is admitted when    *)
(* the worker knows that execution: it is forwarding the request, or the session's *)
(* snapshot lists it.  An abort of the execution settles its calls in the         *)
(* document at once and sends a cancellation after those the worker may have;    *)
(* that is admitted on the same terms, and may find the worker ended, or starting. *)
(*                                                                         *)
(* One document, whose messages arrive in order.                             *)
(***************************************************************************)
EXTENDS Naturals, Sequences, FiniteSets, SequencesExt

CONSTANTS
  MaxPageExecutions, \* bound: executions of the session
  MaxPageCalls,      \* bound: operations on pages
  MaxPageSnapshots, \* bound: snapshots sent without a reason of this model
  MaxPageEnds       \* bound: ends of the worker

ASSUME PageAssumption == {MaxPageExecutions, MaxPageCalls, MaxPageSnapshots, MaxPageEnds} \subseteq Nat

PageExecutions == 1..MaxPageExecutions
PageCalls == 1..MaxPageCalls

VARIABLES
  execution,    \* in the document: "none", "runs", "stopping", "over"
  pageCall,     \* of each operation: stage, the execution it belongs to
  toWorker,     \* messages from the document that the worker has not taken
  pageWorker,   \* "up", "down", "starting"
  awaiting,      \* messages that wait for ensureInitialized
  forwarding,   \* activeExecutionRequests
  sessionKnown, \* the session is accepted, and the document's hello known
  shown,        \* active executions of the latest snapshot
  released,     \* the session was released
  delegate,     \* of each operation in the worker
  signalled,    \* operations whose AbortController has fired
  pageSnapshots, pageEnds

pageVars == <<execution, pageCall, toWorker, pageWorker, awaiting, forwarding, sessionKnown, shown, released,
              delegate, signalled, pageSnapshots, pageEnds>>
documentSide  == <<execution, pageCall, released, pageSnapshots>>
knowledge     == <<forwarding, sessionKnown, shown>>
operationSide == <<delegate, signalled>>

OperationOf(c)  == [type |-> "operation", call |-> c]
CancelOf(c)     == [type |-> "cancel", call |-> c]
AnswerOf(e)     == [type |-> "answer", execution |-> e]
SnapshotOf(es)  == [type |-> "snapshot", executions |-> es]
ReleasedMessage == [type |-> "released"]
\* Answers to the calls of a worker that initializes; the next one does not hear them.
HelloFor(worker)     == [type |-> "hello", worker |-> worker]
RecoveredFor(worker) == [type |-> "recovered", worker |-> worker]

PageInit ==
  /\ execution = [e \in PageExecutions |-> "none"]
  /\ pageCall = [c \in PageCalls |-> [stage |-> "none", parent |-> 0]]
  /\ toWorker = <<>> /\ awaiting = <<>>
  /\ pageWorker = "up" /\ sessionKnown = TRUE
  /\ forwarding = {} /\ shown = {} /\ released = FALSE
  /\ delegate = [c \in PageCalls |-> "none"] /\ signalled = {}
  /\ pageSnapshots = 0 /\ pageEnds = 0

ActiveNow == {e \in PageExecutions : execution[e] \in {"runs", "stopping"}}
Sends(messages) == toWorker' = toWorker \o messages
OperationsOf(e) == {c \in PageCalls : pageCall[c].parent = e}

-----------------------------------------------------------------------------
(* The document *)

\* A request that the worker forwards for a panel, or sends itself.
ExecutionBegins(e) ==
  /\ pageWorker = "up" /\ sessionKnown /\ ~released
  /\ execution[e] = "none" /\ \A d \in 1..(e - 1) : execution[d] # "none"
  /\ execution' = [execution EXCEPT ![e] = "runs"]
  /\ forwarding' = forwarding \cup {e}
  /\ UNCHANGED <<pageCall, toWorker, pageWorker, awaiting, sessionKnown, shown, released, operationSide, pageSnapshots, pageEnds>>

\* executePageOperation: it is sent a microtask later.
CallMade(c, e) ==
  /\ execution[e] = "runs"
  /\ pageCall[c].stage = "none" /\ \A d \in 1..(c - 1) : pageCall[d].stage # "none"
  /\ pageCall' = [pageCall EXCEPT ![c] = [stage |-> "made", parent |-> e]]
  /\ UNCHANGED <<execution, toWorker, released, pageSnapshots>>

\* Mutant: it is sent though it was settled meanwhile.
CallSentAnyway(c) ==
  /\ pageCall[c].stage \in {"made", "dropped"}
  /\ pageCall' = [pageCall EXCEPT ![c].stage = IF @ = "made" THEN "sent" ELSE "settled"]
  /\ Sends(<<OperationOf(c)>>)
  /\ UNCHANGED <<execution, released, pageSnapshots>>

CallSent(c) ==
  /\ pageCall[c].stage = "made"
  /\ pageCall' = [pageCall EXCEPT ![c].stage = "sent"]
  /\ Sends(<<OperationOf(c)>>)
  /\ UNCHANGED <<execution, released, pageSnapshots>>

\* Abort of the executions `es`: their calls are settled, those that were sent are
\* cancelled.
Stopping(es) == [e \in PageExecutions |-> IF e \in es THEN "stopping" ELSE execution[e]]
Cancelled(es) ==
  [c \in PageCalls |->
    IF pageCall[c].parent \notin es THEN pageCall[c]
    ELSE [pageCall[c] EXCEPT !.stage = CASE @ = "sent" -> "settled" [] @ = "made" -> "dropped" [] OTHER -> @]]
Cancellations(es) ==
  {CancelOf(c) : c \in {d \in PageCalls : pageCall[d].parent \in es /\ pageCall[d].stage = "sent"}}

ExecutionAborted(e) ==
  /\ execution[e] = "runs"
  /\ execution' = Stopping({e})
  /\ pageCall' = Cancelled({e})
  /\ Sends(SetToSeq(Cancellations({e})))
  /\ UNCHANGED <<released, pageSnapshots>>

\* Whatever it left behind goes on.
ExecutionEnds(e) ==
  /\ execution[e] \in {"runs", "stopping"}
  /\ execution' = [execution EXCEPT ![e] = "over"]
  /\ Sends(<<AnswerOf(e)>>)
  /\ UNCHANGED <<pageCall, released, pageSnapshots>>

\* A release by force stops what runs; the answer makes the worker forget the session.
SessionReleased ==
  LET running == {e \in PageExecutions : execution[e] = "runs"} IN
  /\ ~released /\ released' = TRUE
  /\ execution' = Stopping(running)
  /\ pageCall' = Cancelled(running)
  /\ Sends(SetToSeq(Cancellations(running)) \o <<ReleasedMessage>>)
  /\ UNCHANGED pageSnapshots

SnapshotSent ==
  /\ ~released
  /\ pageSnapshots < MaxPageSnapshots /\ pageSnapshots' = pageSnapshots + 1
  /\ Sends(<<SnapshotOf(ActiveNow)>>)
  /\ UNCHANGED <<execution, pageCall, released>>

\* The worker's answer to an operation, or that of Chrome when the worker has ended.
CallAnswered(c) ==
  /\ pageCall[c].stage = "sent" /\ delegate[c] \in {"ended", "lost"}
  /\ pageCall' = [pageCall EXCEPT ![c].stage = "settled"]
  /\ UNCHANGED <<execution, toWorker, released, pageSnapshots>>

DocumentSteps ==
  /\ \/ \E c \in PageCalls, e \in PageExecutions : CallMade(c, e)
     \/ \E c \in PageCalls : CallSent(c) \/ CallAnswered(c)
     \/ \E e \in PageExecutions : ExecutionAborted(e) \/ ExecutionEnds(e)
     \/ SessionReleased \/ SnapshotSent
  /\ UNCHANGED <<pageWorker, awaiting, knowledge, operationSide, pageEnds>>

-----------------------------------------------------------------------------
(* The worker *)

\* pageControlAuthorizationError
Admitted(c) == sessionKnown /\ pageCall[c].parent \in forwarding \cup shown

Acts == {"authorizing", "creating", "acting"}

\* cancel, of the page controller
Signals(c) == signalled' = IF delegate[c] \in Acts THEN signalled \cup {c} ELSE signalled

\* handleAuthorizedPageControl, once initialized; a refusal is an answer.
Controls(message) ==
  LET c == message.call IN
  IF message.type = "operation"
  THEN /\ delegate' = [delegate EXCEPT ![c] = IF Admitted(c) THEN "authorizing" ELSE "ended"]
       /\ UNCHANGED signalled
  ELSE /\ IF Admitted(c) THEN Signals(c) ELSE UNCHANGED signalled
       /\ UNCHANGED delegate

IsControl(message) == message.type \in {"operation", "cancel"}

\* What the worker learns from its own calls and from the streams.
Learns(message) ==
  /\ forwarding' = CASE message.type = "answer" -> forwarding \ {message.execution}
                     [] message.type = "released" -> {}
                     [] OTHER -> forwarding
  /\ sessionKnown' = CASE message.type = "hello" /\ message.worker = pageEnds -> TRUE
                       [] message.type = "released" -> FALSE
                       [] OTHER -> sessionKnown
  /\ shown' = CASE message.type = "snapshot" /\ sessionKnown -> message.executions
                [] message.type = "released" -> {}
                [] OTHER -> shown
  /\ pageWorker' = IF message.type = "recovered" /\ message.worker = pageEnds THEN "up" ELSE pageWorker

\* The continuations of ensureInitialized run before another message is taken.
MessageTaken ==
  /\ pageWorker # "down" /\ (pageWorker = "up" => awaiting = <<>>)
  /\ toWorker # <<>> /\ toWorker' = Tail(toWorker)
  /\ IF ~IsControl(Head(toWorker))
     THEN Learns(Head(toWorker)) /\ UNCHANGED <<awaiting, operationSide>>
     ELSE /\ IF pageWorker = "up" THEN Controls(Head(toWorker)) /\ UNCHANGED awaiting
             ELSE awaiting' = Append(awaiting, Head(toWorker)) /\ UNCHANGED operationSide
          /\ UNCHANGED <<knowledge, pageWorker>>
  /\ UNCHANGED <<documentSide, pageEnds>>

AwaitingHandled ==
  /\ pageWorker = "up" /\ awaiting # <<>>
  /\ awaiting' = Tail(awaiting) /\ Controls(Head(awaiting))
  /\ UNCHANGED <<documentSide, toWorker, pageWorker, knowledge, pageEnds>>

\* Whatever wakes it: it initializes, and recovers the sessions it had accepted.  The
\* document greets it, attaches it with a snapshot, or fails to.
WorkerWakes ==
  /\ pageWorker = "down" /\ pageWorker' = "starting"
  /\ \E greeting \in {<<>>, <<HelloFor(pageEnds)>>, <<HelloFor(pageEnds), SnapshotOf(ActiveNow)>>} :
       Sends((IF released THEN <<>> ELSE greeting) \o <<RecoveredFor(pageEnds)>>)
  /\ UNCHANGED <<documentSide, awaiting, knowledge, operationSide, pageEnds>>

\* All it knew and did is lost; Chrome fails the calls it had taken.
WorkerDies ==
  /\ pageWorker # "down" /\ pageWorker' = "down"
  /\ pageEnds < MaxPageEnds /\ pageEnds' = pageEnds + 1
  /\ forwarding' = {} /\ shown' = {} /\ sessionKnown' = FALSE
  /\ awaiting' = <<>>
  /\ delegate' = [c \in PageCalls |->
       IF delegate[c] \in Acts \/ OperationOf(c) \in ToSet(awaiting)
       THEN "lost" ELSE delegate[c]]
  /\ UNCHANGED <<documentSide, toWorker, signalled>>

\* executeDelegate: authorize, create, execute; the signal is looked at in between.
DelegateGoesOn(c) ==
  /\ delegate[c] \in {"authorizing", "creating"} /\ c \notin signalled
  /\ delegate' = [delegate EXCEPT ![c] = IF @ = "authorizing" THEN "creating" ELSE "acting"]

\* execute: a result, a failure, or what follows its signal.
DelegateEnds(c) == delegate[c] \in Acts /\ delegate' = [delegate EXCEPT ![c] = "ended"]

DelegateSteps(c) ==
  /\ DelegateGoesOn(c) \/ DelegateEnds(c)
  /\ UNCHANGED <<documentSide, toWorker, pageWorker, awaiting, knowledge, signalled, pageEnds>>

PageNext ==
  \/ DocumentSteps
  \/ MessageTaken \/ AwaitingHandled \/ WorkerWakes \/ WorkerDies
  \/ \E e \in PageExecutions : ExecutionBegins(e)
  \/ \E c \in PageCalls : DelegateSteps(c)

PageSpec == PageInit /\ [][PageNext]_pageVars

-----------------------------------------------------------------------------
(* Properties *)

\* What an operation does to a page, somebody wants: its caller waits, or it was told to
\* stop, or is going to be told.  Neither an abort between making and sending a call, nor
\* the end of the worker or of the execution that owns it, leaves one that acts unattended.
ActsForSomebody ==
  \A c \in PageCalls :
    delegate[c] \in Acts /\ c \notin signalled =>
      pageCall[c].stage = "sent" \/ CancelOf(c) \in ToSet(awaiting \o toWorker)
=============================================================================
