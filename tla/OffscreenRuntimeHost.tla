------------------------ MODULE OffscreenRuntimeHost ------------------------
(***************************************************************************)
(* The offscreen runtime host of the browser extension                     *)
(* (packages/extension/src/agent/offscreen-runtime-host.ts) together with   *)
(* its request ledger (agent/runtime-channel.ts): the one place where agent *)
(* sessions live, and where every request of a side panel or of the         *)
(* background worker is admitted, serialised, aborted, answered, remembered *)
(* for replay and forgotten.                                                *)
(*                                                                         *)
(* The model follows ONE session key (client, window, session id).  Ledgers, *)
(* session records and acquisition turns are kept per key by the code, so    *)
(* keys do not interact except through the shared replay window.  A session *)
(* key may be acquired, released and acquired again: each acquisition makes *)
(* a new session RECORD, and a request keeps working on the record it       *)
(* captured.  Records are numbered in the order of their publication.       *)
(*                                                                         *)
(* One action is the code between two awaits.  Adapters, the session        *)
(* factory and the tool delegates settle at any time, with either outcome.  *)
(* Stream envelopes (sequence numbers, snapshots) and message contents are  *)
(* left out; request and execution ids are unique (clients mint UUIDs).     *)
(***************************************************************************)
EXTENDS Naturals, Sequences, Functions

CONSTANTS
  Requests,        \* request envelopes; a retry is the same envelope again
  Kind,            \* [Requests -> Kinds]: the operation of each envelope
  TargetOf,        \* [Requests -> Requests]: what an abort envelope aborts
  Expected,        \* [Requests -> Nat]: expectedRevision of a "replace"
  Events,          \* agent events the adapter may announce
  MaxCompleted,    \* maxCompletedRequests, the replay window
  MaxInputs,       \* bound: requests accepted plus events announced
  None             \* no request

Executions == {"prompt", "task"}          \* prompt; repl-execute, page-operation
Kinds == Executions \cup
         {"mutate",                       \* set-model, set-thinking, steer, artifact put/delete
          "replace",                      \* replace-or-append-message
          "read",                         \* attach, resync
          "load", "create", "release", "force-release", "abort"}

ASSUME KindAssumption == Kind \in [Requests -> Kinds]
ASSUME TargetAssumption == TargetOf \in [Requests -> Requests]
ASSUME ExpectedAssumption == Expected \in [Requests -> Nat]
ASSUME NoneAssumption == None \notin Requests
ASSUME JobAssumption == Events \cap Requests = {}
ASSUME WindowAssumption == MaxCompleted \in Nat \ {0}
ASSUME BoundAssumption == MaxInputs \in Nat

Records == 1..MaxInputs
Jobs == Requests \cup Events

VARIABLES
  \* the request ledger and the processing of each request
  ledger,      \* status in RuntimeRequestLedger; "absent" when not retained
  pc,          \* where the processing of the request awaits; "idle" when it has none
  rec,         \* the session record the request captured, 0 before
  aborted,     \* requests whose AbortController has fired
  verdict,     \* what ledger.cancel found for an abort
  waitFor,     \* the mutations an `await session.mutationTail` still waits for
  answer,      \* the response the request settled with
  completed,   \* completedRequestKeys: settled requests kept for replay, oldest first
  \* the session records
  published,   \* the record in host.sessions, 0 when there is none
  born,        \* number of records published so far
  prompt,      \* activePromptExecutionId of each record
  active,      \* activeExecutions of each record
  tail,        \* pending mutations of each record; the head runs
  rev,         \* revision of each record
  live,        \* records whose adapter is not disposed
  acquiring,   \* acquisition turns of the session key; the head holds the turn
  \* the host
  disposal,    \* "no", "draining" (dispose awaits acquisitions) or "done"
  inputs       \* requests accepted and events announced so far

ledgerVars  == <<ledger, answer, completed>>
flowVars    == <<pc, rec, waitFor>>
abortVars   == <<aborted, verdict>>
recordVars  == <<prompt, active, tail, rev>>
sessionVars == <<published, born, live, acquiring>>
hostVars    == <<disposal, inputs>>
vars == <<ledgerVars, flowVars, abortVars, recordVars, sessionVars, hostVars>>

Statuses == {"absent", "queued", "running", "cancel-requested",
             "succeeded", "failed", "cancelled"}
Terminal == {"succeeded", "failed", "cancelled"}
Verdicts == {"none", "not-found", "identity-mismatch", "cancelled-before-start",
             "cancel-requested", "already-cancel-requested", "already-terminal"}
Answers == Verdicts \cup {"ok", "ABORTED", "SESSION_BUSY", "SESSION_NOT_FOUND",
             "SESSION_EXISTS", "REVISION_CONFLICT", "FAILED", "HOST_DISPOSED",
             "EXECUTION_NOT_FOUND"}
\* Where a prompt that owns its session can be.
PromptPcs == {"preparing", "prompting", "queued", "applying",
              "commit-queued", "returned"}
Pcs == {"idle", "accepted", "reading", "acquiring", "opening", "working",
        "releasing", "removing", "cancelling", "aborting"} \cup PromptPcs

IsExecution(r) == Kind[r] \in Executions
InFlight(r) == pc[r] # "idle"

Init ==
  /\ ledger = [r \in Requests |-> "absent"]
  /\ pc = [r \in Requests |-> "idle"]
  /\ rec = [r \in Requests |-> 0]
  /\ aborted = {}
  /\ verdict = [r \in Requests |-> "none"]
  /\ waitFor = [r \in Requests |-> {}]
  /\ answer = [r \in Requests |-> "none"]
  /\ completed = <<>>
  /\ published = 0
  /\ born = 0
  /\ prompt = [k \in Records |-> None]
  /\ active = [k \in Records |-> {}]
  /\ tail = [k \in Records |-> <<>>]
  /\ rev = [k \in Records |-> 0]
  /\ live = {}
  /\ acquiring = <<>>
  /\ disposal = "no"
  /\ inputs = 0

-----------------------------------------------------------------------------
(* Settling a request. *)

\* ledger.markTerminal: a terminal status is never overwritten.
MarkTerminal(r, status) ==
  IF IsExecution(r) /\ ledger[r] \notin Terminal
  THEN [ledger EXCEPT ![r] = status] ELSE ledger

\* Mutant: the oldest request leaves the replay window but not the ledger.
SettleKeepingLedger(r, response, marked) ==
  /\ pc' = [pc EXCEPT ![r] = "idle"]
  /\ answer' = [answer EXCEPT ![r] = response]
  /\ completed' = IF Len(completed) < MaxCompleted THEN Append(completed, r)
                                                   ELSE Append(Tail(completed), r)
  /\ ledger' = marked

\* The response settles: it is cached and the request joins the replay window;
\* the oldest request of a full window is forgotten, ledger entry included.  A
\* disposed host caches nothing.  `marked` is the ledger the operation leaves.
Settle(r, response, marked) ==
  /\ pc' = [pc EXCEPT ![r] = "idle"]
  /\ answer' = [answer EXCEPT ![r] = response]
  /\ IF disposal # "no"
     THEN completed' = completed /\ ledger' = marked
     ELSE IF Len(completed) < MaxCompleted
          THEN completed' = Append(completed, r) /\ ledger' = marked
          ELSE /\ completed' = Append(Tail(completed), r)
               /\ ledger' = [marked EXCEPT ![Head(completed)] = "absent"]

\* failAcceptedRequest.  No request that owns an execution fails on this path.
Fail(r, code) == Settle(r, code, MarkTerminal(r, "failed"))

\* Mutant: aborts and disposal are looked for before the first await only.
InactiveAtStart(r) == pc[r] = "accepted" /\ (r \in aborted \/ disposal # "no")

\* assertRequestActive and assertSessionPublished, in the order they are called.
Inactive(r) == r \in aborted \/ disposal # "no"
Obstacle(r) == IF r \in aborted THEN "ABORTED"
               ELSE IF disposal # "no" THEN "HOST_DISPOSED" ELSE "SESSION_NOT_FOUND"
Unpublished(r) == published = 0 \/ rec[r] # published

\* Mutant: a finished mutation stays at the head of the queue.
KeepTail(k, job) ==
  /\ waitFor' = [w \in Requests |-> waitFor[w] \ {job}]
  /\ UNCHANGED tail

\* Leave the mutation queue: the next mutation may run, and waiters that
\* captured this one no longer wait for it.
LeaveTail(k, job) ==
  /\ tail' = [tail EXCEPT ![k] = Tail(@)]
  /\ waitFor' = [w \in Requests |-> waitFor[w] \ {job}]

JoinTail(k, job) == tail' = [tail EXCEPT ![k] = Append(@, job)]

-----------------------------------------------------------------------------
(* Admission: handle, and the head of processAccepted. *)

\* handle accepts an envelope the ledger does not retain.  (A retained one is
\* answered from the in-flight promise or the cache and changes nothing.)
Handle(r) ==
  /\ Kind[r] # "abort"
  /\ disposal = "no" /\ ledger[r] = "absent" /\ inputs < MaxInputs
  /\ inputs' = inputs + 1
  /\ ledger' = [ledger EXCEPT ![r] = "queued"]
  /\ pc' = [pc EXCEPT ![r] = "accepted"]
  /\ rec' = [rec EXCEPT ![r] = 0]
  /\ aborted' = aborted \ {r}
  /\ answer' = [answer EXCEPT ![r] = "none"]
  /\ UNCHANGED <<verdict, waitFor, completed, recordVars, sessionVars, disposal>>

\* cancelledBeforePreflight: an abort came before processing began.
CancelledBeforePreflight(r) ==
  /\ pc[r] = "accepted" /\ ledger[r] = "cancelled"
  /\ Settle(r, "ABORTED", ledger)
  /\ UNCHANGED <<rec, waitFor, abortVars, recordVars, sessionVars, hostVars>>

\* The request is inactive, or needs a session and there is none.
RefuseAtStart(r) ==
  /\ pc[r] = "accepted" /\ ledger[r] # "cancelled"
  /\ Inactive(r) \/ (Kind[r] \notin {"load", "create"} /\ published = 0)
  /\ Fail(r, Obstacle(r))
  /\ UNCHANGED <<rec, waitFor, abortVars, recordVars, sessionVars, hostVars>>

\* processAccepted reaches the operation of the request with a published session.
Reaches(r, kinds) ==
  /\ pc[r] = "accepted" /\ ledger[r] # "cancelled" /\ ~Inactive(r)
  /\ Kind[r] \in kinds /\ published # 0

-----------------------------------------------------------------------------
(* attach, resync; and the second half of load and create. *)

\* await session.mutationTail: the mutations pending now, not later ones.
AwaitTail(r) ==
  /\ rec' = [rec EXCEPT ![r] = published]
  /\ waitFor' = [waitFor EXCEPT ![r] = Range(tail[published])]

StartRead(r) ==
  /\ Reaches(r, {"read"})
  /\ AwaitTail(r)
  /\ pc' = [pc EXCEPT ![r] = "reading"]
  /\ UNCHANGED <<ledgerVars, abortVars, recordVars, sessionVars, hostVars>>

Read(r) ==
  /\ pc[r] = "reading" /\ waitFor[r] = {}
  /\ IF Inactive(r) \/ Unpublished(r) THEN Fail(r, Obstacle(r))
                                      ELSE Settle(r, "ok", ledger)
  /\ UNCHANGED <<rec, waitFor, abortVars, recordVars, sessionVars, hostVars>>

-----------------------------------------------------------------------------
(* load, create: one acquisition at a time per session key. *)

StartAcquisition(r) ==
  /\ pc[r] = "accepted" /\ ~Inactive(r) /\ Kind[r] \in {"load", "create"}
  /\ acquiring' = Append(acquiring, r)
  /\ pc' = [pc EXCEPT ![r] = "acquiring"]
  /\ UNCHANGED <<ledgerVars, rec, waitFor, abortVars, recordVars,
                 published, born, live, hostVars>>

HasTurn(r) == acquiring # <<>> /\ Head(acquiring) = r

\* The turn finds a session, or the request is inactive, and the turn ends;
\* otherwise the factory is asked for an adapter while the turn is held.
TakeTurn(r) ==
  /\ pc[r] = "acquiring" /\ HasTurn(r)
  /\ \/ /\ Inactive(r) \/ (Kind[r] = "create" /\ published # 0)
        /\ acquiring' = Tail(acquiring)
        /\ Fail(r, IF Inactive(r) THEN Obstacle(r) ELSE "SESSION_EXISTS")
        /\ UNCHANGED <<rec, waitFor>>
     \/ /\ ~Inactive(r) /\ Kind[r] = "load" /\ published # 0
        /\ acquiring' = Tail(acquiring)
        /\ AwaitTail(r)
        /\ pc' = [pc EXCEPT ![r] = "reading"]
        /\ UNCHANGED ledgerVars
     \/ /\ ~Inactive(r) /\ published = 0
        /\ pc' = [pc EXCEPT ![r] = "opening"]
        /\ UNCHANGED <<ledgerVars, rec, waitFor, acquiring>>
  /\ UNCHANGED <<abortVars, recordVars, published, born, live, hostVars>>

\* assertAdapterAcquisitionActive and addSession: the factory's adapter is
\* published as a new record, revision 1 when created and 0 when loaded.  The
\* bound on records never binds: each record took an accepted acquisition.
Publish(r) ==
  /\ pc[r] = "opening" /\ HasTurn(r) /\ ~Inactive(r) /\ born < MaxInputs
  /\ born' = born + 1 /\ published' = born + 1
  /\ live' = live \cup {born + 1}
  /\ rev' = [rev EXCEPT ![born + 1] = IF Kind[r] = "create" THEN 1 ELSE 0]
  /\ rec' = [rec EXCEPT ![r] = born + 1]
  /\ waitFor' = [waitFor EXCEPT ![r] = {}]
  /\ acquiring' = Tail(acquiring)
  /\ pc' = [pc EXCEPT ![r] = "reading"]
  /\ UNCHANGED <<ledgerVars, abortVars, prompt, active, tail, hostVars>>

\* The factory fails, or its adapter arrives too late and is disposed at once.
AcquisitionFails(r) ==
  /\ pc[r] = "opening" /\ HasTurn(r)
  /\ acquiring' = Tail(acquiring)
  /\ Fail(r, IF Inactive(r) THEN Obstacle(r) ELSE "FAILED")
  /\ UNCHANGED <<rec, waitFor, abortVars, recordVars, published, born, live, hostVars>>

-----------------------------------------------------------------------------
(* withSessionMutation: set-model, set-thinking, steer, artifact updates,   *)
(* replace-or-append-message, and the two mutations of a prompt.            *)

\* Mutant: mutations of a session do not wait for one another.
InQueue(r) == r \in Range(tail[rec[r]])

AtHead(r) == /\ tail[rec[r]] # <<>>
             /\ Head(tail[rec[r]]) = r

StartMutation(r) ==
  /\ Reaches(r, {"mutate", "replace"})
  /\ rec' = [rec EXCEPT ![r] = published]
  /\ JoinTail(published, r)
  /\ pc' = [pc EXCEPT ![r] = "queued"]
  /\ UNCHANGED <<ledgerVars, waitFor, abortVars, prompt, active, rev, sessionVars, hostVars>>

RevisionConflict(r) == Kind[r] = "replace" /\ Expected[r] # rev[rec[r]]

\* The turn of the mutation comes: its preconditions are checked now, and the
\* adapter call they guard starts in the same turn.
ApplyMutation(r) ==
  /\ pc[r] = "queued" /\ AtHead(r) /\ Kind[r] # "prompt"
  /\ IF Inactive(r) \/ Unpublished(r) \/ RevisionConflict(r)
     THEN /\ LeaveTail(rec[r], r)
          /\ Fail(r, IF Inactive(r) \/ Unpublished(r) THEN Obstacle(r)
                                                      ELSE "REVISION_CONFLICT")
     ELSE /\ pc' = [pc EXCEPT ![r] = "applying"]
          /\ UNCHANGED <<ledger, answer, completed, tail, waitFor>>
  /\ UNCHANGED <<rec, abortVars, prompt, active, rev, sessionVars, hostVars>>

\* The adapter call settles; only a success in a published record counts.
EndMutation(r) ==
  /\ pc[r] = "applying" /\ AtHead(r) /\ Kind[r] # "prompt"
  /\ LeaveTail(rec[r], r)
  /\ \/ /\ ~Inactive(r) /\ ~Unpublished(r)
        /\ rev' = [rev EXCEPT ![rec[r]] = @ + 1]
        /\ Settle(r, "ok", ledger)
     \/ /\ Fail(r, IF Inactive(r) \/ Unpublished(r) THEN Obstacle(r) ELSE "FAILED")
        /\ UNCHANGED rev
  /\ UNCHANGED <<rec, abortVars, prompt, active, sessionVars, hostVars>>

\* onAgentEvent of the published record's adapter joins the same queue.
AgentEvent(e) ==
  /\ disposal = "no" /\ published # 0 /\ inputs < MaxInputs
  /\ e \notin Range(tail[published])
  /\ inputs' = inputs + 1
  /\ JoinTail(published, e)
  /\ UNCHANGED <<ledgerVars, flowVars, abortVars, prompt, active, rev, sessionVars, disposal>>

\* Its turn comes: the revision advances only if the record is still published.
DeliverEvent(k) ==
  /\ tail[k] # <<>> /\ Head(tail[k]) \in Events
  /\ LeaveTail(k, Head(tail[k]))
  /\ rev' = IF disposal = "no" /\ published = k THEN [rev EXCEPT ![k] = @ + 1] ELSE rev
  /\ UNCHANGED <<ledgerVars, pc, rec, abortVars, prompt, active, sessionVars, hostVars>>

-----------------------------------------------------------------------------
(* executeLongRequest: prompt, repl-execute and page-operation. *)

\* Mutant: the mutation queue is taken for the sign of a busy session.
BusyMutating == tail[published] # <<>>

\* A prompt owns the published session.
Busy == prompt[published] # None

\* A second prompt is refused while one owns the session (rejectExecution).
RejectBusyPrompt(r) ==
  /\ Reaches(r, {"prompt"}) /\ Busy
  /\ Settle(r, "SESSION_BUSY", MarkTerminal(r, "failed"))
  /\ UNCHANGED <<rec, waitFor, abortVars, recordVars, sessionVars, hostVars>>

\* The execution is registered and its work called in one step; a prompt first
\* takes the session and asks promptPreparation for a message.
StartExecution(r) ==
  /\ Reaches(r, Executions)
  /\ Kind[r] = "prompt" => ~Busy
  /\ ledger' = [ledger EXCEPT ![r] = "running"]
  /\ rec' = [rec EXCEPT ![r] = published]
  /\ active' = [active EXCEPT ![published] = @ \cup {r}]
  /\ prompt' = IF Kind[r] = "prompt" THEN [prompt EXCEPT ![published] = r] ELSE prompt
  /\ pc' = [pc EXCEPT ![r] = IF Kind[r] = "prompt" THEN "preparing" ELSE "working"]
  /\ UNCHANGED <<answer, completed, waitFor, abortVars, tail, rev, sessionVars, hostVars>>

\* Mutant: the execution is unregistered, the session stays busy.
UnregisterExecutionOnly(r) ==
  /\ active' = [active EXCEPT ![rec[r]] = @ \ {r}]
  /\ UNCHANGED prompt

\* Both ends of an execution unregister it and give the session back, on the
\* record the execution captured.
Unregister(r) ==
  /\ active' = [active EXCEPT ![rec[r]] = @ \ {r}]
  /\ prompt' = IF prompt[rec[r]] = r THEN [prompt EXCEPT ![rec[r]] = None] ELSE prompt

\* The catch path: cancelled when the controller fired (or the adapter threw an
\* AbortError), failed otherwise.
FailExecution(r) ==
  /\ Unregister(r)
  /\ \E status \in {"cancelled", "failed"} :
        /\ r \in aborted => status = "cancelled"
        /\ Settle(r, IF status = "cancelled" THEN "ABORTED"
                     ELSE IF Inactive(r) \/ Unpublished(r) THEN Obstacle(r) ELSE "FAILED",
                  MarkTerminal(r, status))

\* promptPreparation settles: a message is queued as a mutation, no message goes
\* straight to the adapter, an error ends the prompt.
Prepared(r) ==
  /\ pc[r] = "preparing"
  /\ \/ /\ JoinTail(rec[r], r)
        /\ pc' = [pc EXCEPT ![r] = "queued"]
        /\ UNCHANGED <<ledgerVars, prompt, active>>
     \/ /\ pc' = [pc EXCEPT ![r] = "prompting"]
        /\ UNCHANGED <<ledgerVars, prompt, active, tail>>
     \/ FailExecution(r) /\ UNCHANGED tail
  /\ UNCHANGED <<rec, waitFor, abortVars, rev, sessionVars, hostVars>>

\* The prepared message is applied like any other mutation.
ApplyPreparation(r) ==
  /\ pc[r] = "queued" /\ AtHead(r) /\ Kind[r] = "prompt"
  /\ IF Inactive(r) \/ Unpublished(r)
     THEN LeaveTail(rec[r], r) /\ FailExecution(r)
     ELSE /\ pc' = [pc EXCEPT ![r] = "applying"]
          /\ UNCHANGED <<ledgerVars, waitFor, prompt, active, tail>>
  /\ UNCHANGED <<rec, abortVars, rev, sessionVars, hostVars>>

EndPreparation(r) ==
  /\ pc[r] = "applying" /\ AtHead(r) /\ Kind[r] = "prompt"
  /\ LeaveTail(rec[r], r)
  /\ \/ /\ ~Inactive(r) /\ ~Unpublished(r)
        /\ rev' = [rev EXCEPT ![rec[r]] = @ + 1]
        /\ pc' = [pc EXCEPT ![r] = "prompting"]
        /\ UNCHANGED <<ledgerVars, prompt, active>>
     \/ FailExecution(r) /\ UNCHANGED rev
  /\ UNCHANGED <<rec, abortVars, sessionVars, hostVars>>

\* adapter.prompt settles; a success still has to commit its revision in turn.
Prompted(r) ==
  /\ pc[r] = "prompting"
  /\ \/ /\ JoinTail(rec[r], r)
        /\ pc' = [pc EXCEPT ![r] = "commit-queued"]
        /\ UNCHANGED <<ledgerVars, prompt, active>>
     \/ FailExecution(r) /\ UNCHANGED tail
  /\ UNCHANGED <<rec, waitFor, abortVars, rev, sessionVars, hostVars>>

CommitPrompt(r) ==
  /\ pc[r] = "commit-queued" /\ AtHead(r)
  /\ LeaveTail(rec[r], r)
  /\ IF Inactive(r) \/ Unpublished(r)
     THEN FailExecution(r) /\ UNCHANGED rev
     ELSE /\ rev' = [rev EXCEPT ![rec[r]] = @ + 1]
          /\ pc' = [pc EXCEPT ![r] = "returned"]
          /\ UNCHANGED <<ledgerVars, prompt, active>>
  /\ UNCHANGED <<rec, abortVars, sessionVars, hostVars>>

\* The delegate of a task settles.
TaskReturns(r) ==
  /\ pc[r] = "working" /\ Kind[r] = "task"
  /\ \/ pc' = [pc EXCEPT ![r] = "returned"] /\ UNCHANGED <<ledgerVars, prompt, active>>
     \/ FailExecution(r)
  /\ UNCHANGED <<rec, waitFor, abortVars, tail, rev, sessionVars, hostVars>>

\* The result is back: an abort that arrived meanwhile still wins.
CompleteExecution(r) ==
  /\ pc[r] = "returned"
  /\ IF Inactive(r) \/ Unpublished(r)
     THEN FailExecution(r)
     ELSE Unregister(r) /\ Settle(r, "ok", MarkTerminal(r, "succeeded"))
  /\ UNCHANGED <<rec, waitFor, abortVars, tail, rev, sessionVars, hostVars>>

-----------------------------------------------------------------------------
(* release *)

\* An unforced release of a session that owns executions is refused; otherwise
\* the release waits for the pending mutations.
StartRelease(r) ==
  /\ Reaches(r, {"release", "force-release"})
  /\ IF Kind[r] = "release" /\ active[published] # {}
     THEN Fail(r, "SESSION_BUSY") /\ UNCHANGED <<rec, waitFor>>
     ELSE /\ AwaitTail(r)
          /\ pc' = [pc EXCEPT ![r] = "releasing"]
          /\ UNCHANGED ledgerVars
  /\ UNCHANGED <<abortVars, recordVars, sessionVars, hostVars>>

\* removeSession: unpublish, abort what the record still runs, dispose.
RemoveSession(r) ==
  /\ pc[r] = "releasing" /\ waitFor[r] = {}
  /\ ~Inactive(r) /\ ~Unpublished(r)
  /\ published' = 0
  /\ aborted' = aborted \cup active[rec[r]]
  /\ active' = [active EXCEPT ![rec[r]] = {}]
  /\ live' = live \ {rec[r]}
  /\ pc' = [pc EXCEPT ![r] = "removing"]
  /\ UNCHANGED <<ledgerVars, rec, waitFor, verdict, prompt, tail, rev, born, acquiring, hostVars>>

ReleaseFails(r) ==
  /\ pc[r] = "releasing" /\ waitFor[r] = {}
  /\ Inactive(r) \/ Unpublished(r)
  /\ Fail(r, Obstacle(r))
  /\ UNCHANGED <<rec, waitFor, abortVars, recordVars, sessionVars, hostVars>>

\* The disposal of the adapter settles, whatever its outcome.
Released(r) ==
  /\ pc[r] = "removing"
  /\ Settle(r, "ok", ledger)
  /\ UNCHANGED <<rec, waitFor, abortVars, recordVars, sessionVars, hostVars>>

-----------------------------------------------------------------------------
(* abort *)

\* What ledger.cancel finds, before it changes anything.
CancelVerdict(t) ==
  CASE ledger[t] = "absent"           -> "not-found"
    [] ~IsExecution(t) /\ ledger[t] # "absent" -> "identity-mismatch"
    [] IsExecution(t) /\ ledger[t] = "queued"  -> "cancelled-before-start"
    [] IsExecution(t) /\ ledger[t] = "running" -> "cancel-requested"
    [] IsExecution(t) /\ ledger[t] = "cancel-requested" -> "already-cancel-requested"
    [] OTHER                          -> "already-terminal"

\* The target as the abort leaves it in the ledger.
CancelStatus(t) ==
  CASE CancelVerdict(t) = "cancelled-before-start" -> "cancelled"
    [] CancelVerdict(t) = "cancel-requested" -> "cancel-requested"
    [] OTHER -> ledger[t]

\* The published session runs the execution of t.
RunsNow(t) == published # 0 /\ t \in active[published]

\* handleAbort up to its first await: the ledger decides, and a running
\* execution is signalled at once.
HandleAbort(a) ==
  LET t == TargetOf[a]
      found == CancelVerdict(t)
  IN
  /\ Kind[a] = "abort"
  /\ disposal = "no" /\ ledger[a] = "absent" /\ inputs < MaxInputs
  /\ inputs' = inputs + 1
  /\ verdict' = [verdict EXCEPT ![a] = found]
  /\ ledger' = [ledger EXCEPT ![t] = CancelStatus(t),
                  ![a] = IF found \in {"not-found", "identity-mismatch"}
                         THEN "failed" ELSE "succeeded"]
  /\ aborted' = IF found = "cancel-requested" /\ RunsNow(t)
                THEN aborted \cup {t} ELSE aborted
  /\ pc' = [pc EXCEPT ![a] = "cancelling"]
  /\ answer' = [answer EXCEPT ![a] = "none"]
  /\ UNCHANGED <<completed, rec, waitFor, recordVars, sessionVars, disposal>>

\* processCancellation: a target that settled meanwhile is reported terminal; a
\* target the published session no longer runs is reported missing.
AnswerTo(a) ==
  LET t == TargetOf[a]
  IN CASE verdict[a] \notin {"cancel-requested", "already-cancel-requested"} -> verdict[a]
       [] ledger[t] \in Terminal -> "already-terminal"
       [] ledger[t] \notin Terminal /\ disposal # "no" -> "HOST_DISPOSED"
       [] ledger[t] \notin Terminal /\ disposal = "no" /\ published = 0 -> "SESSION_NOT_FOUND"
       [] ledger[t] \notin Terminal /\ disposal = "no" /\ published # 0 /\ ~RunsNow(t) ->
             "EXECUTION_NOT_FOUND"
       [] OTHER -> verdict[a]

ProcessCancellation(a) ==
  LET t == TargetOf[a]
      promptToStop == AnswerTo(a) = "cancel-requested" /\ Kind[t] = "prompt"
  IN
  /\ pc[a] = "cancelling"
  /\ aborted' = IF AnswerTo(a) = "cancel-requested"
                   \/ (AnswerTo(a) = "cancelled-before-start" /\ InFlight(t) /\ disposal = "no")
                THEN aborted \cup {t} ELSE aborted
  /\ IF promptToStop
     THEN pc' = [pc EXCEPT ![a] = "aborting"] /\ UNCHANGED ledgerVars
     ELSE Settle(a, AnswerTo(a), ledger)
  /\ UNCHANGED <<rec, waitFor, verdict, recordVars, sessionVars, hostVars>>

\* adapter.abort settles.
AbortReturns(a) ==
  /\ pc[a] = "aborting"
  /\ \E response \in {"cancel-requested", "FAILED"} :
        Settle(a, IF response = "FAILED" \/ disposal = "no" THEN response
                  ELSE "HOST_DISPOSED", ledger)
  /\ UNCHANGED <<rec, waitFor, abortVars, recordVars, sessionVars, hostVars>>

-----------------------------------------------------------------------------
(* dispose *)

\* The synchronous part of performDispose.
Dispose ==
  /\ disposal = "no"
  /\ disposal' = "draining"
  /\ aborted' = aborted \cup {r \in Requests : InFlight(r) /\ Kind[r] # "abort"}
                        \cup (IF published = 0 THEN {} ELSE active[published])
  /\ published' = 0
  /\ live' = live \ {published}
  /\ completed' = <<>>
  /\ UNCHANGED <<ledger, answer, flowVars, verdict, recordVars,
                 born, acquiring, inputs>>

\* Acquisition turns have settled: what they still published is disposed too.
FinishDispose ==
  /\ disposal = "draining" /\ acquiring = <<>>
  /\ disposal' = "done"
  /\ aborted' = aborted \cup (IF published = 0 THEN {} ELSE active[published])
  /\ live' = live \ {published}
  /\ published' = 0
  /\ UNCHANGED <<ledgerVars, flowVars, verdict, recordVars, born, acquiring, inputs>>

-----------------------------------------------------------------------------

\* Everything the host does by itself to get request r to its response.
Progress(r) ==
  \/ CancelledBeforePreflight(r) \/ RefuseAtStart(r)
  \/ StartRead(r) \/ Read(r)
  \/ StartAcquisition(r) \/ TakeTurn(r) \/ Publish(r) \/ AcquisitionFails(r)
  \/ StartMutation(r) \/ ApplyMutation(r) \/ EndMutation(r)
  \/ RejectBusyPrompt(r) \/ StartExecution(r)
  \/ Prepared(r) \/ ApplyPreparation(r) \/ EndPreparation(r)
  \/ Prompted(r) \/ CommitPrompt(r) \/ TaskReturns(r) \/ CompleteExecution(r)
  \/ StartRelease(r) \/ RemoveSession(r) \/ ReleaseFails(r) \/ Released(r)
  \/ ProcessCancellation(r) \/ AbortReturns(r)

Next ==
  \/ \E r \in Requests : Handle(r) \/ HandleAbort(r) \/ Progress(r)
  \/ \E e \in Events : AgentEvent(e)
  \/ \E k \in Records : DeliverEvent(k)
  \/ Dispose
  \/ FinishDispose

\* Promises settle and their continuations run; nothing forces a new request,
\* an agent event or the disposal of the host.
Fairness ==
  /\ \A r \in Requests : WF_vars(Progress(r))
  /\ \A k \in Records : WF_vars(DeliverEvent(k))
  /\ WF_vars(FinishDispose)

Spec == Init /\ [][Next]_vars
FairSpec == Spec /\ Fairness

-----------------------------------------------------------------------------
(* Properties *)

\* Every variable has its type.
TypeOK ==
  /\ ledger \in [Requests -> Statuses]
  /\ pc \in [Requests -> Pcs]
  /\ rec \in [Requests -> 0..MaxInputs]
  /\ aborted \subseteq Requests
  /\ verdict \in [Requests -> Verdicts]
  /\ waitFor \in [Requests -> SUBSET Jobs]
  /\ answer \in [Requests -> Answers]
  /\ completed \in Seq(Requests)
  /\ published \in 0..MaxInputs
  /\ born \in 0..MaxInputs
  /\ prompt \in [Records -> Requests \cup {None}]
  /\ active \in [Records -> SUBSET Requests]
  /\ tail \in [Records -> Seq(Jobs)]
  /\ rev \in [Records -> Nat]
  /\ live \subseteq Records
  /\ acquiring \in Seq(Requests)
  /\ disposal \in {"no", "draining", "done"}
  /\ inputs \in 0..MaxInputs

OwnsPrompt(r) == Kind[r] = "prompt" /\ pc[r] \in PromptPcs

\* Two prompts never run on the same session record, whatever interleaving of
\* preparation, adapter, mutation queue, abort, release and disposal occurs.
OnePromptPerSession ==
  \A r, s \in Requests :
     OwnsPrompt(r) /\ OwnsPrompt(s) /\ rec[r] = rec[s] => r = s

\* activePromptExecutionId always names a prompt still in progress on that very
\* record: no path leaves a session busy with nobody to free it.
NoStaleBusyFlag ==
  \A k \in Records :
     prompt[k] # None => OwnsPrompt(prompt[k]) /\ rec[prompt[k]] = k

\* A retry always finds its first attempt, in flight or in the replay window: a
\* retained request has an answer to replay, and eviction never forgets a request
\* that is still being processed.
RetryFindsFirstAttempt ==
  disposal = "no" =>
     \A r \in Requests :
        /\ InFlight(r) => ledger[r] # "absent" /\ r \notin Range(completed)
        /\ ~InFlight(r) /\ ledger[r] # "absent" => r \in Range(completed)

\* Once dispose has begun no session is ever published again, not even by a
\* factory result that was on its way, and no adapter is left undisposed.
ShutdownHoldsNothing ==
  /\ live \subseteq {published}
  /\ disposal # "no" => published = 0

\* replace-or-append-message is a compare-and-swap: when it is answered ok, the
\* revision the caller expected was current until that very step, although the
\* check and the increment are separated by the adapter call.
ReplaceIsCompareAndSwap ==
  [][\A r \in Requests :
        Kind[r] = "replace" /\ pc[r] = "applying" /\ pc'[r] = "idle" /\ answer'[r] = "ok" =>
           /\ rev[rec[r]] = Expected[r]
           /\ rev'[rec[r]] = Expected[r] + 1]_vars

\* An abort acknowledged as requested has signalled an attempt that is still in
\* progress, and an attempt once signalled settles without success, whichever of the
\* adapter, the mutation queue and the abort comes first.  (A retry that comes when the
\* attempt has left the replay window is an attempt of its own, which nobody aborted.)
AcknowledgedAbortWins ==
  [][\A a \in Requests :
        LET t == TargetOf[a] IN
        /\ pc[a] = "cancelling" /\ (pc'[a] = "aborting" \/ answer'[a] = "cancel-requested") =>
             t \in aborted' /\ pc'[t] # "idle"
        /\ IsExecution(a) /\ a \in aborted /\ pc[a] # "idle" /\ pc'[a] = "idle" =>
             answer'[a] # "ok" /\ ledger'[a] # "succeeded"]_vars

\* An unforced release removes a session only when it owns no execution.
UnforcedReleaseSparesWork ==
  [][\A r \in Requests :
        Kind[r] = "release" /\ pc[r] = "releasing" /\ pc'[r] = "removing" =>
           active[rec[r]] = {}]_vars

\* Every accepted request is answered, although mutations, releases and
\* acquisitions wait for one another.
EveryRequestAnswered == \A r \in Requests : InFlight(r) ~> ~InFlight(r)

\* Request r waits for nobody of the host: its next step is its own, or that of a
\* promise of its adapter, its factory or its delegate.
GoesOn(r) ==
  /\ InFlight(r)
  /\ pc[r] \in {"acquiring", "opening"} => HasTurn(r)
  /\ pc[r] \in {"reading", "releasing"} => waitFor[r] = {}
  /\ pc[r] \in {"queued", "applying", "commit-queued"} => AtHead(r)

\* Whoever waits does so for one who goes on: the holder of the turn it waits for, or
\* the mutation or event at the head of the queue it waits in or for.  Turns, mutations,
\* releases and the disposal of the host never wait for one another in a circle, nor for
\* somebody who has left; and what is applied is at the head of its queue, so that no two
\* mutations of a session are applied at once.
NobodyWaitsInVain ==
  /\ \A r \in Requests : InFlight(r) =>
       \/ GoesOn(r)
       \/ pc[r] = "acquiring" /\ acquiring # <<>> /\ GoesOn(Head(acquiring))
       \/ /\ pc[r] \in {"reading", "releasing", "queued", "commit-queued"}
          /\ tail[rec[r]] # <<>>
          /\ Head(tail[rec[r]]) \in Events \/ GoesOn(Head(tail[rec[r]]))
  /\ acquiring # <<>> => GoesOn(Head(acquiring))
=============================================================================
