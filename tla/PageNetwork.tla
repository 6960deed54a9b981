---------------------------- MODULE PageNetwork ----------------------------
(***************************************************************************)
(* The network capture of a page driver (driver/src/page-network-engine.ts): *)
(* its life cycles (CaptureLifecycle, numbered by epoch), each with an owner  *)
(* of its own at the debugger, and the bounded log of requests they fill.     *)
(* start and stop are asynchronous and may be called again before they are    *)
(* done; a response's body is fetched after its request has ended, and may    *)
(* come when the request was evicted, cleared or captured anew.              *)
(***************************************************************************)
EXTENDS Naturals, Sequences, FiniteSets, Functions

CONSTANTS
  NetIds,       \* CDP's request ids, as many as a run sees: finitely many
  MaxEntries,   \* requests kept
  MaxEpochs,    \* bound: life cycles
  MaxRequests   \* bound: requests sent and clears

ASSUME NetworkAssumption ==
  /\ IsFiniteSet(NetIds) /\ MaxEntries \in Nat \ {0}
  /\ {MaxEpochs, MaxRequests} \subseteq Nat

Epochs == 1..MaxEpochs
Sizes == {0, 1}     \* bytes of a body; 0: none, or omitted by the redactor

VARIABLES
  life,          \* of each epoch: phase, acquired, stopRequested, and where its start awaits
  lifecycle,     \* the current one, 0 if there is none
  holders,       \* the epochs whose owners hold the debugger
  starting,      \* startPromise is set
  stopping,      \* stopPromise: the epoch, and whether it has a debugger to release
  waitingStarts, \* starts that wait for stopPromise
  waitingStop,   \* the epoch whose start a stop waits for, 0 if none
  netEngine,     \* disposed, closed (transportClosed); transport: what Chrome has
  requests,      \* of each id: the captured request, its number and the bytes of its bodies
  order,         \* ids, oldest first
  storedBytes,   \* storedBodyBytes
  bodies,        \* Network.getResponseBody under way: epoch, id, number
  made           \* requests sent and clears

lifeVars == <<life, lifecycle, holders, starting, stopping, waitingStarts, waitingStop, netEngine>>
logVars  == <<requests, order, storedBytes, bodies, made>>
netVars  == <<lifeVars, logVars>>

NoRequest == [number |-> 0, sent |-> 0, got |-> 0]
NoStop == [epoch |-> 0, releases |-> FALSE]

NetInit ==
  /\ life = [e \in Epochs |->
       [phase |-> "none", acquired |-> FALSE, stopRequested |-> FALSE, step |-> "none"]]
  /\ lifecycle = 0 /\ holders = {} /\ starting = FALSE /\ stopping = NoStop
  /\ waitingStarts = 0 /\ waitingStop = 0
  /\ netEngine = [disposed |-> FALSE, closed |-> FALSE, transport |-> TRUE]
  /\ requests = [i \in NetIds |-> NoRequest]
  /\ order = <<>> /\ storedBytes = 0 /\ bodies = {} /\ made = 0

IsCurrent(e) == lifecycle = e /\ life[e].phase \in {"starting", "active"}

-----------------------------------------------------------------------------
(* Starting *)

\* The body of start once nothing is being stopped, by `count` starts in a row.
Begin(count) ==
  \E n \in 0..MaxEpochs :
    LET new == (n + 1)..(n + count) IN
    /\ new \subseteq Epochs
    /\ \A e \in Epochs : e <= n <=> life[e].phase # "none"
    /\ life' = [e \in Epochs |->
         IF e \in new THEN [life[e] EXCEPT !.phase = "starting", !.step = "acquire"] ELSE life[e]]
    /\ lifecycle' = n + count
    /\ starting' = TRUE

\* An active capture, or a start that can be joined, leaves nothing to do.
NetStart ==
  /\ ~netEngine.disposed /\ ~netEngine.closed /\ ~starting
  /\ lifecycle # 0 => life[lifecycle].phase # "active"
  /\ IF stopping = NoStop THEN Begin(1) /\ UNCHANGED waitingStarts
     ELSE /\ waitingStarts < 2 /\ waitingStarts' = waitingStarts + 1
          /\ UNCHANGED <<life, lifecycle, starting>>
  /\ UNCHANGED <<holders, stopping, waitingStop, netEngine, logVars>>

\* Mutant: a start does not ask whether it was superseded.
MayGoOnSuperseded(e) == ~life[e].stopRequested /\ ~netEngine.disposed /\ ~netEngine.closed

\* assertStartCanContinue
MayGoOn(e) ==
  ~life[e].stopRequested /\ ~netEngine.disposed /\ ~netEngine.closed /\ lifecycle = e

\* cleanupLifecycle up to its release: what is left of life cycle r.
Cleaned(r, step) == [r EXCEPT !.phase = "inactive", !.acquired = FALSE, !.step = step]
Forget(e) == lifecycle' = IF lifecycle = e THEN 0 ELSE lifecycle

\* A start fails: it releases what its life cycle has acquired.
StartFails(e, r) ==
  /\ life' = [life EXCEPT ![e] = Cleaned(r, IF r.acquired THEN "releasing" ELSE "failing")]
  /\ Forget(e)

NetAcquired(e) ==
  /\ life[e].step = "acquire"
  /\ LET r == [life[e] EXCEPT !.acquired = netEngine.transport] IN
     /\ holders' = IF r.acquired THEN holders \cup {e} ELSE holders
     /\ IF r.acquired /\ MayGoOn(e)
        THEN life' = [life EXCEPT ![e] = [r EXCEPT !.step = "ensure"]] /\ UNCHANGED lifecycle
        ELSE StartFails(e, r)
  /\ UNCHANGED <<starting, stopping, waitingStarts, waitingStop, netEngine, logVars>>

NetEnabled(e) ==
  /\ life[e].step = "ensure"
  /\ IF netEngine.transport /\ MayGoOn(e)
     THEN /\ life' = [life EXCEPT ![e].phase = "active", ![e].step = "none"]
          /\ starting' = FALSE
          /\ UNCHANGED lifecycle
     ELSE StartFails(e, life[e]) /\ UNCHANGED starting
  /\ UNCHANGED <<holders, stopping, waitingStarts, waitingStop, netEngine, logVars>>

NetStartFailed(e) ==
  /\ life[e].step \in {"releasing", "failing"}
  /\ holders' = IF life[e].step = "releasing" THEN holders \ {e} ELSE holders
  /\ life' = [life EXCEPT ![e].step = "none"]
  /\ starting' = FALSE
  /\ UNCHANGED <<lifecycle, stopping, waitingStarts, waitingStop, netEngine, logVars>>

-----------------------------------------------------------------------------
(* Stopping *)

StopCurrent ==
  IF lifecycle = 0 \/ stopping # NoStop THEN UNCHANGED <<life, lifecycle, stopping>>
  ELSE /\ life' = [life EXCEPT ![lifecycle] = Cleaned(@, @.step)]
       /\ lifecycle' = 0
       /\ stopping' = [epoch |-> lifecycle, releases |-> life[lifecycle].acquired]

\* stop, and dispose: a start under way is waited for.
Stop ==
  IF starting /\ lifecycle # 0 /\ life[lifecycle].phase = "starting"
  THEN /\ waitingStop' = lifecycle
       /\ life' = [life EXCEPT ![lifecycle].stopRequested = TRUE]
       /\ UNCHANGED <<lifecycle, stopping>>
  ELSE StopCurrent /\ UNCHANGED waitingStop

NetStop ==
  /\ waitingStop = 0
  /\ Stop
  /\ UNCHANGED <<holders, starting, waitingStarts, netEngine, logVars>>

NetDispose ==
  /\ waitingStop = 0 /\ ~netEngine.disposed
  /\ netEngine' = [netEngine EXCEPT !.disposed = TRUE]
  /\ Stop
  /\ UNCHANGED <<holders, starting, waitingStarts, logVars>>

NetStopResumes ==
  /\ waitingStop # 0 /\ life[waitingStop].step = "none"
  /\ waitingStop' = 0
  /\ StopCurrent
  /\ UNCHANGED <<holders, starting, waitingStarts, netEngine, logVars>>

\* The starts that waited go on at once, none of them looking again.
NetStopped ==
  /\ stopping # NoStop
  /\ holders' = IF stopping.releases THEN holders \ {stopping.epoch} ELSE holders
  /\ stopping' = NoStop
  /\ waitingStarts' = 0
  /\ IF waitingStarts = 0 THEN UNCHANGED <<life, lifecycle, starting>> ELSE Begin(waitingStarts)
  /\ UNCHANGED <<waitingStop, netEngine, logVars>>

\* The transport closes; a life cycle listens from its acquisition to its end.
NetTransportCloses ==
  LET told == lifecycle # 0 /\ life[lifecycle].acquired IN
  /\ netEngine.transport
  /\ netEngine' = [netEngine EXCEPT !.transport = FALSE, !.closed = @ \/ told]
  /\ holders' = {}
  /\ IF told THEN life' = [life EXCEPT ![lifecycle] = Cleaned(@, @.step)] /\ lifecycle' = 0
     ELSE UNCHANGED <<life, lifecycle>>
  /\ UNCHANGED <<starting, stopping, waitingStarts, waitingStop, logVars>>

-----------------------------------------------------------------------------
(* The log *)

\* evictOverflow: at most one request is too many.
Bytes(r) == r.sent + r.got
Logged(reqs, ids, stored) ==
  LET over == Len(ids) > MaxEntries IN
  /\ requests' = IF over THEN [reqs EXCEPT ![Head(ids)] = NoRequest] ELSE reqs
  /\ order' = IF over THEN Tail(ids) ELSE ids
  /\ storedBytes' = stored - (IF over THEN Bytes(reqs[Head(ids)]) ELSE 0)

\* requestWillBeSent: a new request, or the next leg of one that is known.
NetRequest(i) ==
  /\ lifecycle # 0 /\ IsCurrent(lifecycle) /\ lifecycle \in holders
  /\ made < MaxRequests /\ made' = made + 1
  /\ \E size \in Sizes :
       LET known == requests[i] # NoRequest
           r == IF known THEN [requests[i] EXCEPT !.sent = size]
                ELSE [number |-> made + 1, sent |-> size, got |-> 0]
       IN Logged([requests EXCEPT ![i] = r],
                 IF known THEN order ELSE Append(order, i),
                 storedBytes - requests[i].sent + size)
  /\ UNCHANGED <<lifeVars, bodies>>

\* loadingFinished: the body is asked for.
NetFinish(i) ==
  /\ lifecycle # 0 /\ IsCurrent(lifecycle) /\ lifecycle \in holders /\ requests[i] # NoRequest
  /\ bodies' = bodies \cup {[epoch |-> lifecycle, id |-> i, number |-> requests[i].number]}
  /\ UNCHANGED <<lifeVars, requests, order, storedBytes, made>>

\* Mutant: the body goes to whichever request has the id.
NetBodyById(b) ==
  /\ b \in bodies
  /\ bodies' = bodies \ {b}
  /\ IF IsCurrent(b.epoch)
     THEN \E size \in Sizes :
            /\ requests' = [requests EXCEPT ![b.id].got = size]
            /\ storedBytes' = storedBytes - requests[b.id].got + size
     ELSE UNCHANGED <<requests, storedBytes>>
  /\ UNCHANGED <<lifeVars, order, made>>

\* The body comes: it is the request's if that is still the one it was asked for.
NetBody(b) ==
  /\ b \in bodies
  /\ bodies' = bodies \ {b}
  /\ IF IsCurrent(b.epoch) /\ requests[b.id].number = b.number
     THEN \E size \in Sizes :
            /\ requests' = [requests EXCEPT ![b.id].got = size]
            /\ storedBytes' = storedBytes - requests[b.id].got + size
     ELSE UNCHANGED <<requests, storedBytes>>
  /\ UNCHANGED <<lifeVars, order, made>>

NetClear ==
  /\ order # <<>> /\ made < MaxRequests /\ made' = made + 1
  /\ requests' = [i \in NetIds |-> NoRequest]
  /\ order' = <<>> /\ storedBytes' = 0
  /\ UNCHANGED <<lifeVars, bodies>>

-----------------------------------------------------------------------------

NetProgress ==
  \/ \E e \in Epochs : NetAcquired(e) \/ NetEnabled(e) \/ NetStartFailed(e)
  \/ NetStopResumes \/ NetStopped

NetNext ==
  \/ NetProgress
  \/ NetStart \/ NetStop \/ NetDispose \/ NetTransportCloses
  \/ \E i \in NetIds : NetRequest(i) \/ NetFinish(i)
  \/ \E b \in bodies : NetBody(b)
  \/ NetClear

NetSpec == NetInit /\ [][NetNext]_netVars

-----------------------------------------------------------------------------
(* Properties *)

\* Once nothing is under way, the debugger is held by the capture that is active and
\* by nothing else: no start that was stopped or superseded leaves its owner behind.
CaptureHolds ==
  (stopping = NoStop /\ \A e \in Epochs : life[e].step = "none") =>
    holders = IF lifecycle # 0 /\ life[lifecycle].phase = "active" THEN {lifecycle} ELSE {}

\* The bytes counted are the bytes kept, whatever was evicted, cleared or asked for
\* before its request went.
StoredBytesFit ==
  /\ storedBytes = FoldFunction(LAMBDA r, n : Bytes(r) + n, 0, requests)
  /\ Len(order) <= MaxEntries /\ {order[k] : k \in 1..Len(order)} = {i \in NetIds : requests[i] # NoRequest}
=============================================================================
