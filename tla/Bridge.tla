------------------------------- MODULE Bridge -------------------------------
(***************************************************************************)
(* The bridge that carries the commands of CLIs to the windows of the browser:  *)
(*                                                                         *)
(*   BridgeServer, SessionRegistry, PerHandleWriteLock, BridgeRequestHandler   *)
(*                                         server/src/*.ts                 *)
(*   BridgeClient        extension/src/bridge/extension-client.ts             *)
(*                                                                         *)
(* A window's client keeps one socket to the server and opens another when that *)
(* one is gone, which the server may learn later: sockets are numbered, and     *)
(* each has a queue of messages in both directions.  A CLI connects once; what  *)
(* it sends is handled at once.  A recording is named by the record_start that  *)
(* began it, and a window has one tab.                                      *)
(***************************************************************************)
EXTENDS Naturals, Sequences, FiniteSets, SequencesExt

CONSTANTS
  Windows, Clis, Requests,
  Mcp,                \* the caller that stands for every MCP client: it has no socket
  Issuer,             \* of each request, its CLI
  Kind,               \* of each request: "read", "write" (isWriteMethod) or "record" (record_start)
  Wants,              \* of each request, the window of its tabRef
  Expects,            \* of each request, the session it is for (expectedSessionId), or "none"
  WindowSessions,     \* the sessions a window may have
  MaxRequests,        \* bound: requests sent
  MaxSockets,         \* bound: sockets opened by the windows' clients
  MaxUpsets           \* bound: connections lost and changes of session told

ASSUME BridgeAssumption ==
  /\ Mcp \in Clis
  /\ Issuer \in [Requests -> Clis] /\ Wants \in [Requests -> Windows]
  /\ Kind \in [Requests -> {"read", "write", "record"}]
  /\ {MaxRequests, MaxSockets, MaxUpsets} \subseteq Nat
  /\ "none" \notin WindowSessions /\ Expects \in [Requests -> WindowSessions \cup {"none"}]
  /\ "none" \notin Clis \cup Windows /\ {"none", "waiting", "failed"} \cap Requests = {}

Sockets == 1..MaxSockets
None == "none"

VARIABLES
  sock,         \* of each socket: its window, the server's side of it, whether the client's is open
  toServer, toExt,
  \* the server
  handle,       \* SessionRegistry: of each window, its connection, 0 if there is none
  handleOrder,  \* the windows that have one, in the order of the map
  activeKey,
  lock,         \* of each handle, the holder of its write lock
  lockSession,  \* and the session the holder took it for, None if it named none
  outlived,     \* the writes whose lock a change of session released while they were pending
  pending,      \* pendingRequests
  nextRelay,
  leases,       \* activeRecordingLeases
  serverLives,
  \* the CLIs
  cli,          \* "away", "connected" or "gone"
  answer,       \* of each request: None, "waiting", "failed", or the request whose result it got
  \* the windows
  client,       \* BridgeClient.ws, 0 if there is none
  running,      \* commands under way
  recordings,
  changes       \* changes of session told so far

sockVars   == <<sock, toServer, toExt>>
serverVars == <<handle, handleOrder, activeKey, lock, lockSession, outlived, pending, nextRelay, leases, serverLives>>
cliVars    == <<cli, answer>>
windowVars == <<client, running, recordings, changes>>
bridgeVars == <<sockVars, serverVars, cliVars, windowVars>>

BridgeInit ==
  /\ sock = [n \in Sockets |-> [window |-> None, side |-> None, open |-> FALSE]]
  /\ toServer = [n \in Sockets |-> <<>>] /\ toExt = [n \in Sockets |-> <<>>]
  /\ handle = [w \in Windows |-> 0] /\ handleOrder = <<>> /\ activeKey = None
  /\ lock = [w \in Windows |-> None] /\ lockSession = [w \in Windows |-> None] /\ outlived = {}
  /\ pending = {} /\ nextRelay = 1 /\ leases = {} /\ serverLives = 1
  /\ cli = [c \in Clis |-> "away"] /\ answer = [q \in Requests |-> None]
  /\ client = [w \in Windows |-> 0] /\ running = [w \in Windows |-> {}]
  /\ recordings = [w \in Windows |-> {}] /\ changes = 0

IsOpen(n) == n # 0 /\ sock[n].side = "registered"
Lost == {n \in Sockets : sock[n].side # None /\ ~sock[n].open}
Upsets == Cardinality(Lost) + changes
ClientOpen(w) == client[w] # 0 /\ sock[client[w]].open

-----------------------------------------------------------------------------
(* The sockets of the windows *)

\* doConnect: the socket opens and registers; the one before is closed.
ClientConnects(w) ==
  /\ ~ClientOpen(w)
  /\ \E n \in Sockets :
       /\ sock[n].side = None /\ \A k \in Sockets : k < n => sock[k].side # None
       /\ sock' = [sock EXCEPT ![n] = [window |-> w, side |-> "open", open |-> TRUE]]
       /\ toServer' = [toServer EXCEPT ![n] = <<[type |-> "register"]>>]
       /\ client' = [client EXCEPT ![w] = n]
  /\ UNCHANGED <<toExt, serverVars, cliVars, running, recordings, changes>>

\* The client's side closes: disconnect() forgets how to abort the commands under
\* way; a lost connection does not, and may lose what was sent.
ClientCloses(w) ==
  LET n == client[w] IN
  /\ ClientOpen(w) /\ Upsets < MaxUpsets
  /\ sock' = [sock EXCEPT ![n].open = FALSE]
  /\ toExt' = [toExt EXCEPT ![n] = <<>>]
  /\ \E how \in {"disconnect", "delivered", "lost"} :
       /\ toServer' = [toServer EXCEPT ![n] = IF how = "lost" THEN <<>> ELSE @]
       /\ running' = [running EXCEPT ![w] =
         {[r EXCEPT !.abortable = @ /\ how # "disconnect"] : r \in running[w]}]
  /\ UNCHANGED <<serverVars, cliVars, client, recordings, changes>>

-----------------------------------------------------------------------------
(* The registry *)

Place(w) == CHOOSE i \in DOMAIN handleOrder : handleOrder[i] = w
Unlisted(w) ==
  IF \E i \in DOMAIN handleOrder : handleOrder[i] = w THEN RemoveAt(handleOrder, Place(w)) ELSE handleOrder

\* handleRegistration of an extension: a connection of the same window that is
\* still open is unregistered and closed.
HandleRegistration(n) ==
  LET w == sock[n].window
      old == handle[w]
  IN
  /\ sock' = [k \in Sockets |->
       IF k = n THEN [sock[k] EXCEPT !.side = "registered"]
       ELSE IF k = old /\ IsOpen(old) THEN [sock[k] EXCEPT !.side = "closing"] ELSE sock[k]]
  /\ handle' = [handle EXCEPT ![w] = n]
  /\ handleOrder' = IF old # 0 /\ ~IsOpen(old) THEN handleOrder ELSE Append(Unlisted(w), w)
  /\ activeKey' = w
  /\ lock' = [lock EXCEPT ![w] = None] /\ lockSession' = [lockSession EXCEPT ![w] = None]

\* resolve, for a target with the tabRef of a window
Resolve(w) == IF handle[w] # 0 THEN w ELSE activeKey

Fails(q) == answer[q] = "waiting" /\ cli[Issuer[q]] = "connected"

\* The close frame of the client has come.
CloseFrame(n) ==
  /\ sock[n].side \in {"open", "registered"} /\ ~sock[n].open /\ toServer[n] = <<>>
  /\ sock' = [sock EXCEPT ![n].side = "closing"]
  /\ UNCHANGED <<toServer, toExt, serverVars, cliVars, windowVars>>

\* Mutant: what MCP clients wait for is not rejected.
EndedOfClis(w) == {p \in pending : p.window = w /\ Issuer[p.request] # Mcp}

\* What waits for a response of the window that is gone.
Ended(w) == {p \in pending : p.window = w}

\* handleDisconnect of an extension.
ExtensionDisconnected(n) ==
  LET w == sock[n].window
      ended == Ended(w)
  IN
  /\ sock[n].side = "closing" /\ toServer[n] = <<>>
  /\ sock' = [sock EXCEPT ![n].side = "closed"]
  /\ IF handle[w] # n THEN UNCHANGED <<serverVars, answer>>
     ELSE /\ handle' = [handle EXCEPT ![w] = 0]
          /\ handleOrder' = Unlisted(w)
          /\ activeKey' = IF activeKey # w THEN activeKey
                          ELSE IF Unlisted(w) = <<>> THEN None ELSE Last(Unlisted(w))
          /\ lock' = [lock EXCEPT ![w] = None] /\ lockSession' = [lockSession EXCEPT ![w] = None]
          /\ leases' = {l \in leases : l.window # w}
          /\ pending' = pending \ ended
          /\ answer' = [q \in Requests |->
               IF Fails(q) /\ \E p \in ended : p.request = q THEN "failed" ELSE answer[q]]
          /\ UNCHANGED <<outlived, nextRelay, serverLives>>
  /\ UNCHANGED <<toServer, toExt, cli, windowVars>>

-----------------------------------------------------------------------------
(* CLIs *)

\* Mutant: the MCP client does not ask for the lock.
LockedForClis(w, c) == c # Mcp /\ lock[w] \notin {None, c}

\* acquire refuses what is not free and not the CLI's own.
Locked(w, c) == lock[w] \notin {None, c}

\* handleCliRequest, executeMcpBridgeRequest: plan, then forward.

\* Mutant: the number of a request that was settled is used again.
ForwardReusing(q, w) ==
  LET n == handle[w]
      relay == Cardinality(pending) + 1
  IN
  /\ pending' = pending \cup {[relay |-> relay, request |-> q, window |-> w, conn |-> n]}
  /\ nextRelay' = nextRelay + 1
  /\ toExt' = IF sock[n].open
              THEN [toExt EXCEPT ![n] = Append(@,
                     [type |-> "request", relay |-> relay, request |-> q])]
              ELSE toExt
  /\ answer' = [answer EXCEPT ![q] = "waiting"]

Forward(q, w) ==
  LET n == handle[w] IN
  /\ pending' = pending \cup {[relay |-> nextRelay, request |-> q, window |-> w, conn |-> n]}
  /\ nextRelay' = nextRelay + 1
  /\ toExt' = IF sock[n].open
              THEN [toExt EXCEPT ![n] = Append(@,
                     [type |-> "request", relay |-> nextRelay, request |-> q])]
              ELSE toExt
  /\ answer' = [answer EXCEPT ![q] = "waiting"]

Refuse(q) == answer' = [answer EXCEPT ![q] = "failed"] /\ UNCHANGED <<toExt, lock, lockSession, pending, nextRelay>>

\* A CLI connects to send its request.
CliRequest(q) ==
  LET c == Issuer[q]
      w == Resolve(Wants[q])
  IN
  /\ cli[c] # "gone" /\ answer[q] = None
  /\ Cardinality({r \in Requests : answer[r] # None}) < MaxRequests
  /\ cli' = [cli EXCEPT ![c] = "connected"]
  /\ IF w = None \/ (w # None /\ ~IsOpen(handle[w])) THEN Refuse(q)
     ELSE IF Kind[q] # "write" THEN Forward(q, w) /\ UNCHANGED <<lock, lockSession>>
     ELSE IF Locked(w, c) THEN Refuse(q)
     ELSE /\ lock' = [lock EXCEPT ![w] = c] /\ lockSession' = [lockSession EXCEPT ![w] = Expects[q]]
          /\ Forward(q, w)
  /\ UNCHANGED <<sock, toServer, handle, handleOrder, activeKey, outlived, leases, serverLives, windowVars>>

\* Mutant: the leases are forgotten before their stops are sent.
StopsToNobody(c, n) == <<>>

\* What the server sends for a CLI that is gone: a stop for each of its leases,
\* an abort for each request, to the window's connection or else the active one.
StopsTo(c, n) ==
  SetToSeq({[type |-> "stop"] : l \in {l \in leases : l.cli = c /\ handle[l.window] = n}})
AbortsTo(c, n) ==
  SetToSeq({[type |-> "abort", relay |-> p.relay] :
    p \in {p \in pending : Issuer[p.request] = c /\ Resolve(p.window) # None
                           /\ handle[Resolve(p.window)] = n}})

\* handleDisconnect of a CLI: it closed, timed out or crashed.
CliDisconnects(c) ==
  /\ cli[c] = "connected" /\ c # Mcp
  /\ cli' = [cli EXCEPT ![c] = "gone"]
  /\ lock' = [w \in Windows |-> IF lock[w] = c THEN None ELSE lock[w]]
  /\ lockSession' = [w \in Windows |-> IF lock[w] = c THEN None ELSE lockSession[w]]
  /\ leases' = {l \in leases : l.cli # c}
  /\ pending' = {p \in pending : Issuer[p.request] # c}
  /\ nextRelay' = nextRelay + Cardinality({l \in leases : l.cli = c /\ IsOpen(handle[l.window])})
  /\ toExt' = [n \in Sockets |->
       IF IsOpen(n) /\ sock[n].open THEN toExt[n] \o StopsTo(c, n) \o AbortsTo(c, n) ELSE toExt[n]]
  /\ UNCHANGED <<sock, toServer, handle, handleOrder, activeKey, outlived, serverLives, answer, windowVars>>

-----------------------------------------------------------------------------
(* Messages of the extension *)

\* handleExtensionResponse, from whatever connection it comes; a result of another
\* method does not pass the validation.
HandleResponse(m) ==
  LET known == {p \in pending : p.relay = m.relay} IN
  IF known = {} THEN UNCHANGED <<pending, leases, answer>>
  ELSE \E p \in known :
    LET valid == m.ok /\ Kind[m.request] = Kind[p.request] IN
    /\ pending' = pending \ {p}
    /\ leases' = IF valid /\ Kind[p.request] = "record"
                 THEN leases \cup {[recording |-> m.request, cli |-> Issuer[p.request], window |-> p.window]}
                 ELSE leases
    /\ answer' = [answer EXCEPT ![p.request] = IF valid THEN m.request ELSE "failed"]

\* handleExtensionEvent: the last chunk of a recording.
HandleFinal(w, n, q) ==
  leases' = IF handle[w] # n THEN leases ELSE {l \in leases : l.recording # q}

\* handleExtensionEvent: session_changed.  releaseForSessionChange frees the lock of a holder
\* that named another session; nobody ends what that holder has under way.
HandleSessionChanged(w, n, session) ==
  IF handle[w] = n /\ lock[w] # None /\ lockSession[w] \notin {None, session}
  THEN /\ lock' = [lock EXCEPT ![w] = None] /\ lockSession' = [lockSession EXCEPT ![w] = None]
       /\ outlived' = outlived \cup
            {q \in Requests : /\ Kind[q] = "write" /\ Issuer[q] = lock[w]
                              /\ \E p \in pending : p.request = q /\ p.window = w}
  ELSE UNCHANGED <<lock, lockSession, outlived>>

ServerReceives(n) ==
  LET m == Head(toServer[n])
      w == sock[n].window
  IN
  /\ sock[n].side \in {"open", "registered", "closing"} /\ toServer[n] # <<>>
  /\ toServer' = [toServer EXCEPT ![n] = Tail(@)]
  /\ CASE m.type = "register" -> HandleRegistration(n) /\ UNCHANGED <<outlived, pending, leases, answer>>
       [] m.type = "response" -> HandleResponse(m)
            /\ UNCHANGED <<sock, handle, handleOrder, activeKey, lock, lockSession, outlived>>
       [] m.type = "final" -> HandleFinal(w, n, m.recording)
            /\ UNCHANGED <<sock, handle, handleOrder, activeKey, lock, lockSession, outlived, pending, answer>>
       [] m.type = "changed" -> HandleSessionChanged(w, n, m.session)
            /\ UNCHANGED <<sock, handle, handleOrder, activeKey, pending, leases, answer>>
  /\ UNCHANGED <<toExt, nextRelay, serverLives, cli, windowVars>>

-----------------------------------------------------------------------------
(* The windows *)

\* sendResponse, sendEvent: on the socket of the moment, or not at all.
Sent(w, messages) ==
  toServer' = IF ClientOpen(w)
              THEN [toServer EXCEPT ![client[w]] = @ \o messages] ELSE toServer

Response(r, ok) == [type |-> "response", relay |-> r.relay, request |-> r.request, ok |-> ok]
Finals(w) == SetToSeq({[type |-> "final", recording |-> q] : q \in recordings[w]})

\* handleMessage: a request runs, but for a write whose session (expectedSessionId) is
\* no longer the window's; an abort reaches the last command of its id that can be
\* aborted; a stop ends the tab's recording.
Runs(w, n, m) ==
  \/ /\ running' = [running EXCEPT ![w] = @ \cup
          {[relay |-> m.relay, request |-> m.request, conn |-> n,
            aborted |-> FALSE, abortable |-> TRUE, begun |-> FALSE]}]
     /\ UNCHANGED toServer
  \/ Kind[m.request] = "write" /\ Sent(w, <<Response(m, FALSE)>>) /\ UNCHANGED running

Aborts(w, m) ==
  running' = [running EXCEPT ![w] =
    {IF r.relay = m.relay /\ r.abortable THEN [r EXCEPT !.aborted = TRUE] ELSE r : r \in running[w]}]

WindowReceives(w) ==
  LET n == client[w]
      m == Head(toExt[n])
  IN
  /\ ClientOpen(w) /\ toExt[n] # <<>>
  /\ toExt' = [toExt EXCEPT ![n] = Tail(@)]
  /\ CASE m.type = "request" -> Runs(w, n, m) /\ UNCHANGED recordings
       [] m.type = "abort" -> Aborts(w, m) /\ UNCHANGED <<recordings, toServer>>
       [] m.type = "stop" -> Sent(w, Finals(w)) /\ recordings' = [recordings EXCEPT ![w] = {}]
                             /\ UNCHANGED running
  /\ UNCHANGED <<sock, serverVars, cliVars, client, changes>>

\* A recording begins before its record_start is answered; tab capture does not look
\* at the signal.
RecordingBegins(w) ==
  \E r \in running[w] :
    /\ Kind[r.request] = "record" /\ ~r.begun /\ recordings[w] = {}
    /\ recordings' = [recordings EXCEPT ![w] = {r.request}]
    /\ running' = [running EXCEPT ![w] = (@ \ {r}) \cup {[r EXCEPT !.begun = TRUE]}]
    /\ UNCHANGED <<sockVars, serverVars, cliVars, client, changes>>

\* Its duration or the tab's end, or somebody stops it.
RecordingEnds(w) ==
  /\ recordings[w] # {}
  /\ recordings' = [recordings EXCEPT ![w] = {}]
  /\ Sent(w, Finals(w))
  /\ UNCHANGED <<sock, toExt, serverVars, cliVars, client, running, changes>>

\* The window has another session and tells the server, as the protocol has it.
SessionChanges(w) ==
  /\ Upsets < MaxUpsets /\ ClientOpen(w)
  /\ changes' = changes + 1
  /\ \E s \in WindowSessions : Sent(w, <<[type |-> "changed", session |-> s]>>)
  /\ UNCHANGED <<sock, toExt, serverVars, cliVars, client, running, recordings>>

\* A command is over: aborted, or refused because the tab is recorded already, or done.
CommandEnds(w) ==
  \E r \in running[w] :
    LET record == Kind[r.request] = "record" IN
    /\ record => r.begun \/ recordings[w] # {}
    /\ running' = [running EXCEPT ![w] = @ \ {r}]
    /\ Sent(w, <<Response(r, IF record THEN r.begun ELSE ~r.aborted)>>)
    /\ UNCHANGED <<sock, toExt, serverVars, cliVars, client, recordings, changes>>

\* The server ends and another begins: it knows nothing, and counts from 1.
ServerRestarts ==
  /\ Upsets < MaxUpsets /\ \E w \in Windows : ClientOpen(w)
  /\ serverLives' = serverLives + 1
  /\ sock' = [n \in Sockets |-> IF sock[n].side = None THEN sock[n]
                                ELSE [sock[n] EXCEPT !.side = "closed", !.open = FALSE]]
  /\ toServer' = [n \in Sockets |-> <<>>] /\ toExt' = [n \in Sockets |-> <<>>]
  /\ handle' = [w \in Windows |-> 0] /\ handleOrder' = <<>> /\ activeKey' = None
  /\ lock' = [w \in Windows |-> None] /\ lockSession' = [w \in Windows |-> None]
  /\ pending' = {} /\ nextRelay' = 1 /\ leases' = {}
  /\ cli' = [c \in Clis |-> IF cli[c] = "connected" THEN "gone" ELSE cli[c]]
  /\ UNCHANGED <<outlived, answer, windowVars>>

-----------------------------------------------------------------------------

BridgeProgress ==
  \/ \E n \in Sockets : CloseFrame(n) \/ ExtensionDisconnected(n) \/ ServerReceives(n)
  \/ \E w \in Windows : ClientConnects(w) \/ WindowReceives(w) \/ RecordingBegins(w) \/ CommandEnds(w)

BridgeNext ==
  \/ BridgeProgress
  \/ \E w \in Windows : ClientCloses(w) \/ RecordingEnds(w) \/ SessionChanges(w)
  \/ \E c \in Clis : CliDisconnects(c)
  \/ \E q \in Requests : CliRequest(q)
  \/ ServerRestarts

BridgeSpec == BridgeInit /\ [][BridgeNext]_bridgeVars
\* Sockets deliver, commands end (each has a timeout or an end of its own), clients reconnect.
BridgeFairness == WF_bridgeVars(BridgeProgress)

-----------------------------------------------------------------------------
(* Properties *)

\* A request that is answered with a result got its own, through replaced and lost
\* connections, for as long as the server has not been restarted.
OwnAnswers == \A q \in Requests : answer[q] \in Requests => answer[q] = q
OwnAnswersOneServer == serverLives = 1 => OwnAnswers

\* Two CLIs never have writes that run in one window, unless one of them was aborted, the
\* window has connected anew between them, or a change of session took the lock of one.
WritersExclude ==
  serverLives = 1 =>
  \A w \in Windows : \A r, s \in running[w] :
    /\ Kind[r.request] = "write" /\ Kind[s.request] = "write" /\ ~r.aborted /\ ~s.aborted
    /\ r.conn = s.conn /\ {r.request, s.request} \cap outlived = {}
    => Issuer[r.request] = Issuer[s.request]

\* Every request the server accepted is answered, or its CLI leaves, or the connection
\* it went out on was replaced by another of its window.
Replaced(q) == \E p \in pending : p.request = q /\ handle[p.window] \notin {0, p.conn}
RequestSettles ==
  \A q \in Requests : (answer[q] = "waiting")
    ~> (answer[q] # "waiting" \/ cli[Issuer[q]] # "connected" \/ Replaced(q))

\* A recording its CLI was told of is stopped when that CLI goes, unless a connection
\* was lost meanwhile.
LeaseStopsRecording ==
  \A q \in Requests :
    (answer[q] = q /\ Kind[q] = "record" /\ cli[Issuer[q]] = "gone")
      ~> ((\A w \in Windows : q \notin recordings[w]) \/ Lost # {})

\* A recording does not outlive its CLI: when that has gone, a stop, an abort or the
\* answer that would make the server send one is on its way, or the command still runs.
NoOrphanRecording ==
  \A w \in Windows : \A q \in recordings[w] :
    (cli[Issuer[q]] = "gone" /\ Lost = {}) =>
      \/ \E k \in DOMAIN toExt[client[w]] : toExt[client[w]][k].type \in {"stop", "abort"}
      \/ \E k \in DOMAIN toServer[client[w]] : toServer[client[w]][k].type = "response"
      \/ \E r \in running[w] : r.request = q

\* Whoever waits for an answer will have one: its question is in the queue of its connection,
\* a command runs for it, or its answer is on its way; or that connection has closed, which
\* fails it once the server notices, or was replaced.
InQueue(n, relay) == \E i \in DOMAIN toExt[n] : toExt[n][i].type = "request" /\ toExt[n][i].relay = relay
OnItsWay(w, relay) ==
  \E k \in Sockets : /\ sock[k].window = w /\ sock[k].side \in {"open", "registered", "closing"}
                     /\ \E i \in DOMAIN toServer[k] : toServer[k][i].type = "response" /\ toServer[k][i].relay = relay
Served(p) ==
  \/ handle[p.window] # p.conn
  \/ ~sock[p.conn].open
  \/ InQueue(p.conn, p.relay)
  \/ \E r \in running[p.window] : r.relay = p.relay
  \/ OnItsWay(p.window, p.relay)
WaitersAreServed ==
  \A q \in Requests : answer[q] = "waiting" /\ cli[Issuer[q]] = "connected" =>
    \E p \in pending : p.request = q /\ Served(p)

\* A recording its CLI was told of does not outlive that CLI, as long as no connection was
\* lost: the stop that ends it is on its way.
AnsweredRecordingsStop ==
  Lost = {} =>
  \A w \in Windows : \A q \in recordings[w] :
    answer[q] = q /\ cli[Issuer[q]] = "gone" =>
      \E i \in DOMAIN toExt[client[w]] : toExt[client[w]][i].type = "stop"
=============================================================================
