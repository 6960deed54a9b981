---------------------------- MODULE RuntimeRoutes ----------------------------
(***************************************************************************)
(* Which session a browser window has: one route of AgentRuntimeCoordinator    *)
(* (extension/src/bridge/agent-runtime-coordinator.ts).  Ports of side panels  *)
(* connect to a session, the worker binds, replaces and releases sessions under *)
(* the route's lock, and a panel releases its own session without that lock.    *)
(*                                                                         *)
(* What a panel and the host say on a connected port is SessionRoute's; here a  *)
(* call to the host is sent, then done or failed, then answered.               *)
(***************************************************************************)
EXTENDS Naturals, Sequences, FiniteSets

CONSTANTS
  RouteSessions, \* sessions the panels and the worker ask for
  RoutePorts,    \* bound: ports a behaviour opens
  NoSession, NoPort,
  MaxJobs,       \* bound: binds, replaces and releases of the worker
  MaxUpdates,    \* bound: writes of the registry
  MaxMishaps     \* bound: new documents, lost calls, ends of the worker

ASSUME RoutesAssumption ==
  /\ NoSession \notin RouteSessions /\ NoPort \notin RoutePorts
  /\ {MaxJobs, MaxUpdates, MaxMishaps} \subseteq Nat

VARIABLES
  worker,    \* "up", "down"
  hosted,    \* sessions the offscreen host has for this route
  accepted,  \* acceptedDescriptors
  latestHello,     \* of latestHellos: "none", "known"
  activePort,    \* activeRoutes
  ports,     \* connections: "unborn", "open", "connected", "closed"; the request in hand
  lease,     \* the lease of the document that is current
  holder,       \* what holds the route's lock
  waiting,    \* what waits for it
  creating,  \* create requests of requestSession in flight
  registry,  \* the descriptor stored, with the number of the last write
  updates,   \* writes of the registry that wait
  asked,     \* number of writes asked for
  jobs, mishaps

portVars  == <<ports, activePort, lease>>
storeVars == <<registry, updates, asked>>
lockVars  == <<holder, waiting, jobs>>
routeVars == <<worker, hosted, accepted, latestHello, portVars, lockVars, creating, storeVars, mishaps>>

Unborn == [state |-> "unborn", session |-> NoSession, lease |-> 0, answer |-> "none", request |-> "none"]
Job(kind, s, p) == [kind |-> kind, session |-> s, port |-> p, step |-> "begin", previous |-> NoPort,
                    old |-> NoSession, write |-> 0]
NoJob == [Job("none", NoSession, NoPort) EXCEPT !.step = "none"]

RouteInit ==
  /\ worker = "up" /\ hosted = {} /\ accepted = NoSession /\ latestHello = "none"
  /\ ports = [p \in RoutePorts |-> Unborn] /\ activePort = NoPort /\ lease = 1
  /\ holder = NoJob /\ waiting = <<>> /\ creating = {}
  /\ registry = NoSession /\ updates = <<>> /\ asked = 0
  /\ jobs = 0 /\ mishaps = 0

Mishap == mishaps < MaxMishaps /\ mishaps' = mishaps + 1

\* closeConnection, of a set of ports.
Shut(ps, gone) ==
  [p \in RoutePorts |-> IF p \in gone THEN [ps[p] EXCEPT !.state = "closed"] ELSE ps[p]]
ActiveWithout(gone) == IF activePort \in gone THEN NoPort ELSE activePort

\* fenceConnection: the port is open and of the current document; or it is closed.
PortOpen(p) == ports[p].state \in {"open", "connected"}
Current(p) == PortOpen(p) /\ ports[p].lease = lease

\* onDescriptorBound, onDescriptorReleased: updateAgentRuntimeRegistry, in order.
Writes(s) == asked < MaxUpdates /\ asked' = asked + 1 /\ updates' = Append(updates, s)
Written(n) == asked - Len(updates) >= n

-----------------------------------------------------------------------------
(* Ports *)

\* acceptPort: of the document whose lease is current.
PortOpens(p) ==
  /\ worker = "up" /\ ports[p] = Unborn
  /\ ports' = [ports EXCEPT ![p] = [Unborn EXCEPT !.state = "open", !.lease = lease]]
  /\ UNCHANGED <<worker, hosted, accepted, latestHello, activePort, lease, lockVars, creating, storeVars, mishaps>>

PortCloses(p) ==
  /\ PortOpen(p)
  /\ ports' = Shut(ports, {p}) /\ activePort' = ActiveWithout({p})
  /\ UNCHANGED <<worker, hosted, accepted, latestHello, lease, lockVars, creating, storeVars, mishaps>>

NewDocument ==
  /\ Mishap /\ lease' = lease + 1
  /\ UNCHANGED <<worker, hosted, accepted, latestHello, ports, activePort, lockVars, creating, storeVars>>

\* connect: the descriptor is the port's, what follows waits for the lock.
PortAsks(p, s) ==
  /\ ports[p].state = "open" /\ ports[p].session = NoSession /\ ports[p].answer = "none"
  /\ IF Current(p)
     THEN /\ ports' = [ports EXCEPT ![p].session = s]
          /\ waiting' = Append(waiting, Job("connect", s, p))
          /\ UNCHANGED activePort
     ELSE /\ ports' = Shut(ports, {p}) /\ activePort' = ActiveWithout({p})
          /\ UNCHANGED waiting
  /\ UNCHANGED <<worker, hosted, accepted, latestHello, lease, holder, jobs, creating, storeVars, mishaps>>

\* forwardRequest: create, load or release of the port's session.
PortRequests(p, request) ==
  /\ ports[p].state = "connected" /\ activePort = p /\ ports[p].request = "none"
  /\ IF Current(p)
     THEN ports' = [ports EXCEPT ![p].request = request] /\ UNCHANGED activePort
     ELSE ports' = Shut(ports, {p}) /\ activePort' = ActiveWithout({p})
  /\ UNCHANGED <<worker, hosted, accepted, latestHello, lease, lockVars, creating, storeVars, mishaps>>

\* The host does what a port asked.
HostServes(p) ==
  /\ ports[p].request \in {"create", "release"}
  /\ LET s == ports[p].session
         creates == ports[p].request = "create"
         ok == creates \/ s \in hosted
     IN  /\ hosted' = IF creates THEN hosted \cup {s} ELSE hosted \ {s}
         /\ ports' = [ports EXCEPT ![p].request = IF ok /\ ~creates THEN "released" ELSE "served"]
  /\ UNCHANGED <<worker, accepted, latestHello, activePort, lease, lockVars, creating, storeVars, mishaps>>

\* forgetAcceptedDescriptor: the route is nobody's, its ports are connected no more.
Forgets(ps, disconnect) ==
  /\ accepted' = NoSession /\ latestHello' = "none" /\ activePort' = NoPort
  /\ ports' = IF disconnect THEN Shut(ps, {q \in RoutePorts : PortOpen(q)})
              ELSE [q \in RoutePorts |-> [ps[q] EXCEPT !.state = IF @ = "connected" THEN "open" ELSE @]]
  /\ Writes(NoSession)

\* Mutant: the answer to a release is acted on whoever is connected now.
PortAnsweredStale(p) ==
  /\ ports[p].request \in {"served", "released"}
  /\ LET ps == [ports EXCEPT ![p].request = "none"]
     IN  IF ports[p].request = "released" /\ accepted = ports[p].session
         THEN accepted' = NoSession /\ latestHello' = "none" /\ activePort' = NoPort /\ ports' = ps /\ Writes(NoSession)
         ELSE ports' = ps /\ UNCHANGED <<activePort, accepted, latestHello, updates, asked>>
  /\ UNCHANGED <<worker, hosted, lease, lockVars, creating, registry, mishaps>>

\* The answer reaches the worker: a release that the port may still report ends
\* the route at once, without the lock.
PortAnswered(p) ==
  /\ ports[p].request \in {"served", "released"}
  /\ LET ps == [ports EXCEPT ![p].request = "none"]
         gone == IF Current(p) THEN {} ELSE {p}
         forgets == Current(p) /\ activePort = p /\ ports[p].request = "released" /\ accepted = ports[p].session
     IN  IF forgets THEN Forgets(ps, FALSE)
         ELSE /\ ports' = Shut(ps, gone) /\ activePort' = ActiveWithout(gone)
              /\ UNCHANGED <<accepted, latestHello, updates, asked>>
  /\ UNCHANGED <<worker, hosted, lease, lockVars, creating, registry, mishaps>>

-----------------------------------------------------------------------------
(* The lock *)

\* bindSession, replaceSession, releaseSession.
Asks(kind, s) ==
  /\ worker = "up" /\ jobs < MaxJobs
  /\ kind = "release" => accepted # NoSession /\ s = accepted
  /\ jobs' = jobs + 1
  /\ waiting' = Append(waiting, Job(kind, s, NoPort))
  /\ UNCHANGED <<worker, hosted, accepted, latestHello, portVars, holder, creating, storeVars, mishaps>>

\* withRouteLock
Takes ==
  /\ holder = NoJob /\ waiting # <<>>
  /\ holder' = Head(waiting) /\ waiting' = Tail(waiting)
  /\ UNCHANGED <<worker, hosted, accepted, latestHello, portVars, jobs, creating, storeVars, mishaps>>

GoesTo(step) == holder' = [holder EXCEPT !.step = step]
Done == holder' = NoJob

\* The port of the job, fenced, when it may go on.
Holds(step) == holder.kind = "connect" /\ holder.step = step
\* A hello of the host may have come before.
HelloMayBe == latestHello' \in {latestHello, "known"}
ConnectFenced(step) ==
  /\ Holds(step) /\ ~Current(holder.port)
  /\ ports' = Shut(ports, {holder.port}) /\ activePort' = ActiveWithout({holder.port})
  /\ IF step = "begin" THEN UNCHANGED latestHello ELSE HelloMayBe
  /\ Done
  /\ UNCHANGED <<worker, hosted, accepted, lease, waiting, jobs, creating, storeVars, mishaps>>

\* Its answers: the port is connected and the one before it closed, or refused.
Connected(ps, previous) ==
  LET gone == {previous} \ {NoPort, holder.port}
  IN  [Shut(ps, gone) EXCEPT ![holder.port] = [@ EXCEPT !.state = "connected", !.answer = "ok"]]
Refused(ps) == [ps EXCEPT ![holder.port] = [@ EXCEPT !.session = NoSession, !.answer = "refused"]]

\* The lock is the port's: another document's port is closed, another session refused.
ConnectBegins ==
  /\ Holds("begin") /\ Current(holder.port)
  /\ LET other == {q \in {activePort} \ {NoPort, holder.port} : ports[q].lease # ports[holder.port].lease}
         previous == ActiveWithout(other)
         ps == Shut(ports, other)
     IN  \/ /\ accepted \notin {NoSession, holder.session}
            /\ ports' = Refused(ps) /\ activePort' = previous /\ Done
         \/ /\ accepted = holder.session /\ latestHello = "known"
            /\ ports' = Connected(ps, previous) /\ activePort' = holder.port /\ Done
         \/ /\ accepted = NoSession \/ (accepted = holder.session /\ latestHello = "none")
            /\ ports' = ps /\ activePort' = holder.port
            /\ holder' = [holder EXCEPT !.step = IF accepted = NoSession THEN "bind" ELSE "greet", !.previous = previous]
  /\ UNCHANGED <<worker, hosted, accepted, latestHello, lease, waiting, jobs, creating, storeVars, mishaps>>

\* restoreActiveRoute
RestoredRoute(p) == IF p # NoPort /\ ports[p].state = "connected" /\ Current(p) THEN p ELSE NoPort

\* The host's hello, then the answer to agent-runtime-connect; or it fails.
ConnectGreeted ==
  /\ Holds("greet") /\ Current(holder.port)
  /\ latestHello' = "known"
  /\ ports' = Connected(ports, holder.previous) /\ Done
  /\ UNCHANGED <<worker, hosted, accepted, activePort, lease, waiting, jobs, creating, storeVars, mishaps>>

\* This call is outside of connect's try: the port is not told.
ConnectThrows ==
  /\ Holds("greet")
  /\ HelloMayBe /\ Done
  /\ UNCHANGED <<worker, hosted, accepted, portVars, waiting, jobs, creating, storeVars, mishaps>>

ConnectPersists ==
  /\ Holds("bind") /\ Current(holder.port)
  /\ latestHello' = "known"
  /\ Writes(holder.session)
  /\ holder' = [holder EXCEPT !.step = "persist", !.write = asked + 1]
  /\ UNCHANGED <<worker, hosted, accepted, portVars, waiting, jobs, creating, registry, mishaps>>

ConnectFails ==
  /\ Holds("bind") /\ Mishap
  /\ ports' = Refused(ports) /\ activePort' = IF activePort = holder.port THEN RestoredRoute(holder.previous) ELSE activePort
  /\ HelloMayBe /\ Done
  /\ UNCHANGED <<worker, hosted, accepted, lease, waiting, jobs, creating, storeVars>>

\* The session is the route's even if its panel was superseded meanwhile.
ConnectAccepts ==
  /\ Holds("persist") /\ Written(holder.write)
  /\ accepted' = holder.session
  /\ LET current == Current(holder.port)
     IN  /\ ports' = IF current THEN Connected(ports, holder.previous) ELSE Shut(ports, {holder.port})
         /\ activePort' = IF current THEN activePort ELSE ActiveWithout({holder.port})
  /\ Done
  /\ UNCHANGED <<worker, hosted, latestHello, lease, waiting, jobs, creating, storeVars, mishaps>>

-----------------------------------------------------------------------------
(* bind, replace, release *)

LockedSession == holder.kind \in {"bind", "replace", "release"}

\* bindSessionLocked begins when there is nothing to release.
JobBegins ==
  /\ LockedSession /\ holder.step = "begin"
  /\ \/ holder.kind # "release" /\ accepted = NoSession /\ GoesTo("bind")
     \/ holder.kind = "replace" /\ accepted \notin {NoSession, holder.session}
        /\ holder' = [holder EXCEPT !.step = IF latestHello = "known" THEN "release" ELSE "hello", !.old = accepted]
     \/ holder.kind = "release" /\ accepted # NoSession
        /\ holder' = [holder EXCEPT !.step = IF latestHello = "known" THEN "release" ELSE "hello", !.old = accepted]
     \/ /\ \/ holder.kind = "bind" /\ accepted # NoSession
           \/ holder.kind = "replace" /\ accepted = holder.session
           \/ holder.kind = "release" /\ accepted = NoSession
        /\ Done
  /\ UNCHANGED <<worker, hosted, accepted, latestHello, portVars, waiting, jobs, creating, storeVars, mishaps>>

\* ensureReleaseHello
JobGreets ==
  /\ holder.step = "hello"
  /\ latestHello' = IF accepted # NoSession \/ activePort # NoPort THEN "known" ELSE "none"
  /\ IF latestHello' = "known" THEN GoesTo("release") ELSE Done
  /\ UNCHANGED <<worker, hosted, accepted, portVars, waiting, jobs, creating, storeVars, mishaps>>

\* The host removes the session, or has none to remove and says so.
HostReleases ==
  /\ holder.step = "release"
  /\ hosted' = hosted \ {holder.old}
  /\ IF holder.old \in hosted THEN GoesTo("released") ELSE Done
  /\ UNCHANGED <<worker, accepted, latestHello, portVars, waiting, jobs, creating, storeVars, mishaps>>

\* releaseSessionLocked ends: what is still the route's is forgotten and its ports closed.
JobForgets ==
  /\ holder.step = "released"
  /\ IF accepted = holder.old THEN Forgets(ports, TRUE)
     ELSE UNCHANGED <<accepted, latestHello, activePort, ports, updates, asked>>
  /\ holder' = [holder EXCEPT !.step = "forgotten", !.write = IF accepted = holder.old THEN asked + 1 ELSE 0]
  /\ UNCHANGED <<worker, hosted, lease, waiting, jobs, creating, registry, mishaps>>

JobRebinds ==
  /\ holder.step = "forgotten" /\ Written(holder.write)
  /\ IF holder.kind = "replace" THEN GoesTo("bind") ELSE Done
  /\ UNCHANGED <<worker, hosted, accepted, latestHello, portVars, waiting, jobs, creating, storeVars, mishaps>>

JobPersists ==
  /\ LockedSession /\ holder.step = "bind"
  /\ Writes(holder.session)
  /\ holder' = [holder EXCEPT !.step = "persist", !.write = asked + 1]
  /\ UNCHANGED <<worker, hosted, accepted, latestHello, portVars, waiting, jobs, creating, registry, mishaps>>

JobAccepts ==
  /\ LockedSession /\ holder.step = "persist" /\ Written(holder.write)
  /\ accepted' = holder.session
  /\ GoesTo("greet")
  /\ UNCHANGED <<worker, hosted, latestHello, portVars, waiting, jobs, creating, storeVars, mishaps>>

JobBound ==
  /\ LockedSession /\ holder.step = "greet"
  /\ latestHello' = "known" /\ Done
  /\ UNCHANGED <<worker, hosted, accepted, portVars, waiting, jobs, creating, storeVars, mishaps>>

\* Mutant: what a failed bind stored stays stored.
JobFailsStored ==
  /\ LockedSession /\ holder.step \in {"hello", "release", "greet"} /\ Mishap
  /\ accepted' = IF holder.step = "greet" THEN NoSession ELSE accepted
  /\ Done
  /\ UNCHANGED <<worker, hosted, latestHello, portVars, waiting, jobs, creating, storeVars>>

JobFails ==
  /\ LockedSession /\ holder.step \in {"hello", "release", "greet"} /\ Mishap
  /\ IF holder.step = "greet" THEN accepted' = NoSession /\ Writes(NoSession)
     ELSE UNCHANGED <<accepted, updates, asked>>
  /\ Done
  /\ UNCHANGED <<worker, hosted, latestHello, portVars, waiting, jobs, creating, registry>>

-----------------------------------------------------------------------------
(* requestSession, the registry, the worker *)

Creates(s) ==
  /\ worker = "up" /\ accepted = s /\ latestHello = "known" /\ s \notin creating \cup hosted
  /\ creating' = creating \cup {s}
  /\ UNCHANGED <<worker, hosted, accepted, latestHello, portVars, lockVars, storeVars, mishaps>>

HostCreates(s) ==
  /\ s \in creating
  /\ creating' = creating \ {s} /\ hosted' = hosted \cup {s}
  /\ UNCHANGED <<worker, accepted, latestHello, portVars, lockVars, storeVars, mishaps>>

RegistryWrites ==
  /\ updates # <<>>
  /\ registry' = Head(updates) /\ updates' = Tail(updates)
  /\ UNCHANGED <<worker, hosted, accepted, latestHello, portVars, lockVars, creating, asked, mishaps>>

\* The worker ends with all it had in memory; of its writes, the first may be done.
WorkerStops ==
  /\ worker = "up" /\ Mishap
  /\ worker' = "down"
  /\ accepted' = NoSession /\ latestHello' = "none" /\ activePort' = NoPort
  /\ ports' = [p \in RoutePorts |-> IF ports[p] = Unborn THEN Unborn
                                    ELSE [Unborn EXCEPT !.state = "closed"]]
  /\ holder' = NoJob /\ waiting' = <<>> /\ creating' = {}
  /\ registry' \in {registry} \cup (IF updates = <<>> THEN {} ELSE {Head(updates)})
  /\ updates' = <<>>
  /\ UNCHANGED <<hosted, lease, jobs, asked>>

\* ensureInitialized: what was accepted is again; the host is asked to load it.
WorkerStarts(recovered) ==
  /\ worker = "down"
  /\ worker' = "up"
  /\ accepted' = registry
  /\ latestHello' = IF recovered /\ registry # NoSession THEN "known" ELSE "none"
  /\ hosted' = IF recovered THEN hosted \cup ({registry} \ {NoSession}) ELSE hosted
  /\ UNCHANGED <<portVars, lockVars, creating, storeVars, mishaps>>

RouteNext ==
  \/ \E p \in RoutePorts :
       \/ PortOpens(p) \/ PortCloses(p) \/ HostServes(p) \/ PortAnswered(p)
       \/ \E s \in RouteSessions : PortAsks(p, s)
       \/ \E request \in {"create", "release"} : PortRequests(p, request)
  \/ NewDocument
  \/ \E kind \in {"bind", "replace", "release"}, s \in RouteSessions : Asks(kind, s)
  \/ Takes
  \/ \E step \in {"begin", "greet", "bind"} : ConnectFenced(step)
  \/ ConnectBegins \/ ConnectGreeted \/ ConnectThrows \/ ConnectPersists \/ ConnectFails \/ ConnectAccepts
  \/ JobBegins \/ JobGreets \/ HostReleases \/ JobForgets \/ JobRebinds
  \/ JobPersists \/ JobAccepts \/ JobBound \/ JobFails
  \/ \E s \in RouteSessions : Creates(s) \/ HostCreates(s)
  \/ RegistryWrites \/ WorkerStops
  \/ \E recovered \in BOOLEAN : WorkerStarts(recovered)

RouteSpec == RouteInit /\ [][RouteNext]_routeVars

-----------------------------------------------------------------------------

\* A port that is connected speaks for the session the window has, and it is the
\* route's only port: whoever released, replaced or superseded what, and when.
ConnectedIsOwned ==
  \A p \in RoutePorts : ports[p].state = "connected" => accepted = ports[p].session /\ activePort = p

\* replaceSession is one transition: between the release of the old session and the
\* bind of the new one nobody, a stale side panel least, gets the route.
ReplaceKeepsRoute == holder.kind = "replace" /\ holder.step \in {"forgotten", "bind", "persist"} => accepted = NoSession

\* What is stored is what is accepted once the writes are done, so that a worker that
\* restarts brings back the session the window has and none it has not.
RegistryIsAccepted ==
  worker = "up" /\ updates = <<>> /\ holder.step # "persist" => registry = accepted

=============================================================================
