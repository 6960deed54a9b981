--------------------------- MODULE MCCoordination ---------------------------
(***************************************************************************)
(* Who may use what: the bridge between CLIs and windows, its start, its      *)
(* sessions with a desktop app, and the worker's leases and session locks of    *)
(* side panels.  The five share no state, so a behaviour is one of any of them. *)
(***************************************************************************)
EXTENDS Bridge, BridgeStart, SidepanelAuthority, SessionLocks, ElectronSessions

CONSTANTS cliA, cliB, mcp, q1, q2, q3, w1, x1, x2

\* A recording and a write of two CLIs, and a write of the MCP client.
MCIssuer == [q \in Requests |-> CASE q = q1 -> cliA [] q = q2 -> cliB [] OTHER -> mcp]
MCKind == [q \in Requests |-> IF q = q1 THEN "record" ELSE "write"]
MCWants == [q \in Requests |-> w1]
\* The write of the CLI is for a session of the window, as session_inject is.
MCExpects == [q \in Requests |-> IF q = q2 THEN x1 ELSE None]

VARIABLE subject

Init ==
  /\ BridgeInit /\ StartInit /\ AuthorityInit /\ LocksInit /\ ElectronInit
  /\ subject \in {"bridge", "start", "leases", "locks", "electron"}

BridgeSteps ==
  subject = "bridge" /\ BridgeNext /\ UNCHANGED <<startVars, authorityVars, locksVars, electronVars, subject>>
StartSteps ==
  subject = "start" /\ StartNext /\ UNCHANGED <<bridgeVars, authorityVars, locksVars, electronVars, subject>>
LeaseSteps ==
  subject = "leases" /\ AuthorityNext /\ UNCHANGED <<bridgeVars, startVars, locksVars, electronVars, subject>>
LockSteps ==
  subject = "locks" /\ LocksNext /\ UNCHANGED <<bridgeVars, startVars, authorityVars, electronVars, subject>>
ElectronSteps ==
  subject = "electron" /\ ElectronNext /\ UNCHANGED <<bridgeVars, startVars, authorityVars, locksVars, subject>>

Next == BridgeSteps \/ StartSteps \/ LeaseSteps \/ LockSteps \/ ElectronSteps

\* BridgeFairness, StartFairness and AuthorityFairness, each of a behaviour of its subject.
GoesOn ==
  /\ WF_bridgeVars(subject = "bridge" /\ BridgeProgress)
  /\ WF_startVars(subject = "start" /\ StartProgress)
  /\ WF_authorityVars(subject = "leases" /\ Works)
  /\ WF_authorityVars(subject = "leases" /\ Settles)
  /\ \A w \in Panels : WF_authorityVars(subject = "leases" /\ DocumentAppears(w))
  /\ \A d \in Documents : WF_authorityVars(subject = "leases" /\ DocumentSteps(d))

LiveSpec ==
  /\ Init /\ [][Next]_<<bridgeVars, startVars, authorityVars, locksVars, electronVars, subject>>
  /\ GoesOn
=============================================================================
