---------------------------- MODULE TabDebugger ----------------------------
(***************************************************************************)
(* Who holds Chrome's debugger on one tab, and what a page driver knows of   *)
(* the tab's document while it does:                                        *)
(*                                                                         *)
(*   DebuggerManager          extension/src/tools/helpers/debugger-manager.ts *)
(*   ChromeDebuggerSession    driver/src/cdp-session.ts                      *)
(*   CdpPageDriver, refs      driver/src/page-driver.ts, page-ref-engine.ts  *)
(*   ChromePageDriverRegistry extension/src/bridge/chrome-page-driver-registry.ts *)
(*                                                                         *)
(* The manager's record of a tab (TabDebuggerState) is an object that callers *)
(* capture before they wait for their turn: records are numbered, and a      *)
(* record that was deleted may still be in use.  A user of the debugger is a  *)
(* driver, for its lifetime, the one evaluation under way, or a tool that      *)
(* asks the manager itself (device presets, waits, performance, screenshots).  *)
(* Chrome fails the commands of a tab before it announces that the tab's       *)
(* debugger is gone.                                                         *)
(***************************************************************************)
EXTENDS Naturals, Sequences

CONSTANTS
  MaxDrivers,       \* bound: page drivers made for the tab
  MaxEvaluations,   \* bound: snapshots taken
  MaxNavigations,   \* bound: navigations of the tab
  MaxDetaches,      \* bound: detaches by the browser or its user
  MaxTools,         \* bound: tools at a time
  MaxToolUses       \* bound: uses of the debugger by a tool

ASSUME TabBoundsAssumption ==
  {MaxDrivers, MaxEvaluations, MaxNavigations, MaxDetaches, MaxTools, MaxToolUses} \subseteq Nat

Drivers == 1..MaxDrivers
Op == 0                          \* the evaluation (evaluateRaw)
Tools == (MaxDrivers + 1)..(MaxDrivers + MaxTools)
Users == 0..(MaxDrivers + MaxTools)
TabRecords == 1..(MaxDrivers + MaxEvaluations + MaxToolUses + MaxDetaches + 1)
\* The drivers of a tab have one name (lifetimeOwner).
Owner(u) == IF u \in Drivers THEN 1 ELSE u
NoRef == [driver |-> 0, generation |-> 0, document |-> 0]

VARIABLES
  \* Chrome
  attached, pageEnabled,   \* the debugger is attached, its Page domain enabled
  document,                \* the tab's document, by number of navigations
  \* DebuggerManager
  table,                   \* tabStates: the tab's record, 0 if there is none
  records,                 \* records made so far
  refCount, owners,        \* of each record
  serial,                  \* of each record, whoever waits for its turn
  enabled,                 \* of each record: enabledDomains has Page
  turn, record,            \* of each user: where it awaits, the record it captured
  \* ChromeDebuggerSession
  depth,                   \* acquisitionDepth
  tracking,                \* the record that holds its listeners, 0 if not installed
  generation,              \* navigationGeneration
  \* drivers and registry
  driver,                  \* of each driver: phase, lifetime, closed, disposed
  entry,                   \* the registry's driver, 0 if there is none
  watch,                   \* of each driver: the record of the registry's listener
  eval,                    \* the evaluation: driver, generation it started in, document it saw
  ref,                     \* the last snapshot remembered
  tabSpent                 \* evaluations, detaches, uses by tools

chromeVars  == <<attached, pageEnabled, document>>
managerVars == <<table, records, refCount, owners, serial, enabled, turn, record>>
sessionVars == <<depth, tracking, generation>>
driverVars  == <<driver, entry, watch, eval, ref, tabSpent>>
tabVars == <<chromeVars, managerVars, sessionVars, driverVars>>

TabInit ==
  /\ attached = FALSE /\ pageEnabled = FALSE /\ document = 1
  /\ table = 0 /\ records = 0
  /\ refCount = [k \in TabRecords |-> 0]
  /\ owners = [k \in TabRecords |-> {}]
  /\ serial = [k \in TabRecords |-> <<>>]
  /\ enabled = [k \in TabRecords |-> FALSE]
  /\ turn = [u \in Users |-> "idle"]
  /\ record = [u \in Users |-> 0]
  /\ depth = 0 /\ tracking = 0 /\ generation = 0
  /\ driver = [d \in Drivers |->
       [phase |-> "none", lifetime |-> FALSE, closed |-> FALSE, disposed |-> FALSE]]
  /\ entry = 0
  /\ watch = [d \in Drivers |-> 0]
  /\ eval = NoRef /\ ref = NoRef
  /\ tabSpent = [evaluations |-> 0, detaches |-> 0, uses |-> 0]

-----------------------------------------------------------------------------
(* The manager *)

\* getOrCreateState, within the bound of TabRecords.
Current == IF table = 0 THEN records + 1 ELSE table
Looked ==
  /\ Current \in TabRecords
  /\ table' = Current /\ records' = IF table = 0 THEN records + 1 ELSE records

\* runSerialized: the record is looked up before the wait.
Enqueue(u, step) ==
  /\ Looked
  /\ record' = [record EXCEPT ![u] = Current]
  /\ serial' = [serial EXCEPT ![Current] = Append(@, u)]
  /\ turn' = [turn EXCEPT ![u] = step]
  /\ UNCHANGED <<refCount, owners, enabled>>

HasTurn(u, step) ==
  turn[u] = step /\ serial[record[u]] # <<>> /\ Head(serial[record[u]]) = u

\* The turn ends; what user u was waiting for is over.
EndTurn(u) ==
  /\ serial' = [serial EXCEPT ![record[u]] = Tail(@)]
  /\ turn' = [turn EXCEPT ![u] = "idle"]

\* installNavigationTracking: nothing if the session thinks it is installed.
Install == tracking' = IF tracking = 0 THEN Current ELSE tracking

\* ChromeDebuggerSession.release, once the manager is done; a tool has no session.
Shallower(u) ==
  LET left == IF u \in Tools THEN depth ELSE IF depth = 0 THEN 0 ELSE depth - 1 IN
  depth' = left /\ tracking' = IF u \notin Tools /\ left = 0 THEN 0 ELSE tracking

-----------------------------------------------------------------------------
(* Acquiring *)

\* resolve finds no entry and makes one, also while the driver before it still lets
\* go (release does not wait, or is not waited for): the driver's constructor installs the
\* session's listeners and begins to acquire its lifetime, then the registry
\* listens for the detach.
MakeDriver ==
  /\ entry = 0
  /\ \E d \in Drivers :
       /\ driver[d].phase = "none"
       /\ \A e \in Drivers : e < d => driver[e].phase # "none"
       /\ Install
       /\ Enqueue(d, "acquiring")
       /\ driver' = [driver EXCEPT ![d].phase = "acquiring"]
       /\ entry' = d
       /\ watch' = [watch EXCEPT ![d] = Current]
  /\ UNCHANGED <<chromeVars, depth, generation, eval, ref, tabSpent>>

\* What the acquirer does as soon as it holds the debugger.
Continues(u) ==
  IF u \notin Drivers
  THEN turn' = [turn EXCEPT ![u] = IF u = Op THEN "evaluating" ELSE "using"] /\ UNCHANGED driver
  ELSE /\ turn' = [turn EXCEPT ![u] = "idle"]
       /\ driver' = [driver EXCEPT ![u] =
            IF @.closed THEN [@ EXCEPT !.phase = "failed"]
            ELSE [@ EXCEPT !.phase = "enabling", !.lifetime = TRUE]]

\* Mutant: an owner is counted once, whoever holds in its name.
GrantedOnce(u) ==
  LET k == record[u] IN
  /\ refCount' = [refCount EXCEPT ![k] = IF Owner(u) \in owners[k] THEN @ ELSE @ + 1]
  /\ owners' = [owners EXCEPT ![k] = @ \cup {Owner(u)}]
  /\ serial' = [serial EXCEPT ![k] = Tail(@)]
  /\ depth' = IF u \in Tools THEN depth ELSE depth + 1
  /\ Continues(u)
  /\ UNCHANGED <<table, records, enabled, record, tracking, generation, entry, watch, eval, ref, tabSpent>>

Granted(u) ==
  LET k == record[u] IN
  /\ refCount' = [refCount EXCEPT ![k] = @ + 1]
  /\ owners' = [owners EXCEPT ![k] = @ \cup {Owner(u)}]
  /\ serial' = [serial EXCEPT ![k] = Tail(@)]
  /\ depth' = IF u \in Tools THEN depth ELSE depth + 1
  /\ Continues(u)
  /\ UNCHANGED <<table, records, enabled, record, tracking, generation, entry, watch, eval, ref, tabSpent>>

AcquireHeld(u) ==
  /\ HasTurn(u, "acquiring") /\ refCount[record[u]] > 0
  /\ Granted(u)
  /\ UNCHANGED chromeVars

AcquireFirst(u) ==
  /\ HasTurn(u, "acquiring") /\ refCount[record[u]] = 0
  /\ turn' = [turn EXCEPT ![u] = "attaching"]
  /\ UNCHANGED <<chromeVars, table, records, refCount, owners, serial, enabled, record,
                 sessionVars, driverVars>>

Attached(u) ==
  /\ turn[u] = "attaching" /\ ~attached
  /\ attached' = TRUE
  /\ Granted(u)
  /\ UNCHANGED <<pageEnabled, document>>

\* chrome.debugger.attach rejects; resolve releases the entry of a driver whose
\* `ready` rejected, an evaluation or a tool just fails.
AttachFails(u) ==
  /\ turn[u] = "attaching"
  /\ EndTurn(u)
  /\ tracking' = IF u \notin Tools /\ depth = 0 THEN 0 ELSE tracking
  /\ IF u \notin Drivers THEN UNCHANGED <<driver, entry>>
     ELSE /\ driver' = [driver EXCEPT ![u].phase = "failed", ![u].disposed = @ \/ entry = u]
          /\ entry' = IF entry = u THEN 0 ELSE entry
  /\ UNCHANGED <<chromeVars, table, records, refCount, owners, enabled, record,
                 depth, generation, watch, eval, ref, tabSpent>>

\* ensureDomain("Page"), against the record that is the tab's now.
EnsuresPage ==
  /\ enabled[Current] \/ attached
  /\ Looked
  /\ enabled' = [enabled EXCEPT ![Current] = TRUE]
  /\ pageEnabled' = (attached /\ (pageEnabled \/ ~enabled[Current]))

EnablePage(d) ==
  /\ driver[d].phase = "enabling"
  /\ EnsuresPage
  /\ driver' = [driver EXCEPT ![d].phase = IF driver[d].closed THEN "failed" ELSE "ready"]
  /\ UNCHANGED <<attached, document, refCount, owners, serial, turn, record,
                 sessionVars, entry, watch, eval, ref, tabSpent>>

\* ensureDomain rejects: the lifetime goes, then the entry.
EnableFails(d) ==
  /\ driver[d].phase = "enabling"
  /\ ~(table # 0 /\ enabled[table])
  /\ driver' = [driver EXCEPT ![d].phase = "failed", ![d].lifetime = FALSE, ![d].disposed = @ \/ entry = d]
  /\ entry' = IF entry = d THEN 0 ELSE entry
  /\ IF driver[d].lifetime THEN Enqueue(d, "releasing")
     ELSE Looked /\ UNCHANGED <<refCount, owners, serial, enabled, turn, record>>
  /\ UNCHANGED <<chromeVars, sessionVars, watch, eval, ref, tabSpent>>

-----------------------------------------------------------------------------
(* Letting go *)

\* registry.release: explicit cleanup, a tab that moved or closed.
ReleaseEntry ==
  /\ entry # 0
  /\ driver' = [driver EXCEPT ![entry].disposed = TRUE]
  /\ entry' = 0
  /\ UNCHANGED <<chromeVars, managerVars, sessionVars, watch, eval, ref, tabSpent>>

\* dispose goes on when `ready` is settled.
ReleaseLifetime(d) ==
  /\ driver[d].disposed /\ driver[d].lifetime /\ driver[d].phase \in {"ready", "failed"}
  /\ driver' = [driver EXCEPT ![d].lifetime = FALSE]
  /\ Enqueue(d, "releasing")
  /\ UNCHANGED <<chromeVars, sessionVars, entry, watch, eval, ref, tabSpent>>

\* The record knows nothing of the owner and nobody holds it.
ReleaseNothing(u) ==
  /\ HasTurn(u, "releasing")
  /\ Owner(u) \notin owners[record[u]] /\ refCount[record[u]] = 0
  /\ EndTurn(u)
  /\ Shallower(u)
  /\ UNCHANGED <<chromeVars, table, records, refCount, owners, enabled, record, generation,
                 driver, entry, watch, eval, ref, tabSpent>>

\* Mutant: the last holder but one detaches, and the last one does not.
ReleaseHeldKeepsLast(u) ==
  LET k == record[u] IN
  /\ HasTurn(u, "releasing")
  /\ Owner(u) \in owners[k] \/ refCount[k] > 0
  /\ owners' = [owners EXCEPT ![k] = @ \ {Owner(u)}]
  /\ refCount' = [refCount EXCEPT ![k] = IF @ = 0 THEN 0 ELSE @ - 1]
  /\ IF refCount[k] # 2
     THEN EndTurn(u) /\ Shallower(u)
     ELSE turn' = [turn EXCEPT ![u] = "detaching"] /\ UNCHANGED <<serial, depth, tracking>>
  /\ UNCHANGED <<chromeVars, table, records, enabled, record, generation,
                 driver, entry, watch, eval, ref, tabSpent>>

ReleaseHeld(u) ==
  LET k == record[u] IN
  /\ HasTurn(u, "releasing")
  /\ Owner(u) \in owners[k] \/ refCount[k] > 0
  /\ owners' = [owners EXCEPT ![k] = @ \ {Owner(u)}]
  /\ refCount' = [refCount EXCEPT ![k] = IF @ = 0 THEN 0 ELSE @ - 1]
  /\ IF refCount[k] > 1
     THEN EndTurn(u) /\ Shallower(u)
     ELSE turn' = [turn EXCEPT ![u] = "detaching"] /\ UNCHANGED <<serial, depth, tracking>>
  /\ UNCHANGED <<chromeVars, table, records, enabled, record, generation,
                 driver, entry, watch, eval, ref, tabSpent>>

\* chrome.debugger.detach settles: the tab's record goes, whichever it is.
Detached(u) ==
  /\ turn[u] = "detaching"
  /\ attached' = FALSE /\ pageEnabled' = FALSE
  /\ table' = 0
  /\ EndTurn(u)
  /\ Shallower(u)
  /\ UNCHANGED <<document, records, refCount, owners, enabled, record, generation,
                 driver, entry, watch, eval, ref, tabSpent>>

-----------------------------------------------------------------------------
(* Tools *)

\* acquireWithTrace, by the tool itself; it has no session.
ToolAsks(u) ==
  /\ turn[u] = "idle" /\ tabSpent.uses < MaxToolUses
  /\ tabSpent' = [tabSpent EXCEPT !.uses = @ + 1]
  /\ Enqueue(u, "acquiring")
  /\ UNCHANGED <<chromeVars, sessionVars, driver, entry, watch, eval, ref>>

\* ensureDomain, of a screenshot.
ToolEnablesPage(u) ==
  /\ turn[u] = "using"
  /\ EnsuresPage
  /\ UNCHANGED <<attached, document, refCount, owners, serial, turn, record, sessionVars, driverVars>>

\* Done, or failed: releaseWithTrace, in a finally.
ToolDone(u) ==
  /\ turn[u] = "using"
  /\ Enqueue(u, "releasing")
  /\ UNCHANGED <<chromeVars, sessionVars, driverVars>>

-----------------------------------------------------------------------------
(* Snapshots and navigation *)

Usable(d) == driver[d].phase = "ready" /\ ~driver[d].closed /\ ~driver[d].disposed

\* captureSnapshot: the scope it starts in, and evaluateRaw's acquisition.
StartEvaluation ==
  /\ entry # 0 /\ Usable(entry) /\ turn[Op] = "idle" /\ eval = NoRef
  /\ tabSpent.evaluations < MaxEvaluations
  /\ tabSpent' = [tabSpent EXCEPT !.evaluations = @ + 1]
  /\ eval' = [driver |-> entry, generation |-> generation, document |-> 0]
  /\ Install
  /\ Enqueue(Op, "acquiring")
  /\ UNCHANGED <<chromeVars, depth, generation, driver, entry, watch, ref>>

\* Runtime.evaluate answers from the document of that moment, or fails; then
\* evaluateRaw releases.
Evaluated ==
  /\ turn[Op] = "evaluating"
  /\ eval' = [eval EXCEPT !.document = IF attached /\ Usable(eval.driver) THEN document ELSE 0]
  /\ Enqueue(Op, "releasing")
  /\ UNCHANGED <<chromeVars, sessionVars, driver, entry, watch, ref, tabSpent>>

\* Mutant: the snapshot is stamped with the generation in which it is remembered.
RememberLate ==
  /\ eval # NoRef /\ turn[Op] = "idle"
  /\ ref' = IF eval.document # 0 THEN [eval EXCEPT !.generation = generation] ELSE ref
  /\ eval' = NoRef
  /\ UNCHANGED <<chromeVars, managerVars, sessionVars, driver, entry, watch, tabSpent>>

\* The snapshot is remembered if the scope is still the one it started in.
Remember ==
  /\ eval # NoRef /\ turn[Op] = "idle"
  /\ ref' = IF eval.document # 0 /\ eval.generation = generation THEN eval ELSE ref
  /\ eval' = NoRef
  /\ UNCHANGED <<chromeVars, managerVars, sessionVars, driver, entry, watch, tabSpent>>

\* Chrome announces a navigation to the listeners of the tab's record.
Hears == attached /\ pageEnabled /\ table # 0 /\ tracking = table
Navigate ==
  /\ document <= MaxNavigations
  /\ document' = document + 1
  /\ generation' = IF Hears THEN generation + 1 ELSE generation
  /\ UNCHANGED <<attached, pageEnabled, managerVars, depth, tracking, driverVars>>

\* The registry hears of the detach of the record it listens to.
Evicted == entry # 0 /\ table # 0 /\ watch[entry] = table

\* The browser or its user ends the debugging of the tab: onDetach tells the
\* session, which tells every driver, and the registry, which evicts its own.
BrowserDetaches ==
  LET told == table # 0 /\ tracking = table
      Closing(d) == told /\ driver[d].phase # "none" /\ ~driver[d].disposed
  IN
  /\ attached /\ tabSpent.detaches < MaxDetaches
  /\ turn[Op] # "evaluating" /\ \A u \in Users : turn[u] # "detaching"
  /\ tabSpent' = [tabSpent EXCEPT !.detaches = @ + 1]
  /\ attached' = FALSE /\ pageEnabled' = FALSE
  /\ generation' = IF told THEN generation + 1 ELSE generation
  /\ tracking' = IF told THEN 0 ELSE tracking
  /\ driver' = [d \in Drivers |->
       [driver[d] EXCEPT !.closed = @ \/ Closing(d),
                         !.lifetime = @ /\ ~Closing(d),
                         !.disposed = @ \/ (Evicted /\ d = entry)]]
  /\ entry' = IF Evicted THEN 0 ELSE entry
  /\ table' = 0
  /\ UNCHANGED <<document, records, refCount, owners, serial, enabled, turn, record,
                 depth, watch, eval, ref>>

-----------------------------------------------------------------------------

UserSteps(u) ==
  \/ AcquireHeld(u) \/ AcquireFirst(u) \/ Attached(u) \/ AttachFails(u)
  \/ ReleaseNothing(u) \/ ReleaseHeld(u) \/ Detached(u)

TabProgress ==
  \/ \E u \in Users : UserSteps(u)
  \/ \E d \in Drivers : EnablePage(d) \/ EnableFails(d) \/ ReleaseLifetime(d)
  \/ Evaluated \/ Remember
  \/ \E u \in Tools : ToolDone(u)

TabNext ==
  \/ TabProgress
  \/ \E u \in Tools : ToolAsks(u) \/ ToolEnablesPage(u)
  \/ MakeDriver \/ ReleaseEntry \/ StartEvaluation \/ Navigate \/ BrowserDetaches

TabSpec == TabInit /\ [][TabNext]_tabVars
\* Chrome answers; nobody need call.
TabFairness == WF_tabVars(TabProgress)

-----------------------------------------------------------------------------
(* Properties *)

\* Drivers may overlap, and whoever waits for its turn may get it at a record that was
\* deleted meanwhile.  Even so, until the browser detaches, whoever holds the debugger has
\* it: nobody else's release takes it away, at whichever record both are counted.  And it
\* is attached for a holder that is counted somewhere, or somebody detaches it.
Holds(u) == IF u \in Drivers THEN driver[u].lifetime ELSE turn[u] \in {"evaluating", "using"}
AttachedWhileHeld ==
  tabSpent.detaches = 0 =>
    /\ \A u \in Users : Holds(u) => attached
    /\ attached => \/ \E k \in TabRecords : refCount[k] > 0
                   \/ \E u \in Users : turn[u] = "detaching"

\* A reference of the generation that is current was taken from the document
\* that is current: only then may the driver act on it.
FreshRefFits ==
  ref # NoRef /\ Usable(ref.driver) /\ ref.generation = generation => ref.document = document

\* Until the browser detaches, the references a driver may act on are fresh, though the
\* session's listeners come and go with the other drivers of the tab and are installed
\* anew by whoever evaluates; unless they stay at a record that was deleted.
FreshUntilDetached == tabSpent.detaches = 0 /\ tracking \in {0, table} => FreshRefFits

\* Records that were deleted while holders were counted at them, or before: no release
\* finds these holders again.
Orphans == {k \in TabRecords : k # table /\ refCount[k] > 0}

\* Once the registry has let its driver go, the debugger is let go too, unless a holder
\* is counted at a record that was deleted.
LetsGo == (entry = 0) ~> (entry # 0 \/ ~attached \/ Orphans # {})

\* User u has its turn, or has the debugger for a command.
HasIt(u) ==
  turn[u] # "idle" /\ (turn[u] \notin {"evaluating", "using"} =>
                         serial[record[u]] # <<>> /\ Head(serial[record[u]]) = u)

\* While the registry has no driver, a debugger that is attached, and not for a holder at a
\* deleted record, has somebody who is about to let it go, and whoever waits for its turn
\* does so behind one who has it, at a deleted record too.
LettingGoIsUnderWay ==
  /\ entry = 0 /\ attached /\ Orphans = {} =>
       \/ \E u \in Users : HasIt(u)
       \/ \E d \in Drivers : driver[d].lifetime /\ driver[d].disposed
  /\ \A u \in Users : turn[u] # "idle" => HasIt(u) \/ HasIt(Head(serial[record[u]]))
=============================================================================
