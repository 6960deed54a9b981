-------------------------- MODULE ElectronSessions --------------------------
(***************************************************************************)
(* The sessions of ElectronSessionManager with one desktop app on one port    *)
(* (server/src/electron/session-manager.ts, session-store.ts), and the page    *)
(* drivers it keeps for the app's window.  Every command looks at the app anew  *)
(* before it uses a driver: who listens, which windows there are, who listens   *)
(* still.  Meanwhile others do the same, sessions are detached, the app ends or  *)
(* starts again and its window changes.                                       *)
(*                                                                         *)
(* A generation is a process family with its browser endpoint; a form is the    *)
(* debugger URL and type of the window.  The window of a generation is one       *)
(* target, so that a session has one key in pageDrivers.                      *)
(***************************************************************************)
EXTENDS Naturals

CONSTANTS
  ElectronUses,          \* commands under way at a time
  MaxElectronSessions,   \* bound: sessions created
  MaxPageEntries,        \* bound: drivers created
  MaxAppChanges,         \* bound: ends and starts of the app, changes of its window
  MaxElectronCommands    \* bound: commands begun

ASSUME ElectronAssumption ==
  {MaxElectronSessions, MaxPageEntries, MaxAppChanges, MaxElectronCommands} \subseteq Nat

ElectronIds == 1..MaxElectronSessions
PageEntries == 1..MaxPageEntries
NoEntry == 0
Mixed == 0       \* no generation: the endpoint of one, the owner of another
NoForm == 0      \* the window is closed, or not known yet

VARIABLES
  app,          \* generation, whether it runs, the form of its window
  electron,     \* of each session: stage, generation, form of its window, launched
  pageDrivers,  \* of each session, the entry that is cached
  pageEntry,    \* of each entry: its session and form, how far it is, disposed, an open socket
  use,          \* of each command: kind, step, session, what it has seen, its entry
  appChanges, electronCommands,
  late          \* history: sessions detached while a command for their window looked at the app

electronVars == <<app, electron, pageDrivers, pageEntry, use, appChanges, electronCommands, late>>
appVars   == <<app, appChanges>>
storeVars == <<electron, pageDrivers, pageEntry, late>>

NoUse == [kind |-> "none", step |-> "idle", session |-> 0, seen |-> 0, entry |-> NoEntry]

ElectronInit ==
  /\ app = [generation |-> 1, up |-> TRUE, form |-> 1]
  /\ electron = [s \in ElectronIds |-> [stage |-> "none", generation |-> 0, form |-> NoForm, launched |-> FALSE]]
  /\ pageDrivers = [s \in ElectronIds |-> NoEntry]
  /\ pageEntry = [n \in PageEntries |->
       [step |-> "none", session |-> 0, form |-> NoForm, disposed |-> FALSE, open |-> FALSE]]
  /\ use = [c \in ElectronUses |-> NoUse]
  /\ appChanges = 0 /\ electronCommands = 0 /\ late = {}

Attached == {s \in ElectronIds : electron[s].stage = "attached"}
AppRuns(generation) == app.up /\ app.generation = generation

-----------------------------------------------------------------------------
(* The app *)

Changes == appChanges < MaxAppChanges /\ appChanges' = appChanges + 1
AppEnds == app.up /\ Changes /\ app' = [app EXCEPT !.up = FALSE, !.form = NoForm]
Starts == app' = [generation |-> app.generation + 1, up |-> TRUE, form |-> 1]
AppStarts == ~app.up /\ Changes /\ Starts
WindowChanges == app.form # NoForm /\ Changes /\ \E form \in {NoForm, app.form + 1} : app' = [app EXCEPT !.form = form]

AppSteps ==
  /\ AppEnds \/ AppStarts \/ WindowChanges
  /\ UNCHANGED <<storeVars, use, electronCommands>>

-----------------------------------------------------------------------------
(* Drivers *)

\* disposePageDriverEntry, of the entries `gone`: one that is not ready yet disposes
\* itself when it sees that it is disposed.
Disposed(gone) ==
  [n \in PageEntries |->
    IF n \notin gone THEN pageEntry[n]
    ELSE [pageEntry[n] EXCEPT !.disposed = TRUE, !.step = IF @ = "ready" THEN "closing" ELSE @]]
CachedOf(sessions) == {pageDrivers[s] : s \in sessions} \ {NoEntry}
Uncached(sessions) == [s \in ElectronIds |-> IF s \in sessions THEN NoEntry ELSE pageDrivers[s]]
DisposesDriversOf(sessions) ==
  /\ pageEntry' = Disposed(CachedOf(sessions))
  /\ pageDrivers' = Uncached(sessions)

\* discardSession, of several: those a command is still looking at come too late for it.
LooksAt(c, s) == use[c].kind = "page" /\ use[c].session = s /\ use[c].step \in {"validating", "listing", "revalidating"}
Leaving(sessions) ==
  [s \in ElectronIds |->
    IF s \in sessions /\ electron[s].stage = "attached" THEN [electron[s] EXCEPT !.stage = "detached"] ELSE electron[s]]
GivesUp(sessions, by) ==
  /\ DisposesDriversOf(sessions)
  /\ late' = late \cup {s \in sessions : \E c \in ElectronUses \ by : LooksAt(c, s)}
Discards(sessions, by) == electron' = Leaving(sessions) /\ GivesUp(sessions, by)

\* Mutant: it takes out whatever the cache has by now.
EntryFailsAny(n) ==
  /\ pageEntry' = [pageEntry EXCEPT ![n].step = "over", ![n].open = FALSE]
  /\ pageDrivers' = [pageDrivers EXCEPT ![pageEntry[n].session] = NoEntry]

\* An entry that fails is taken out of the cache by the command that made it.
EntryFails(n) ==
  /\ pageEntry' = [pageEntry EXCEPT ![n].step = "over", ![n].open = FALSE]
  /\ pageDrivers' = [s \in ElectronIds |-> IF pageDrivers[s] = n THEN NoEntry ELSE pageDrivers[s]]

Reachable(n) == AppRuns(electron[pageEntry[n].session].generation) /\ app.form = pageEntry[n].form

\* connectPage
Connects(n) ==
  /\ pageEntry[n].step = "connecting"
  /\ \/ /\ Reachable(n)
        /\ pageEntry' = [pageEntry EXCEPT ![n].step = "opening", ![n].open = TRUE]
        /\ UNCHANGED pageDrivers
     \/ EntryFails(n)

\* driver.ready, and the look at what happened meanwhile.
Readies(n) ==
  /\ pageEntry[n].step = "opening"
  /\ IF pageEntry[n].open /\ ~pageEntry[n].disposed /\ pageDrivers[pageEntry[n].session] = n
     THEN pageEntry' = [pageEntry EXCEPT ![n].step = "ready"] /\ UNCHANGED pageDrivers
     ELSE EntryFails(n)

\* disposePageDriverState
Closes(n) ==
  /\ pageEntry[n].step = "closing"
  /\ pageEntry' = [pageEntry EXCEPT ![n].step = "over", ![n].open = FALSE]
  /\ UNCHANGED pageDrivers

\* The window or the app is gone: handlePageDriverTransportClose.
TransportCloses(n) ==
  /\ pageEntry[n].open /\ ~Reachable(n)
  /\ IF pageEntry[n].step = "ready"
     THEN /\ pageEntry' = [pageEntry EXCEPT ![n].step = "over", ![n].open = FALSE, ![n].disposed = TRUE]
          /\ pageDrivers' = [s \in ElectronIds |-> IF pageDrivers[s] = n THEN NoEntry ELSE pageDrivers[s]]
     ELSE pageEntry' = [pageEntry EXCEPT ![n].open = FALSE] /\ UNCHANGED pageDrivers

DriverSteps(n) ==
  /\ Connects(n) \/ Readies(n) \/ Closes(n) \/ TransportCloses(n)
  /\ UNCHANGED <<appVars, electron, use, electronCommands, late>>

-----------------------------------------------------------------------------
(* Commands *)

CommandBegins(c) ==
  /\ use[c].step = "idle"
  /\ electronCommands < MaxElectronCommands /\ electronCommands' = electronCommands + 1
Goes(c, step) == use' = [use EXCEPT ![c].step = step]
Ends(c) == use' = [use EXCEPT ![c] = NoUse]

\* A command for a window or for the windows, or a status: of a session that is there.
UseBegins(c, kind, s) ==
  /\ CommandBegins(c) /\ s \in Attached
  /\ use' = [use EXCEPT ![c] = [NoUse EXCEPT !.kind = kind, !.step = "validating", !.session = s]]
  /\ UNCHANGED <<appVars, storeVars>>

\* attach has read the endpoint: sessions with others on this port are stale.
AttachBegins(c) ==
  /\ CommandBegins(c) /\ app.up
  /\ use' = [use EXCEPT ![c] = [NoUse EXCEPT !.kind = "attach", !.step = "verifying", !.seen = app.generation]]
  /\ Discards({s \in Attached : electron[s].generation # app.generation}, {})
  /\ UNCHANGED appVars

\* createSession, among the sessions of `store`
NewSession(s, generation, launched, store) ==
  /\ store[s].stage = "none" /\ \A r \in 1..(s - 1) : store[r].stage # "none"
  /\ electron' = [store EXCEPT ![s] =
       [stage |-> "attached", generation |-> generation, form |-> NoForm, launched |-> launched]]

\* The owner of the port is verified, by its process if attach was given one.  The
\* session of this endpoint and owner, or a new one, and no other: if the app was
\* started anew meanwhile, one that is Mixed and will not be valid.
AttachVerified(c) ==
  LET key == IF AppRuns(use[c].seen) THEN use[c].seen ELSE Mixed
      same == {s \in Attached : electron[s].generation = key}
      others == Attached \ same
  IN
  /\ use[c].step = "verifying"
  /\ \/ ~AppRuns(use[c].seen) /\ Ends(c) /\ UNCHANGED storeVars
     \/ /\ app.up
        /\ GivesUp(others, {})
        /\ \E s \in ElectronIds :
             /\ IF same # {} THEN s \in same /\ (\A r \in same : s <= r) /\ electron' = Leaving(others)
                ELSE NewSession(s, key, FALSE, Leaving(others))
             /\ use' = [use EXCEPT ![c].step = "validating", ![c].session = s]
  /\ UNCHANGED <<appVars, electronCommands>>

\* launch: the app starts, and a session is made when it answers, whatever others made.
LaunchBegins(c) ==
  /\ CommandBegins(c) /\ ~app.up /\ Starts
  /\ use' = [use EXCEPT ![c] = [NoUse EXCEPT !.kind = "launch", !.step = "launching", !.seen = app.generation + 1]]
  /\ UNCHANGED <<appChanges, storeVars>>

Launched(c) ==
  /\ use[c].step = "launching"
  /\ IF AppRuns(use[c].seen)
     THEN \E s \in ElectronIds :
            /\ NewSession(s, use[c].seen, TRUE, electron)
            /\ use' = [use EXCEPT ![c].step = "validating", ![c].session = s]
     ELSE Ends(c) /\ UNCHANGED electron
  /\ UNCHANGED <<appVars, pageDrivers, pageEntry, late, electronCommands>>

\* What fails: a session that is not what it was is discarded, a status only lets go of
\* its drivers, an attach discards whatever failed.
UseFails(c, invalid) ==
  LET s == use[c].session IN
  /\ Ends(c)
  /\ IF use[c].kind = "status" THEN DisposesDriversOf({s}) /\ UNCHANGED <<electron, late>>
     ELSE IF invalid \/ use[c].kind = "attach" THEN Discards({s}, {c})
     ELSE UNCHANGED storeVars

Valid(c) == AppRuns(electron[use[c].session].generation)

\* revalidateSession, the first time
Validates(c) ==
  /\ use[c].step = "validating"
  /\ IF Valid(c) THEN Goes(c, "listing") /\ UNCHANGED storeVars ELSE UseFails(c, TRUE)

\* listCdpTargets
Lists(c) ==
  /\ use[c].step = "listing"
  /\ IF app.up THEN use' = [use EXCEPT ![c].step = "revalidating", ![c].seen = app.form] /\ UNCHANGED storeVars
     ELSE UseFails(c, FALSE)

\* The deadline of a status
StatusTimesOut(c) ==
  /\ use[c].kind = "status" /\ UseFails(c, FALSE)

\* updateWindowsFromTargets, and then pageDriverFor: by what was listed.
Changed(s, form) == form = NoForm \/ electron[s].form \notin {NoForm, form}
Updated(s, form) == electron' = [electron EXCEPT ![s].form = form]
Kept(s, form) == IF Changed(s, form) THEN {} ELSE CachedOf({s})
Revalidates(c) ==
  LET s == use[c].session  form == use[c].seen IN
  /\ use[c].step = "revalidating"
  /\ IF ~Valid(c) THEN UseFails(c, TRUE)
     ELSE /\ Updated(s, form)
          /\ UNCHANGED late
          /\ IF use[c].kind # "page" \/ form = NoForm
             THEN /\ Ends(c)
                  /\ IF Changed(s, form) THEN DisposesDriversOf({s}) ELSE UNCHANGED <<pageDrivers, pageEntry>>
             ELSE IF Kept(s, form) # {}
             THEN /\ use' = [use EXCEPT ![c].step = "waiting", ![c].entry = pageDrivers[s]]
                  /\ UNCHANGED <<pageDrivers, pageEntry>>
             ELSE \E n \in PageEntries :
                    /\ pageEntry[n].step = "none" /\ \A m \in 1..(n - 1) : pageEntry[m].step # "none"
                    /\ pageEntry' = [Disposed(CachedOf({s})) EXCEPT ![n] =
                         [step |-> "connecting", session |-> s, form |-> form, disposed |-> FALSE, open |-> FALSE]]
                    /\ pageDrivers' = [pageDrivers EXCEPT ![s] = n]
                    /\ use' = [use EXCEPT ![c].step = "waiting", ![c].entry = n]

\* The driver's answer, or that of the failure to have one.
UseReturns(c) ==
  /\ use[c].step = "waiting" /\ pageEntry[use[c].entry].step \notin {"connecting", "opening"}
  /\ Ends(c) /\ UNCHANGED storeVars

UseSteps(c) ==
  /\ Validates(c) \/ Lists(c) \/ StatusTimesOut(c) \/ Revalidates(c) \/ UseReturns(c)
  /\ UNCHANGED <<appVars, electronCommands>>

-----------------------------------------------------------------------------

\* detach, which also ends an app it launched: AppEnds has that.  Of a session whose
\* launched app has ended, deleteSessionIfCdpExited.
Detaches(s) ==
  /\ s \in Attached
  /\ \/ electronCommands < MaxElectronCommands /\ electronCommands' = electronCommands + 1
     \/ electron[s].launched /\ ~app.up /\ UNCHANGED electronCommands
  /\ Discards({s}, {})
  /\ UNCHANGED <<appVars, use>>

ElectronNext ==
  \/ AppSteps
  \/ \E n \in PageEntries : DriverSteps(n)
  \/ \E c \in ElectronUses :
       \/ AttachBegins(c) \/ AttachVerified(c) \/ LaunchBegins(c) \/ Launched(c) \/ UseSteps(c)
       \/ \E s \in ElectronIds, kind \in {"page", "windows", "status"} : UseBegins(c, kind, s)
  \/ \E s \in ElectronIds : Detaches(s)

ElectronSpec == ElectronInit /\ [][ElectronNext]_electronVars

-----------------------------------------------------------------------------
(* Properties *)

\* An open socket to a window is that of the driver its session has cached, for the
\* window as the session knows it; or it is about to be decided or closed.  Whatever
\* failed, changed or was detached while it connected, none is left behind, unless the
\* session was detached under a command that was already looking at the app.
ConnectionsOwned ==
  \A n \in PageEntries :
    LET s == pageEntry[n].session IN
    pageEntry[n].open /\ pageEntry[n].step = "ready" =>
      /\ pageDrivers[s] = n /\ ~pageEntry[n].disposed
      /\ pageEntry[n].form = electron[s].form
      /\ s \in Attached \cup late
=============================================================================
