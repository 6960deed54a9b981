---------------------------- MODULE SessionLocks ----------------------------
(***************************************************************************)
(* The locks that keep a session in one window: kept in chrome.storage.session   *)
(* and changed by the worker (extension/src/background.ts, background-state.ts)   *)
(* in two steps, a read and a later write of the whole table.                  *)
(***************************************************************************)
EXTENDS Naturals

CONSTANTS
  LockWindows,    \* browser windows
  LockSessions,   \* sessions
  MaxLockTasks    \* bound: acquisitions, closings and removals

NoWindow == "no window"

ASSUME LocksAssumption == MaxLockTasks \in Nat /\ NoWindow \notin LockWindows

VARIABLES
  sessionLocks,   \* in storage: of each session, its window
  tasks,          \* reads under way, and reads whose write is still to come
  lockTasks,
  shown,          \* of each window, the session its panel was told is its own
  removed,        \* windows that are gone
  crossed         \* history: a read happened between another's read and its write

locksVars == <<sessionLocks, tasks, lockTasks, shown, removed, crossed>>

LocksInit ==
  /\ sessionLocks = [s \in LockSessions |-> NoWindow]
  /\ tasks = {} /\ lockTasks = 0 /\ crossed = FALSE
  /\ shown = [w \in LockWindows |-> NoWindow] /\ removed = {}

\* storage.get is called; heard: the port of the panel that asked is still there.
NoSession == "no session"
Enters(kind, w, s, others) ==
  /\ lockTasks < MaxLockTasks
  /\ lockTasks' = lockTasks + 1
  /\ tasks' = others \cup {[id |-> lockTasks, task |-> kind, window |-> w, session |-> s, heard |-> TRUE,
                            stage |-> "reading", locks |-> [r \in LockSessions |-> NoWindow]]}

\* The acquisitions of a window whose port is gone: isCurrent of theirs turns false.
Unheard(w) == {IF t.task = "acquire" /\ t.window = w THEN [t EXCEPT !.heard = FALSE] ELSE t : t \in tasks}

\* acquireLock: a panel waits for the answer before it asks again, and does not know
\* a session that is still being made.
AcquiresLock(w, s) ==
  /\ w \notin removed
  /\ \A t \in tasks : /\ t.task = "acquire" /\ t.window = w => ~t.heard
                      /\ t.task = "replace" => t.session # s
  /\ Enters("acquire", w, s, tasks)
  /\ UNCHANGED <<sessionLocks, shown, removed, crossed>>

\* closeSidepanel, by the keyboard: the panel goes, its lock does not.
ClosesSidepanel(w) ==
  /\ w \notin removed
  /\ Enters("close", w, NoSession, Unheard(w))
  /\ shown' = [shown EXCEPT ![w] = NoWindow]
  /\ UNCHANGED <<sessionLocks, removed, crossed>>

\* windows.onRemoved: closeSidepanel with the release of the window's ownership.
RemovesWindow(w) ==
  /\ w \notin removed
  /\ Enters("release", w, NoSession, Unheard(w))
  /\ removed' = removed \cup {w}
  /\ shown' = [shown EXCEPT ![w] = NoWindow]
  /\ UNCHANGED <<sessionLocks, crossed>>

\* replaceRuntimeSessionLock: newSession has released the session of the window, and
\* one that is new takes its lock; the panel has to ask for it.
IsNew(s) ==
  /\ sessionLocks[s] = NoWindow
  /\ \A t \in tasks : t.session # s /\ t.locks[s] = NoWindow
ReplacesSessionLock(w, s) ==
  /\ w \notin removed /\ IsNew(s)
  /\ Enters("replace", w, s, tasks)
  /\ UNCHANGED <<sessionLocks, shown, removed, crossed>>

\* Storage answers in the order it was asked.
ReadsLocks ==
  \E t \in tasks :
    /\ t.stage = "reading" /\ \A u \in tasks : u.stage = "reading" => t.id <= u.id
    /\ tasks' = (tasks \ {t}) \cup {[t EXCEPT !.stage = "read", !.locks = sessionLocks]}
    /\ crossed' = (crossed \/ \E u \in tasks : u.stage = "read")
    /\ UNCHANGED <<sessionLocks, lockTasks, shown, removed>>

\* buildLockResult: nobody else owns the session; the window's other lock goes.
Without(locks, w) == [s \in LockSessions |-> IF locks[s] = w THEN NoWindow ELSE locks[s]]
Takes(locks, s, w) == [Without(locks, w) EXCEPT ![s] = w]

\* Mutant: the window that asks last gets the lock.
BuildLockResultAnyway(locks, s, w) ==
  [success |-> TRUE, nextLocks |-> Takes(locks, s, w)]

BuildLockResult(locks, s, w) ==
  IF locks[s] \in {NoWindow, w}
  THEN [success |-> TRUE, nextLocks |-> Takes(locks, s, w)]
  ELSE [success |-> FALSE, nextLocks |-> locks]

\* The write, and for an acquisition the answer; when its panel goes meanwhile it is
\* not answered, and written only if its port was looked at before.
WritesLocks ==
  \E t \in tasks :
    /\ t.stage = "read"
    /\ tasks' = tasks \ {t}
    /\ \/ /\ t.task = "acquire"
          /\ LET r == BuildLockResult(t.locks, t.session, t.window) IN
             \/ /\ r.success
                /\ sessionLocks' = r.nextLocks
                /\ shown' = IF t.heard THEN [shown EXCEPT ![t.window] = t.session] ELSE shown
             \/ ~(r.success /\ t.heard) /\ UNCHANGED <<sessionLocks, shown>>
       \/ t.task = "close" /\ sessionLocks' = t.locks /\ UNCHANGED shown
       \/ t.task = "release" /\ sessionLocks' = Without(t.locks, t.window) /\ UNCHANGED shown
       \/ /\ t.task = "replace"
          /\ sessionLocks' = Takes(t.locks, t.session, t.window)
          /\ shown' = [shown EXCEPT ![t.window] = NoWindow]
    /\ UNCHANGED <<lockTasks, removed, crossed>>

LocksNext ==
  \/ \E w \in LockWindows, s \in LockSessions : AcquiresLock(w, s) \/ ReplacesSessionLock(w, s)
  \/ \E w \in LockWindows : ClosesSidepanel(w) \/ RemovesWindow(w)
  \/ ReadsLocks \/ WritesLocks

LocksSpec == LocksInit /\ [][LocksNext]_locksVars

-----------------------------------------------------------------------------
(* Properties *)

\* A session is shown in one window, and that window has its lock.
OneWindowPerSession ==
  \A w \in LockWindows : shown[w] # NoWindow =>
    /\ sessionLocks[shown[w]] = w
    /\ \A v \in LockWindows \ {w} : shown[v] # shown[w]

\* The same, as long as the tasks of the worker happened one after the other.
LocksHoldInTurn == ~crossed => OneWindowPerSession

\* Even when they did not, no write gives a window two sessions.
OneLockPerWindow ==
  \A r, s \in LockSessions : (sessionLocks[r] = sessionLocks[s] /\ sessionLocks[r] # NoWindow) => r = s
=============================================================================
