------------------------ MODULE Coordination_proofs -------------------------
(***************************************************************************)
(* What the worker and the bridge promise of session locks, of the start   *)
(* of a bridge, of the sessions with a desktop app and of the leases of    *)
(* side panels, for any number of windows, sessions, commands and          *)
(* documents.                                                              *)
(*                                                                         *)
(* Locks: a table that gives no window two sessions stays one, however the *)
(* tasks of the worker are interleaved: every table that is written was    *)
(* read and changed for one window.  As long as the tasks were not         *)
(* crossed, the table a task has read is the stored one until it is        *)
(* written, so what panels were told holds.                                *)
(***************************************************************************)
EXTENDS BridgeStart, SidepanelAuthority, SessionLocks, ElectronSessions, FiniteSetTheorems, TLAPS

-----------------------------------------------------------------------------
(* Session locks *)

Tables == [LockSessions -> LockWindows \cup {NoWindow}]
Tasks == [id : Nat, task : {"acquire", "close", "release", "replace"}, window : LockWindows,
          session : LockSessions \cup {NoSession}, heard : BOOLEAN,
          stage : {"reading", "read"}, locks : Tables]

\* Every variable of the locks keeps its type (background.ts, background-state.ts).
LocksTypeOK ==
  /\ sessionLocks \in Tables /\ tasks \subseteq Tasks /\ lockTasks \in Nat
  /\ shown \in [LockWindows -> LockSessions \cup {NoWindow}]
  /\ removed \subseteq LockWindows /\ crossed \in BOOLEAN
  /\ \A t \in tasks : t.task \in {"acquire", "replace"} => t.session \in LockSessions

Fair(locks) == \A r, s \in LockSessions : (locks[r] = locks[s] /\ locks[r] # NoWindow) => r = s
TablesFair == Fair(sessionLocks) /\ \A t \in tasks : Fair(t.locks)

\* Reads come in the order of the tasks, and a window's panel that is there asked last.
TasksOrdered ==
  /\ \A t \in tasks : t.id < lockTasks
  /\ \A t, u \in tasks : t.stage = "reading" /\ u.stage = "read" => u.id <= t.id
  /\ \A t, u \in tasks :
       t.task = "acquire" /\ u.task = "acquire" /\ t.window = u.window /\ ~t.heard /\ u.heard
       => t.id < u.id

\* Nobody else has a session that is being made, or asks for it.
NewSessionsFree ==
  \A t \in tasks : t.task = "replace" =>
    /\ sessionLocks[t.session] = NoWindow
    /\ \A u \in tasks :
         /\ u.locks[t.session] = NoWindow
         /\ u.task = "acquire" => u.session # t.session
         /\ u.task = "replace" /\ u.session = t.session => u = t

\* A window that is gone shows nothing and its panel is not answered.
RemovedAreSilent ==
  /\ \A w \in removed : shown[w] = NoWindow
  /\ \A t \in tasks : /\ t.task = "acquire" /\ t.window \in removed => ~t.heard
                      /\ t.task = "release" => t.window \in removed

\* In turn, one task at most has read and not written, nothing was written since it
\* did, panels have the locks they were told of, and one that closed was told nothing.
InTurn ==
  ~crossed =>
    /\ \A t, u \in tasks : t.stage = "read" /\ u.stage = "read" => t = u
    /\ \A t \in tasks : t.stage = "read" => t.locks = sessionLocks
    /\ \A w \in LockWindows : shown[w] # NoWindow => sessionLocks[shown[w]] = w
    /\ \A t \in tasks : t.task = "acquire" /\ ~t.heard => shown[t.window] = NoWindow

LocksInv ==
  LocksTypeOK /\ TablesFair /\ TasksOrdered /\ NewSessionsFree /\ RemovedAreSilent /\ InTurn

-----------------------------------------------------------------------------
(* Tables of session locks *)

\* buildLockResult and releaseWindowState keep tables fair.
LEMMA TablesStayFair ==
  ASSUME NEW locks \in Tables, Fair(locks), NEW w \in LockWindows
  PROVE  /\ Without(locks, w) \in Tables /\ Fair(Without(locks, w))
         /\ \A s \in LockSessions : Takes(locks, s, w) \in Tables /\ Fair(Takes(locks, s, w))
<1>1. Without(locks, w) \in Tables /\ Fair(Without(locks, w))
  BY DEF Without, Tables, Fair
<1>2. \A r \in LockSessions : Without(locks, w)[r] # w
  BY LocksAssumption DEF Without
<1>3. ASSUME NEW s \in LockSessions
      PROVE  Takes(locks, s, w) \in Tables /\ Fair(Takes(locks, s, w))
  BY <1>1, <1>2, <1>3 DEF Takes, Tables, Fair
<1> QED BY <1>1, <1>3

\* The tasks that were there when one enters: none is added, and all that may change is
\* that an acquisition is not heard any more.
LEMMA OthersKept ==
  ASSUME LocksTypeOK, NEW w \in LockWindows
  PROVE  \A u \in Unheard(w) : \E t \in tasks :
           /\ u \in Tasks /\ u.id = t.id /\ u.task = t.task /\ u.window = t.window
           /\ u.session = t.session /\ u.stage = t.stage /\ u.locks = t.locks
           /\ (t.task = "acquire" /\ t.window = w) => ~u.heard
           /\ ~(t.task = "acquire" /\ t.window = w) => u = t
           /\ u.heard => t.heard
<1> SUFFICES ASSUME NEW t \in tasks
             PROVE  LET u == IF t.task = "acquire" /\ t.window = w THEN [t EXCEPT !.heard = FALSE] ELSE t
                    IN  /\ u \in Tasks /\ u.id = t.id /\ u.task = t.task /\ u.window = t.window
                        /\ u.session = t.session /\ u.stage = t.stage /\ u.locks = t.locks
                        /\ (t.task = "acquire" /\ t.window = w) => ~u.heard
                        /\ ~(t.task = "acquire" /\ t.window = w) => u = t
                        /\ u.heard => t.heard
  BY DEF Unheard
<1>1. t \in Tasks
  BY DEF LocksTypeOK
<1> QED BY <1>1 DEF Tasks

-----------------------------------------------------------------------------
(* A task enters *)

\* Whatever task enters, the tables, the order of the tasks and the new sessions are as
\* they have to be.
LEMMA EntryKeeps ==
  ASSUME LocksInv, NEW w \in LockWindows, NEW kind \in {"acquire", "close", "release", "replace"},
         NEW s \in LockSessions \cup {NoSession}, NEW others,
         others = tasks \/ others = Unheard(w),
         Enters(kind, w, s, others), sessionLocks' = sessionLocks, crossed' = crossed,
         kind \in {"acquire", "replace"} => s \in LockSessions,
         kind = "replace" => IsNew(s),
         kind = "acquire" => \A t \in others : /\ t.task = "acquire" /\ t.window = w => ~t.heard
                                               /\ t.task = "replace" => t.session # s
  PROVE  /\ tasks' \subseteq Tasks /\ lockTasks' \in Nat
         /\ \A t \in tasks' : t.task \in {"acquire", "replace"} => t.session \in LockSessions
         /\ TablesFair' /\ TasksOrdered' /\ NewSessionsFree'
         /\ ~crossed => /\ \A t, u \in tasks' : t.stage = "read" /\ u.stage = "read" => t = u
                        /\ \A t \in tasks' : t.stage = "read" => t.locks = sessionLocks
<1> DEFINE new == [id |-> lockTasks, task |-> kind, window |-> w, session |-> s, heard |-> TRUE,
                   stage |-> "reading", locks |-> [r \in LockSessions |-> NoWindow]]
<1> DEFINE From(u, t) ==
  /\ u \in Tasks /\ u.id = t.id /\ u.task = t.task /\ u.window = t.window
  /\ u.session = t.session /\ u.stage = t.stage /\ u.locks = t.locks
  /\ (u = t \/ (t.task = "acquire" /\ t.window = w))
  /\ u.heard => t.heard
<1>1. tasks' = others \cup {new} /\ lockTasks' = lockTasks + 1
  BY DEF Enters
<1>2. LocksTypeOK /\ lockTasks \in Nat /\ lockTasks' \in Nat
  BY <1>1 DEF LocksInv, LocksTypeOK
<1>3. new \in Tasks /\ new.id = lockTasks /\ new.task = kind /\ new.window = w /\ new.session = s
      /\ new.heard /\ new.stage = "reading" /\ new.locks = [r \in LockSessions |-> NoWindow]
  BY <1>2 DEF Tasks, Tables
<1>4. \A u \in others : \E t \in tasks : From(u, t)
  <2>1. CASE others = Unheard(w)
    BY <2>1, <1>2, OthersKept
  <2>2. CASE others = tasks
    BY <2>2, <1>2 DEF LocksTypeOK
  <2> QED BY <2>1, <2>2
<1>5. \/ others = tasks
      \/ \A u \in others : u.task = "acquire" /\ u.window = w => ~u.heard
  BY <1>2, OthersKept
<1> HIDE DEF new
<1>6. /\ tasks' \subseteq Tasks
      /\ \A t \in tasks' : t.task \in {"acquire", "replace"} => t.session \in LockSessions
  <2>1. \A t \in tasks : t.task \in {"acquire", "replace"} => t.session \in LockSessions
    BY <1>2 DEF LocksTypeOK
  <2> QED BY <1>1, <1>3, <1>4, <2>1
<1>7. TablesFair'
  BY <1>1, <1>3, <1>4 DEF LocksInv, TablesFair, Fair
<1>8. TasksOrdered'
  <2>1. \A t \in tasks : t.id \in Nat /\ t.id < lockTasks
    BY <1>2 DEF LocksInv, LocksTypeOK, Tasks, TasksOrdered
  <2>2. \A t \in tasks' : t.id < lockTasks'
    BY <1>1, <1>2, <1>3, <1>4, <2>1
  <2>3. \A t, u \in tasks' : t.stage = "reading" /\ u.stage = "read" => u.id <= t.id
    BY <1>1, <1>2, <1>3, <1>4, <2>1 DEF LocksInv, TasksOrdered
  <2>4. ASSUME NEW t \in tasks', NEW u \in tasks',
               t.task = "acquire", u.task = "acquire", t.window = u.window, ~t.heard, u.heard
        PROVE  t.id < u.id
    <3>1. CASE u = new
      BY <1>1, <1>2, <1>3, <1>4, <2>1, <2>4, <3>1
    <3>2. CASE u \in others /\ others = tasks
      BY <1>1, <1>3, <2>4, <3>2 DEF LocksInv, TasksOrdered
    <3>3. CASE u \in others /\ u.window # w
      BY <1>1, <1>3, <1>4, <2>4, <3>3 DEF LocksInv, TasksOrdered
    <3> QED BY <1>1, <1>5, <2>4, <3>1, <3>2, <3>3
  <2> QED BY <2>2, <2>3, <2>4 DEF TasksOrdered
<1>9. NewSessionsFree'
  <2> SUFFICES ASSUME NEW t \in tasks', t.task = "replace", NEW u \in tasks'
               PROVE  /\ sessionLocks[t.session] = NoWindow /\ u.locks[t.session] = NoWindow
                      /\ u.task = "acquire" => u.session # t.session
                      /\ u.task = "replace" /\ u.session = t.session => u = t
    BY DEF NewSessionsFree
  <2>1. t.session \in LockSessions
    BY <1>6
  <2>2. CASE t = new
    <3>1. IsNew(s) /\ s \in LockSessions
      BY <1>3, <2>2
    <3>2. \A u0 \in tasks : u0.session # s /\ u0.locks[s] = NoWindow
      BY <3>1 DEF IsNew
    <3>3. u = new \/ (u.session # s /\ u.locks[s] = NoWindow)
      BY <1>1, <1>4, <3>2
    <3> QED BY <1>3, <2>2, <3>1, <3>3 DEF IsNew
  <2>3. CASE t \in others
    <3>1. t \in tasks
      BY <1>4, <2>3
    <3>2. CASE u = new
      <4>1. u.task = "acquire" => u.session # t.session
        BY <1>3, <2>3, <3>2
      <4>2. u.task = "replace" => u.session # t.session
        BY <1>3, <3>1, <3>2 DEF IsNew
      <4> QED BY <1>3, <2>1, <3>1, <3>2, <4>1, <4>2 DEF LocksInv, NewSessionsFree
    <3>3. CASE u \in others
      BY <1>4, <3>1, <3>3 DEF LocksInv, NewSessionsFree
    <3> QED BY <1>1, <3>2, <3>3
  <2> QED BY <1>1, <2>2, <2>3
<1>10. ~crossed => /\ \A t, u \in tasks' : t.stage = "read" /\ u.stage = "read" => t = u
                  /\ \A t \in tasks' : t.stage = "read" => t.locks = sessionLocks
  <2>1. ~crossed => \A t, u \in tasks : t.stage = "read" /\ u.stage = "read" => t = u
    BY DEF LocksInv, InTurn
  <2>2. ~crossed => \A t, u \in others : t.stage = "read" /\ u.stage = "read" => t = u
    <3>1. CASE others = tasks
      BY <2>1, <3>1
    <3>2. CASE others = Unheard(w)
      <4> DEFINE Silenced(t) == IF t.task = "acquire" /\ t.window = w THEN [t EXCEPT !.heard = FALSE] ELSE t
      <4>1. \A u \in others : \E t \in tasks : u = Silenced(t)
        BY <3>2 DEF Unheard
      <4>2. \A t \in tasks : Silenced(t).stage = t.stage
        BY <1>2 DEF LocksTypeOK, Tasks
      <4> HIDE DEF Silenced
      <4> QED BY <2>1, <4>1, <4>2
    <3> QED BY <3>1, <3>2
  <2> QED BY <1>1, <1>3, <1>4, <2>2 DEF LocksInv, InTurn
<1> QED BY <1>2, <1>6, <1>7, <1>8, <1>9, <1>10

-----------------------------------------------------------------------------
(* The steps *)

\* acquireLock keeps the invariant.
LEMMA AcquiresKeeps ==
  ASSUME LocksInv, NEW w \in LockWindows, NEW s \in LockSessions, AcquiresLock(w, s)
  PROVE  LocksInv'
<1>1. /\ Enters("acquire", w, s, tasks) /\ w \notin removed
      /\ sessionLocks' = sessionLocks /\ shown' = shown /\ removed' = removed /\ crossed' = crossed
      /\ \A t \in tasks : /\ t.task = "acquire" /\ t.window = w => ~t.heard
                          /\ t.task = "replace" => t.session # s
  BY DEF AcquiresLock
<1>2. /\ tasks' \subseteq Tasks /\ lockTasks' \in Nat
      /\ \A t \in tasks' : t.task \in {"acquire", "replace"} => t.session \in LockSessions
      /\ TablesFair' /\ TasksOrdered' /\ NewSessionsFree'
      /\ ~crossed => /\ \A t, u \in tasks' : t.stage = "read" /\ u.stage = "read" => t = u
                     /\ \A t \in tasks' : t.stage = "read" => t.locks = sessionLocks
  BY <1>1, EntryKeeps
<1>3. \A t \in tasks' : t \in tasks \/ (t.task = "acquire" /\ t.window = w /\ t.heard)
  BY <1>1 DEF Enters
<1>4. LocksTypeOK'
  BY <1>1, <1>2 DEF LocksInv, LocksTypeOK
<1>5. RemovedAreSilent'
  BY <1>1, <1>3 DEF LocksInv, RemovedAreSilent, Enters
<1>6. InTurn'
  BY <1>1, <1>2, <1>3 DEF LocksInv, InTurn
<1> QED BY <1>2, <1>4, <1>5, <1>6 DEF LocksInv

\* replaceRuntimeSessionLock keeps the invariant.
LEMMA ReplacesKeeps ==
  ASSUME LocksInv, NEW w \in LockWindows, NEW s \in LockSessions, ReplacesSessionLock(w, s)
  PROVE  LocksInv'
<1>1. /\ Enters("replace", w, s, tasks) /\ w \notin removed /\ IsNew(s)
      /\ sessionLocks' = sessionLocks /\ shown' = shown /\ removed' = removed /\ crossed' = crossed
  BY DEF ReplacesSessionLock
<1>2. /\ tasks' \subseteq Tasks /\ lockTasks' \in Nat
      /\ \A t \in tasks' : t.task \in {"acquire", "replace"} => t.session \in LockSessions
      /\ TablesFair' /\ TasksOrdered' /\ NewSessionsFree'
      /\ ~crossed => /\ \A t, u \in tasks' : t.stage = "read" /\ u.stage = "read" => t = u
                     /\ \A t \in tasks' : t.stage = "read" => t.locks = sessionLocks
  BY <1>1, EntryKeeps
<1>3. \A t \in tasks' : t \in tasks \/ t.task = "replace"
  BY <1>1 DEF Enters
<1>4. LocksTypeOK'
  BY <1>1, <1>2 DEF LocksInv, LocksTypeOK
<1>5. RemovedAreSilent'
  BY <1>1, <1>3 DEF LocksInv, RemovedAreSilent
<1>6. InTurn'
  BY <1>1, <1>2, <1>3 DEF LocksInv, InTurn
<1> QED BY <1>2, <1>4, <1>5, <1>6 DEF LocksInv

\* A panel that closes keeps the invariant.
LEMMA ClosesSidepanelKeeps ==
  ASSUME LocksInv, NEW w \in LockWindows, ClosesSidepanel(w)
  PROVE  LocksInv'
<1>1. /\ Enters("close", w, NoSession, Unheard(w)) /\ w \notin removed
      /\ sessionLocks' = sessionLocks /\ crossed' = crossed
      /\ shown' = [shown EXCEPT ![w] = NoWindow] /\ removed' = removed
  BY DEF ClosesSidepanel
<1>2. /\ tasks' \subseteq Tasks /\ lockTasks' \in Nat
      /\ \A t \in tasks' : t.task \in {"acquire", "replace"} => t.session \in LockSessions
      /\ TablesFair' /\ TasksOrdered' /\ NewSessionsFree'
      /\ ~crossed => /\ \A t, u \in tasks' : t.stage = "read" /\ u.stage = "read" => t = u
                     /\ \A t \in tasks' : t.stage = "read" => t.locks = sessionLocks
  BY <1>1, EntryKeeps
<1>3. LocksTypeOK
  BY DEF LocksInv
<1>4. \A u \in tasks' : (u.task = "close" /\ u.window = w) \/ \E t \in tasks :
        /\ u.task = t.task /\ u.window = t.window
        /\ u.heard => t.heard
        /\ u.task = "acquire" /\ u.window = w => ~u.heard
        /\ u.window # w => u = t
  BY <1>1, <1>3, OthersKept DEF Enters
<1>5. LocksTypeOK'
  BY <1>1, <1>2, <1>3 DEF LocksTypeOK
<1>6. shown'[w] = NoWindow /\ \A v \in LockWindows \ {w} : shown'[v] = shown[v]
  BY <1>1, <1>3 DEF LocksTypeOK
<1>7. \A u \in tasks' : u.window \in LockWindows
  BY <1>2 DEF Tasks
<1>8. RemovedAreSilent'
  <2>1. \A v \in removed' : shown'[v] = NoWindow
    BY <1>1, <1>3, <1>6 DEF LocksInv, LocksTypeOK, RemovedAreSilent
  <2>2. \A u \in tasks' : u.task = "acquire" /\ u.window \in removed' => ~u.heard
    BY <1>1, <1>4 DEF LocksInv, RemovedAreSilent
  <2>3. ASSUME NEW u \in tasks', u.task = "release" PROVE u.window \in removed'
    <3>1. CASE \E t \in tasks : u.task = t.task /\ u.window = t.window
      BY <1>1, <2>3, <3>1 DEF LocksInv, RemovedAreSilent
    <3>2. CASE u.task = "close" /\ u.window = w
      BY <1>1, <2>3, <3>2
    <3> QED BY <1>4, <3>1, <3>2
  <2> QED BY <2>1, <2>2, <2>3 DEF RemovedAreSilent
<1>9. InTurn'
  BY <1>1, <1>2, <1>4, <1>6, <1>7 DEF LocksInv, InTurn
<1> QED BY <1>2, <1>5, <1>8, <1>9 DEF LocksInv

\* A window that is removed keeps the invariant.
LEMMA RemovesWindowKeeps ==
  ASSUME LocksInv, NEW w \in LockWindows, RemovesWindow(w)
  PROVE  LocksInv'
<1>1. /\ Enters("release", w, NoSession, Unheard(w)) /\ w \notin removed
      /\ sessionLocks' = sessionLocks /\ crossed' = crossed
      /\ shown' = [shown EXCEPT ![w] = NoWindow] /\ removed' = removed \cup {w}
  BY DEF RemovesWindow
<1>2. /\ tasks' \subseteq Tasks /\ lockTasks' \in Nat
      /\ \A t \in tasks' : t.task \in {"acquire", "replace"} => t.session \in LockSessions
      /\ TablesFair' /\ TasksOrdered' /\ NewSessionsFree'
      /\ ~crossed => /\ \A t, u \in tasks' : t.stage = "read" /\ u.stage = "read" => t = u
                     /\ \A t \in tasks' : t.stage = "read" => t.locks = sessionLocks
  BY <1>1, EntryKeeps
<1>3. LocksTypeOK
  BY DEF LocksInv
<1>4. \A u \in tasks' : (u.task = "release" /\ u.window = w) \/ \E t \in tasks :
        /\ u.task = t.task /\ u.window = t.window
        /\ u.heard => t.heard
        /\ u.task = "acquire" /\ u.window = w => ~u.heard
        /\ u.window # w => u = t
  BY <1>1, <1>3, OthersKept DEF Enters
<1>5. LocksTypeOK'
  BY <1>1, <1>2, <1>3 DEF LocksTypeOK
<1>6. shown'[w] = NoWindow /\ \A v \in LockWindows \ {w} : shown'[v] = shown[v]
  BY <1>1, <1>3 DEF LocksTypeOK
<1>7. \A u \in tasks' : u.window \in LockWindows
  BY <1>2 DEF Tasks
<1>8. RemovedAreSilent'
  <2>1. \A v \in removed' : shown'[v] = NoWindow
    BY <1>1, <1>3, <1>6 DEF LocksInv, LocksTypeOK, RemovedAreSilent
  <2>2. \A u \in tasks' : u.task = "acquire" /\ u.window \in removed' => ~u.heard
    BY <1>1, <1>4 DEF LocksInv, RemovedAreSilent
  <2>3. ASSUME NEW u \in tasks', u.task = "release" PROVE u.window \in removed'
    <3>1. CASE \E t \in tasks : u.task = t.task /\ u.window = t.window
      BY <1>1, <2>3, <3>1 DEF LocksInv, RemovedAreSilent
    <3>2. CASE u.task = "release" /\ u.window = w
      BY <1>1, <2>3, <3>2
    <3> QED BY <1>4, <3>1, <3>2
  <2> QED BY <2>1, <2>2, <2>3 DEF RemovedAreSilent
<1>9. InTurn'
  BY <1>1, <1>2, <1>4, <1>6, <1>7 DEF LocksInv, InTurn
<1> QED BY <1>2, <1>5, <1>8, <1>9 DEF LocksInv

\* A task that reads the table keeps the invariant.
LEMMA ReadsKeeps ==
  ASSUME LocksInv, ReadsLocks
  PROVE  LocksInv'
<1>1. PICK t \in tasks :
        /\ t.stage = "reading" /\ \A u \in tasks : u.stage = "reading" => t.id <= u.id
        /\ tasks' = (tasks \ {t}) \cup {[t EXCEPT !.stage = "read", !.locks = sessionLocks]}
        /\ crossed' = (crossed \/ \E u \in tasks : u.stage = "read")
        /\ UNCHANGED <<sessionLocks, lockTasks, shown, removed>>
  BY DEF ReadsLocks
<1> DEFINE r == [t EXCEPT !.stage = "read", !.locks = sessionLocks]
<1>2. LocksTypeOK /\ t \in Tasks
  BY DEF LocksInv, LocksTypeOK
<1>3. /\ r \in Tasks /\ r.id = t.id /\ r.task = t.task /\ r.window = t.window
      /\ r.session = t.session /\ r.heard = t.heard /\ r.stage = "read" /\ r.locks = sessionLocks
  BY <1>2 DEF Tasks, LocksTypeOK
<1> HIDE DEF r
<1>4. tasks' = (tasks \ {t}) \cup {r}
  BY <1>1 DEF r
<1>5. LocksTypeOK'
  BY <1>1, <1>2, <1>3, <1>4 DEF LocksTypeOK
<1>6. TablesFair'
  BY <1>1, <1>3, <1>4 DEF LocksInv, TablesFair, Fair
<1>7. TasksOrdered'
  <2>1. \A u \in tasks : u.id \in Nat
    BY <1>2 DEF LocksTypeOK, Tasks
  <2> QED BY <1>1, <1>3, <1>4, <2>1 DEF LocksInv, TasksOrdered
<1>8. NewSessionsFree'
  BY <1>1, <1>3, <1>4 DEF LocksInv, NewSessionsFree
<1>9. RemovedAreSilent'
  BY <1>1, <1>3, <1>4 DEF LocksInv, RemovedAreSilent
<1>10. InTurn'
  <2>1. ~crossed' => ~crossed /\ \A u \in tasks : u.stage # "read"
    BY <1>1
  <2>2. ~crossed' => \A u \in tasks' : u.stage = "read" => u = r
    BY <1>4, <2>1
  <2>3. ~crossed' => \A u \in tasks' : u.task = "acquire" /\ ~u.heard => shown[u.window] = NoWindow
    BY <1>3, <1>4, <2>1 DEF LocksInv, InTurn
  <2>4. ~crossed' => \A u \in tasks' : u.stage = "read" => u.locks = sessionLocks'
    BY <1>1, <1>3, <2>2
  <2> QED BY <1>1, <2>1, <2>2, <2>3, <2>4 DEF LocksInv, InTurn
<1> QED BY <1>5, <1>6, <1>7, <1>8, <1>9, <1>10 DEF LocksInv

\* A task that writes the table keeps the invariant.
LEMMA WritesKeeps ==
  ASSUME LocksInv, WritesLocks
  PROVE  LocksInv'
<1>1. PICK t \in tasks :
        /\ t.stage = "read" /\ tasks' = tasks \ {t}
        /\ \/ /\ t.task = "acquire"
              /\ \/ /\ t.locks[t.session] \in {NoWindow, t.window}
                    /\ sessionLocks' = Takes(t.locks, t.session, t.window)
                    /\ shown' = IF t.heard THEN [shown EXCEPT ![t.window] = t.session] ELSE shown
                 \/ UNCHANGED <<sessionLocks, shown>>
           \/ t.task = "close" /\ sessionLocks' = t.locks /\ UNCHANGED shown
           \/ t.task = "release" /\ sessionLocks' = Without(t.locks, t.window) /\ UNCHANGED shown
           \/ /\ t.task = "replace"
              /\ sessionLocks' = Takes(t.locks, t.session, t.window)
              /\ shown' = [shown EXCEPT ![t.window] = NoWindow]
        /\ UNCHANGED <<lockTasks, removed, crossed>>
  <2>1. \A locks, s, w : BuildLockResult(locks, s, w).success => 
          /\ locks[s] \in {NoWindow, w}
          /\ BuildLockResult(locks, s, w).nextLocks = Takes(locks, s, w)
    BY DEF BuildLockResult
  <2> QED BY <2>1 DEF WritesLocks
<1> DEFINE w == t.window
           s == t.session
<1>2. LocksTypeOK /\ t \in Tasks /\ w \in LockWindows /\ t.locks \in Tables /\ Fair(t.locks)
  BY DEF LocksInv, LocksTypeOK, Tasks, TablesFair
<1>3. t.task \in {"acquire", "replace"} => s \in LockSessions
  BY <1>2 DEF LocksTypeOK
<1>4. /\ Without(t.locks, w) \in Tables /\ Fair(Without(t.locks, w))
      /\ \A r \in LockSessions : Takes(t.locks, r, w) \in Tables /\ Fair(Takes(t.locks, r, w))
  BY <1>2, TablesStayFair
<1>5. sessionLocks' \in Tables /\ Fair(sessionLocks')
  BY <1>1, <1>2, <1>3, <1>4 DEF LocksInv, LocksTypeOK, TablesFair
<1>6. /\ shown' \in [LockWindows -> LockSessions \cup {NoWindow}]
      /\ \A v \in LockWindows \ {w} : shown'[v] = shown[v]
      /\ \/ shown'[w] = shown[w]
         \/ shown'[w] = NoWindow
         \/ t.task = "acquire" /\ t.heard /\ shown'[w] = s
  BY <1>1, <1>2, <1>3 DEF LocksTypeOK
<1>7. LocksTypeOK'
  BY <1>1, <1>2, <1>5, <1>6 DEF LocksTypeOK
<1>8. TablesFair'
  <2>1. Fair(sessionLocks)'
    BY <1>5 DEF Fair
  <2>2. \A u \in tasks' : Fair(u.locks)'
    BY <1>1 DEF LocksInv, TablesFair, Fair
  <2> QED BY <2>1, <2>2 DEF TablesFair
<1>9. TasksOrdered'
  BY <1>1 DEF LocksInv, TasksOrdered
<1>10. NewSessionsFree'
  <2> SUFFICES ASSUME NEW n \in tasks', n.task = "replace"
               PROVE  sessionLocks'[n.session] = NoWindow
    BY <1>1 DEF LocksInv, NewSessionsFree
  <2>1. n.session \in LockSessions /\ t.locks[n.session] = NoWindow /\ sessionLocks[n.session] = NoWindow
    BY <1>1, <1>2 DEF LocksInv, LocksTypeOK, NewSessionsFree
  <2>2. t.task \in {"acquire", "replace"} => s # n.session
    BY <1>1 DEF LocksInv, NewSessionsFree
  <2>3. Without(t.locks, w)[n.session] = NoWindow
    BY <2>1 DEF Without
  <2>4. \A r \in LockSessions : r # n.session => Takes(t.locks, r, w)[n.session] = NoWindow
    BY <2>1, <2>3 DEF Takes, Without
  <2> QED BY <1>1, <1>3, <2>1, <2>2, <2>3, <2>4
<1>11. RemovedAreSilent'
  <2>1. t.task = "acquire" /\ t.heard => w \notin removed
    BY DEF LocksInv, RemovedAreSilent
  <2> QED BY <1>1, <1>2, <1>6, <2>1 DEF LocksInv, LocksTypeOK, RemovedAreSilent
<1>12. InTurn'
  <2> SUFFICES ASSUME ~crossed'
               PROVE  /\ \A u, v \in tasks' : u.stage = "read" /\ v.stage = "read" => u = v
                      /\ \A u \in tasks' : u.stage = "read" => u.locks = sessionLocks'
                      /\ \A v \in LockWindows : shown'[v] # NoWindow => sessionLocks'[shown'[v]] = v
                      /\ \A u \in tasks' : u.task = "acquire" /\ ~u.heard => shown'[u.window] = NoWindow
    BY DEF InTurn
  <2>1. /\ t.locks = sessionLocks /\ \A u \in tasks' : u.stage # "read"
        /\ \A v \in LockWindows : shown[v] # NoWindow => sessionLocks[shown[v]] = v
        /\ \A u \in tasks : u.task = "acquire" /\ ~u.heard => shown[u.window] = NoWindow
    BY <1>1 DEF LocksInv, InTurn
  <2>2. \A r \in LockSessions : sessionLocks[r] # w => Without(sessionLocks, w)[r] = sessionLocks[r]
    BY DEF Without
  <2>3. ASSUME NEW v \in LockWindows \ {w}, shown'[v] # NoWindow
        PROVE  sessionLocks'[shown'[v]] = v
    <3>1. shown[v] \in LockSessions /\ shown'[v] = shown[v] /\ sessionLocks[shown[v]] = v
      BY <1>2, <1>6, <2>1, <2>3 DEF LocksTypeOK
    <3>2. Without(sessionLocks, w)[shown[v]] = v
      BY <2>2, <3>1
    <3>3. t.task = "replace" => sessionLocks[s] = NoWindow
      BY DEF LocksInv, NewSessionsFree
    <3>4. \A r \in LockSessions : sessionLocks[r] # v => Takes(sessionLocks, r, w)[shown[v]] = v
      BY <3>1, <3>2 DEF Takes, Without
    <3>5. v # NoWindow
      BY LocksAssumption
    <3> QED BY <1>1, <1>3, <2>1, <3>1, <3>2, <3>3, <3>4, <3>5
  <2>4. shown'[w] # NoWindow => sessionLocks'[shown'[w]] = w
    <3>1. \A r \in LockSessions : Takes(sessionLocks, r, w)[r] = w
      BY DEF Takes, Without
    <3>2. CASE t.task = "acquire" /\ t.heard
      BY <1>1, <1>2, <1>3, <2>1, <3>1, <3>2 DEF LocksTypeOK
    <3>3. CASE t.task = "acquire" /\ ~t.heard
      BY <1>1, <1>2, <2>1, <3>3
    <3>4. CASE t.task = "close"
      BY <1>1, <1>2, <2>1, <3>4
    <3>5. CASE t.task = "release"
      BY <1>1, <3>5 DEF LocksInv, RemovedAreSilent
    <3>6. CASE t.task = "replace"
      BY <1>1, <1>2, <3>6 DEF LocksTypeOK
    <3> QED BY <1>2, <3>2, <3>3, <3>4, <3>5, <3>6 DEF Tasks
  <2>5. ASSUME NEW u \in tasks', u.task = "acquire", ~u.heard
        PROVE  shown'[u.window] = NoWindow
    <3>1. u \in tasks /\ u.stage = "reading" /\ u.id \in Nat /\ t.id \in Nat /\ u.window \in LockWindows
      BY <1>1, <1>2, <2>1 DEF LocksTypeOK, Tasks
    <3>2. t.id <= u.id
      BY <1>1, <3>1 DEF LocksInv, TasksOrdered
    <3>3. t.task = "acquire" /\ t.heard => u.window # w
      BY <2>5, <3>1, <3>2 DEF LocksInv, TasksOrdered
    <3> QED BY <1>6, <2>1, <2>5, <3>1, <3>3
  <2> QED BY <2>1, <2>3, <2>4, <2>5
<1> QED BY <1>7, <1>8, <1>9, <1>10, <1>11, <1>12 DEF LocksInv

-----------------------------------------------------------------------------
(* Theorems *)

\* The types, the order of the tasks and the tables of the locks.
THEOREM LocksInvariant == LocksSpec => []LocksInv
<1>1. LocksInit => LocksInv
  <2> SUFFICES ASSUME LocksInit PROVE LocksInv
    OBVIOUS
  <2>1. sessionLocks \in Tables /\ shown \in [LockWindows -> LockSessions \cup {NoWindow}]
    BY DEF LocksInit, Tables
  <2>2. LocksTypeOK
    BY <2>1 DEF LocksInit, LocksTypeOK
  <2>3. TablesFair /\ TasksOrdered /\ NewSessionsFree /\ RemovedAreSilent
    BY DEF LocksInit, TablesFair, Fair, TasksOrdered, NewSessionsFree, RemovedAreSilent
  <2>4. InTurn
    BY DEF LocksInit, InTurn
  <2> QED BY <2>2, <2>3, <2>4 DEF LocksInv
<1>2. LocksInv /\ [LocksNext]_locksVars => LocksInv'
  <2> SUFFICES ASSUME LocksInv, [LocksNext]_locksVars PROVE LocksInv'
    OBVIOUS
  <2>1. CASE UNCHANGED locksVars
    BY <2>1 DEF locksVars, LocksInv, LocksTypeOK, TablesFair, Fair, TasksOrdered, NewSessionsFree,
      RemovedAreSilent, InTurn
  <2>2. ASSUME NEW w \in LockWindows, NEW s \in LockSessions, AcquiresLock(w, s) PROVE LocksInv'
    BY <2>2, AcquiresKeeps
  <2>3. ASSUME NEW w \in LockWindows, NEW s \in LockSessions, ReplacesSessionLock(w, s) PROVE LocksInv'
    BY <2>3, ReplacesKeeps
  <2>4. ASSUME NEW w \in LockWindows, ClosesSidepanel(w) PROVE LocksInv'
    BY <2>4, ClosesSidepanelKeeps
  <2>5. ASSUME NEW w \in LockWindows, RemovesWindow(w) PROVE LocksInv'
    BY <2>5, RemovesWindowKeeps
  <2>6. CASE ReadsLocks
    BY <2>6, ReadsKeeps
  <2>7. CASE WritesLocks
    BY <2>7, WritesKeeps
  <2> QED BY <2>1, <2>2, <2>3, <2>4, <2>5, <2>6, <2>7 DEF LocksNext
<1> QED BY <1>1, <1>2, PTL DEF LocksSpec

\* A session is shown in one window, which has its lock, as long as no task of the worker
\* read the table between another's read and its write.
THEOREM OneWindowInTurn == LocksSpec => []LocksHoldInTurn
<1>1. LocksInv => LocksHoldInTurn
  BY DEF LocksInv, InTurn, LocksHoldInTurn, OneWindowPerSession
<1> QED BY <1>1, LocksInvariant, PTL

\* Even when they did, no write gives a window two sessions.
THEOREM NoWindowHasTwo == LocksSpec => []OneLockPerWindow
<1>1. LocksInv => OneLockPerWindow
  BY DEF LocksInv, TablesFair, Fair, OneLockPerWindow
<1> QED BY <1>1, LocksInvariant, PTL

-----------------------------------------------------------------------------
(* The start of the bridge *)

Holding == {"holding", "checking", "rechecking", "starting"}
StarterPhases == Holding \cup {"idle", "probing", "competing", "returned", "failed", "ended"}

StartTypeOK ==
  /\ starter \in [Starters -> [phase : StarterPhases, token : Nat]]
  /\ startLock \in Nat /\ fileToken \in Nat
  /\ bridge \in [Bridges -> [phase : {"none", "starting", "listening", "ended"}, token : Nat]]
  /\ byHand \in BOOLEAN

\* The command between acquireStartLock and its release is the one the lock file names,
\* so there is one; it goes on from the token that it found or made there.  That token
\* never changes, and every bridge has it.
StartInv ==
  /\ StartTypeOK
  /\ \A c \in Starters : starter[c].phase \in Holding => startLock = c
  /\ ~byHand =>
       /\ \A c \in Starters : starter[c].token \in {NoToken, fileToken}
       /\ \A c \in Starters : starter[c].phase = "checking" => starter[c].token = fileToken
       /\ \A c \in Starters :
            starter[c].phase \in {"rechecking", "starting"} => starter[c].token = fileToken /\ fileToken # NoToken
       /\ \A b \in Bridges : bridge[b].phase # "none" => bridge[b].token = fileToken /\ fileToken # NoToken

\* A command becomes something with a token it may have.
LEMMA StarterMoves ==
  ASSUME StartInv, NEW c \in Starters, NEW phase \in StarterPhases, NEW token \in Nat, Becomes(c, phase, token),
         bridge' = bridge, byHand' = byHand, fileToken' = fileToken,
         startLock' \in Nat, startLock' = startLock \/ starter[c].phase \in Holding \/ startLock = NoOne,
         phase \in Holding => startLock' = c,
         ~byHand => token \in {NoToken, fileToken},
         ~byHand /\ phase \in {"checking", "rechecking", "starting"} => token = fileToken,
         ~byHand /\ phase \in {"rechecking", "starting"} => fileToken # NoToken
  PROVE  StartInv'
<1>1. starter' = [starter EXCEPT ![c] = [phase |-> phase, token |-> token]]
  BY DEF Becomes
<1>2. starter' \in [Starters -> [phase : StarterPhases, token : Nat]]
  BY <1>1 DEF StartInv, StartTypeOK
<1>3. starter'[c].phase = phase /\ starter'[c].token = token /\ \A k \in Starters \ {c} : starter'[k] = starter[k]
  BY <1>1 DEF StartInv, StartTypeOK
<1>4. c # NoOne
  BY DEF Starters, NoOne
<1>5. \A k \in Starters : starter'[k].phase \in Holding => startLock' = k
  <2> SUFFICES ASSUME NEW k \in Starters, k # c, starter[k].phase \in Holding PROVE startLock' = k
    BY <1>3
  <2>1. startLock = k /\ k # NoOne BY DEF StartInv, Starters, NoOne
  <2>2. starter[c].phase \notin Holding BY <2>1 DEF StartInv
  <2> QED BY <2>1, <2>2
<1> QED BY <1>2, <1>3, <1>5 DEF StartInv, StartTypeOK

\* Every step of a command, a bridge or a user keeps it (ensureBridgeServer, acquireStartLock).
LEMMA StartKept ==
  ASSUME StartInv, [StartNext]_startVars
  PROVE  StartInv'
<1>0. /\ starter \in [Starters -> [phase : StarterPhases, token : Nat]]
      /\ startLock \in Nat /\ fileToken \in Nat
      /\ \A c \in Starters : starter[c].phase \in StarterPhases /\ starter[c].token \in Nat /\ c \in Nat
      /\ bridge \in [Bridges -> [phase : {"none", "starting", "listening", "ended"}, token : Nat]]
  BY StartAssumption DEF StartInv, StartTypeOK, Starters
<1>1. ASSUME NEW token \in Nat, NewBridge(token), UNCHANGED <<starter, startLock, fileToken, byHand>>,
             ~byHand => token = fileToken /\ fileToken # NoToken
      PROVE  StartInv'
  <2>1. PICK b \in Bridges : bridge' = [bridge EXCEPT ![b] = [phase |-> "starting", token |-> token]]
    BY <1>1 DEF NewBridge
  <2>2. bridge' \in [Bridges -> [phase : {"none", "starting", "listening", "ended"}, token : Nat]]
    BY <1>0, <2>1
  <2>3. bridge'[b].token = token /\ \A k \in Bridges \ {b} : bridge'[k] = bridge[k]
    BY <1>0, <2>1
  <2> QED BY <1>1, <2>2, <2>3 DEF StartInv, StartTypeOK
<1>2. ASSUME NEW b \in Bridges, NEW phase \in {"starting", "listening", "ended"}, bridge[b].phase # "none",
             bridge' = [bridge EXCEPT ![b].phase = phase], UNCHANGED <<starter, startLock, fileToken, byHand>>
      PROVE  StartInv'
  <2>1. bridge' \in [Bridges -> [phase : {"none", "starting", "listening", "ended"}, token : Nat]]
    BY <1>0, <1>2
  <2>2. \A k \in Bridges : bridge'[k].token = bridge[k].token /\ (bridge'[k].phase # "none" => bridge[k].phase # "none")
    BY <1>0, <1>2
  <2> QED BY <1>2, <2>1, <2>2 DEF StartInv, StartTypeOK
<1>3. ASSUME NEW c \in Starters, Looks(c) \/ Probes(c) \/ Competes(c) \/ Resolves(c) \/ Waits(c) \/ StarterKilled(c)
      PROVE  StartInv'
  <2>1. CASE Looks(c)
    BY <1>0, <2>1, StarterMoves DEF Looks, StarterPhases, Holding
  <2>2. CASE Probes(c)
    BY <1>0, <2>2, StarterMoves DEF Probes, StarterPhases, Holding, NoOne, StartInv
  <2>3. CASE Competes(c)
    BY <1>0, <2>3, StarterMoves DEF Competes, StarterPhases, Holding, StartInv
  <2>4. CASE Resolves(c)
    BY <1>0, <2>4, StarterMoves DEF Resolves, StarterPhases, Holding, StartInv
  <2>5. CASE Waits(c)
    BY <1>0, <2>5, StarterMoves DEF Waits, Leaves, StarterPhases, Holding, NoOne, StartInv
  <2>6. CASE StarterKilled(c)
    BY <1>0, <2>6, StarterMoves DEF StarterKilled, Mishap, StarterPhases, Holding, NoToken
  <2> QED BY <1>3, <2>1, <2>2, <2>3, <2>4, <2>5, <2>6
\* The command that holds the lock makes the token, if there is none.
<1>4. ASSUME NEW c \in Starters, Checks(c) PROVE StartInv'
  <2>1. starter[c].phase = "checking" /\ starter[c].phase \in Holding /\ startLock = c /\ UNCHANGED <<bridge, byHand>>
    BY <1>4 DEF Checks, Holding, StartInv
  <2>2. CASE Healthy
    BY <1>0, <1>4, <2>1, <2>2, StarterMoves DEF Checks, Leaves, StarterPhases, Holding, NoOne, StartInv
  <2>3. CASE ~Healthy /\ starter[c].token # NoToken
    BY <1>0, <1>4, <2>1, <2>3, StarterMoves DEF Checks, StarterPhases, Holding, StartInv
  <2>4. CASE ~Healthy /\ starter[c].token = NoToken
    <3>1. fileToken' = c /\ startLock' = startLock /\ starter' = [starter EXCEPT ![c] = [phase |-> "rechecking", token |-> c]]
      BY <1>4, <2>4 DEF Checks, Becomes
    <3>2. starter' \in [Starters -> [phase : StarterPhases, token : Nat]]
      BY <1>0, <3>1 DEF StarterPhases, Holding
    <3>3. starter'[c].phase = "rechecking" /\ starter'[c].token = c /\ \A k \in Starters \ {c} : starter'[k] = starter[k]
      BY <1>0, <3>1
    <3>4. \A k \in Starters : starter'[k].phase \in Holding => startLock' = k
      BY <2>1, <3>1, <3>3 DEF StartInv
    <3>5. c # NoToken
      BY DEF Starters, NoToken
    <3>6. ~byHand => fileToken = NoToken
      BY <2>1, <2>4 DEF StartInv
    <3>7. \A k \in Starters \ {c} : starter[k].phase \notin Holding
      BY <2>1 DEF StartInv
    <3> QED BY <1>0, <2>1, <3>1, <3>2, <3>3, <3>4, <3>5, <3>6, <3>7 DEF StartInv, StartTypeOK, Holding
  <2> QED BY <2>2, <2>3, <2>4
<1>5. ASSUME NEW c \in Starters, Spawns(c) PROVE StartInv'
  <2>1. /\ starter[c].phase = "rechecking" /\ starter[c].phase \in Holding /\ startLock = c
        /\ UNCHANGED <<fileToken, byHand>>
        /\ ~byHand => starter[c].token = fileToken /\ fileToken # NoToken
    BY <1>5 DEF Spawns, Holding, StartInv
  <2>2. CASE \E phase \in {"returned", "failed"} : Leaves(c, phase, starter[c].token) /\ UNCHANGED bridge
    BY <1>0, <2>1, <2>2, StarterMoves DEF Leaves, StarterPhases, Holding, NoOne
  <2>3. CASE NewBridge(starter[c].token) /\ Becomes(c, "starting", starter[c].token) /\ UNCHANGED startLock
    <3>1. PICK b \in Bridges : bridge' = [bridge EXCEPT ![b] = [phase |-> "starting", token |-> starter[c].token]]
      BY <2>3 DEF NewBridge
    <3>2. bridge' \in [Bridges -> [phase : {"none", "starting", "listening", "ended"}, token : Nat]]
      BY <1>0, <3>1
    <3>3. bridge'[b].token = starter[c].token /\ \A k \in Bridges \ {b} : bridge'[k] = bridge[k]
      BY <1>0, <3>1
    <3>4. starter' = [starter EXCEPT ![c] = [phase |-> "starting", token |-> starter[c].token]]
      BY <2>3 DEF Becomes
    <3>5. starter' \in [Starters -> [phase : StarterPhases, token : Nat]]
      BY <1>0, <3>4 DEF StarterPhases, Holding
    <3>6. /\ starter'[c].phase = "starting" /\ starter'[c].token = starter[c].token
          /\ \A k \in Starters \ {c} : starter'[k] = starter[k]
      BY <1>0, <3>4
    <3> QED BY <2>1, <2>3, <3>2, <3>3, <3>5, <3>6 DEF StartInv, StartTypeOK, Holding
  <2> QED BY <1>5, <2>2, <2>3 DEF Spawns
<1>6. ASSUME NEW b \in Bridges, Listens(b) \/ BridgeEnds(b) PROVE StartInv'
  BY <1>2, <1>6 DEF Listens, BridgeEnds, Mishap
<1>7. ASSUME ServesByHand PROVE StartInv'
  <2>1. fileToken' \in Nat /\ byHand' /\ UNCHANGED <<starter, startLock>> /\ NewBridge(fileToken')
    BY <1>0, <1>7, StartAssumption DEF ServesByHand, ByHand
  <2>2. PICK b \in Bridges : bridge' = [bridge EXCEPT ![b] = [phase |-> "starting", token |-> fileToken']]
    BY <2>1 DEF NewBridge
  <2>3. bridge' \in [Bridges -> [phase : {"none", "starting", "listening", "ended"}, token : Nat]]
    BY <1>0, <2>1, <2>2
  <2>4. byHand' = TRUE BY <1>7 DEF ServesByHand
  <2> QED BY <2>1, <2>3, <2>4 DEF StartInv, StartTypeOK
<1>8. ASSUME LockRemoved PROVE StartInv'
  <2>1. \A c \in Starters : starter[c].phase \notin Holding
    BY <1>8 DEF LockRemoved, StartInv, Holding
  <2> QED BY <1>8, <2>1 DEF LockRemoved, StartInv, StartTypeOK, NoOne
<1>9. CASE UNCHANGED startVars
  BY <1>9 DEF startVars, StartInv, StartTypeOK
<1> QED BY <1>3, <1>4, <1>5, <1>6, <1>7, <1>8, <1>9 DEF StartNext, StartProgress, StarterSteps

\* There is no command and no bridge at first.
LEMMA StartInvStarts == StartInit => StartInv
<1> SUFFICES ASSUME StartInit PROVE StartInv OBVIOUS
<1>1. StartTypeOK
  BY DEF StartInit, StartTypeOK, StarterPhases, Holding, NoOne, NoToken
<1>2. /\ \A c \in Starters : starter[c].phase = "idle" /\ starter[c].token = NoToken
      /\ \A b \in Bridges : bridge[b].phase = "none"
  BY DEF StartInit
<1> QED BY <1>1, <1>2 DEF StartInv, Holding

\* A command that was told a token agrees with the bridge that listens, as long as no
\* bridge was served by hand (ensureBridgeServer, acquireStartLock).
THEOREM StartedConnectionFits == StartSpec => []ConnectionFits
<1>1. StartInv => ConnectionFits
  BY DEF StartInv, ConnectionFits
<1> QED BY <1>1, StartInvStarts, StartKept, PTL DEF StartSpec

\* The lock file names a command that holds the lock, or that ended with it.
HolderFits ==
  startLock # NoOne => startLock \in Starters /\ starter[startLock].phase \in Holding \cup {"ended"}

\* A command that moves takes the lock that is free, keeps its own, lets it go or ends with it.
LEMMA HolderKept ==
  ASSUME StartInv, HolderFits, [StartNext]_startVars
  PROVE  HolderFits'
<1>0. starter \in [Starters -> [phase : StarterPhases, token : Nat]] BY DEF StartInv, StartTypeOK
<1>1. ASSUME UNCHANGED <<starter, startLock>> PROVE HolderFits' BY <1>1 DEF HolderFits
<1>2. ASSUME NEW c \in Starters, NEW phase, NEW token, Becomes(c, phase, token),
             \/ startLock' = NoOne
             \/ startLock' = c /\ phase \in Holding \cup {"ended"}
             \/ startLock' = startLock /\ (startLock = c => phase \in Holding \cup {"ended"})
      PROVE  HolderFits'
  <2>1. starter'[c].phase = phase /\ \A k \in Starters \ {c} : starter'[k] = starter[k] BY <1>0, <1>2 DEF Becomes
  <2> QED BY <1>2, <2>1 DEF HolderFits
<1>3. ASSUME NEW c \in Starters, starter[c].phase \notin Holding \cup {"ended"} PROVE startLock # c
  BY <1>3 DEF HolderFits, Starters, NoOne
<1>4. ASSUME NEW c \in Starters, Looks(c) PROVE HolderFits'
  <2>1. startLock # c BY <1>3, <1>4 DEF Looks, Holding
  <2> QED BY <1>2, <1>4, <2>1 DEF Looks
<1>5. ASSUME NEW c \in Starters, Probes(c) PROVE HolderFits'
  <2>1. startLock # c BY <1>3, <1>5 DEF Probes, Holding
  <2> QED BY <1>2, <1>5, <2>1 DEF Probes, Holding
<1>6. ASSUME NEW c \in Starters, Competes(c) PROVE HolderFits'
  <2>1. startLock # c BY <1>3, <1>6 DEF Competes, Holding
  <2> QED BY <1>2, <1>6, <2>1 DEF Competes
<1>7. ASSUME NEW c \in Starters, Resolves(c) \/ Checks(c) \/ Spawns(c) \/ Waits(c) \/ StarterKilled(c) PROVE HolderFits'
  <2>1. CASE Resolves(c) BY <1>2, <2>1 DEF Resolves, Holding
  <2>2. CASE Checks(c) BY <1>2, <2>2 DEF Checks, Leaves, Holding
  <2>3. CASE Spawns(c) BY <1>2, <2>3 DEF Spawns, Leaves, Holding
  <2>4. CASE Waits(c) BY <1>2, <2>4 DEF Waits, Leaves
  <2>5. CASE StarterKilled(c) BY <1>2, <2>5 DEF StarterKilled
  <2> QED BY <1>7, <2>1, <2>2, <2>3, <2>4, <2>5
<1>8. ASSUME NEW b \in Bridges, Listens(b) \/ BridgeEnds(b) PROVE HolderFits'
  BY <1>1, <1>8 DEF Listens, BridgeEnds
<1>9. CASE ServesByHand BY <1>1, <1>9 DEF ServesByHand
<1>10. CASE LockRemoved BY <1>10 DEF LockRemoved, HolderFits
<1>11. CASE UNCHANGED startVars BY <1>1, <1>11 DEF startVars
<1> QED BY <1>4, <1>5, <1>6, <1>7, <1>8, <1>9, <1>10, <1>11 DEF StartNext, StartProgress, StarterSteps

\* Between acquireStartLock and its release a command's lock file is its own, and a lock file
\* that is nobody's is that of a command that was killed: so StartLockFreed rests on the
\* steps of one command alone.
THEOREM StartLockIsHeld == StartSpec => []LockHasHolder
<1>1. StartInit => StartInv /\ HolderFits
  <2> SUFFICES ASSUME StartInit PROVE StartInv /\ HolderFits OBVIOUS
  <2>1. HolderFits BY DEF StartInit, HolderFits
  <2> QED BY <2>1, StartInvStarts
<1>2. StartInv /\ HolderFits /\ [StartNext]_startVars => (StartInv /\ HolderFits)' BY StartKept, HolderKept
<1>3. StartInv /\ HolderFits => LockHasHolder BY DEF StartInv, HolderFits, LockHasHolder, Holding
<1> QED BY <1>1, <1>2, <1>3, PTL DEF StartSpec

-----------------------------------------------------------------------------
(* Sessions with a desktop app *)

Looking == {"validating", "listing", "revalidating"}

Apps == [generation : Nat, up : BOOLEAN, form : Nat]
Sessions == [stage : {"none", "attached", "detached"}, generation : Nat, form : Nat, launched : BOOLEAN]
Drivers == [step : {"none", "connecting", "opening", "ready", "closing", "over"},
            session : ElectronIds \cup {0}, form : Nat, disposed : BOOLEAN, open : BOOLEAN]
Uses == [kind : {"none", "page", "windows", "status", "attach", "launch"},
         step : Looking \cup {"idle", "verifying", "launching", "waiting"},
         session : ElectronIds \cup {0}, seen : Nat, entry : PageEntries \cup {NoEntry}]

ElectronTypeOK ==
  /\ app \in Apps
  /\ electron \in [ElectronIds -> Sessions]
  /\ pageDrivers \in [ElectronIds -> PageEntries \cup {NoEntry}]
  /\ pageEntry \in [PageEntries -> Drivers]
  /\ use \in [ElectronUses -> Uses]
  /\ late \subseteq ElectronIds

\* What a session has cached is its own, not given up, and for its window as it knows it;
\* the session is there, or was when a command began that is still at it.
CacheFits ==
  \A s \in ElectronIds : pageDrivers[s] # NoEntry =>
    LET e == pageEntry[pageDrivers[s]] IN
    /\ e.session = s /\ ~e.disposed /\ e.step \in {"connecting", "opening", "ready"}
    /\ e.form = electron[s].form /\ e.form # NoForm
    /\ s \in Attached \cup late

ReadyIsCached ==
  \A n \in PageEntries :
    /\ pageEntry[n].step # "none" => pageEntry[n].session \in ElectronIds
    /\ pageEntry[n].step = "ready" => pageDrivers[pageEntry[n].session] = n

\* A command looks at a session that was made, and if it is for the window at one that
\* is attached or was detached under it.
Fits(u) ==
  /\ u.kind = "status" => u.step \in Looking
  /\ u.step = "verifying" => u.kind = "attach"
  /\ u.step \in Looking =>
       /\ u.session \in ElectronIds /\ electron[u.session].stage # "none"
       /\ u.kind = "page" => u.session \in Attached \cup late
LooksFit ==
  /\ \A s \in late : electron[s].stage # "none"
  /\ \A c \in ElectronUses : Fits(use[c])

ElectronInv == ElectronTypeOK /\ CacheFits /\ ReadyIsCached /\ LooksFit

\* Sessions that leave, and what their going does to the drivers.
LEMMA LeavingIs ==
  ASSUME ElectronTypeOK, NEW S \in SUBSET ElectronIds
  PROVE  /\ Leaving(S) \in [ElectronIds -> Sessions]
         /\ \A s \in ElectronIds : /\ Leaving(S)[s].form = electron[s].form
                                   /\ Leaving(S)[s].stage = "none" <=> electron[s].stage = "none"
                                   /\ s \notin S => Leaving(S)[s] = electron[s]
BY DEF Leaving, ElectronTypeOK, Sessions

\* Drivers that are disposed are not ready any more, and the others stay (disposePageDriverEntry).
LEMMA DisposedIs ==
  ASSUME ElectronTypeOK, NEW gone
  PROVE  /\ Disposed(gone) \in [PageEntries -> Drivers]
         /\ \A n \in PageEntries :
              /\ n \notin gone => Disposed(gone)[n] = pageEntry[n]
              /\ Disposed(gone)[n].step = "ready" => n \notin gone /\ pageEntry[n].step = "ready"
              /\ Disposed(gone)[n].session = pageEntry[n].session
              /\ Disposed(gone)[n].step = "none" <=> pageEntry[n].step = "none"
<1> SUFFICES ASSUME NEW n \in PageEntries
             PROVE  LET e == IF n \notin gone THEN pageEntry[n]
                             ELSE [pageEntry[n] EXCEPT !.disposed = TRUE, !.step = IF @ = "ready" THEN "closing" ELSE @]
                    IN  /\ e \in Drivers
                        /\ n \notin gone => e = pageEntry[n]
                        /\ e.step = "ready" => n \notin gone /\ pageEntry[n].step = "ready"
                        /\ e.session = pageEntry[n].session
                        /\ e.step = "none" <=> pageEntry[n].step = "none"
  BY DEF Disposed
<1>1. pageEntry[n] \in Drivers
  BY DEF ElectronTypeOK
<1> QED BY <1>1 DEF Drivers

\* Sessions give their drivers up; the others keep theirs.
LEMMA GivingUp ==
  ASSUME ElectronInv, NEW S \in SUBSET ElectronIds, DisposesDriversOf(S),
         \A s \in ElectronIds \ S : pageDrivers[s] # NoEntry =>
            electron'[s].form = electron[s].form /\ s \in Attached' \cup late'
  PROVE  /\ pageDrivers' \in [ElectronIds -> PageEntries \cup {NoEntry}]
         /\ pageEntry' \in [PageEntries -> Drivers]
         /\ CacheFits' /\ ReadyIsCached'
<1> DEFINE gone == CachedOf(S)
<1>1. ElectronTypeOK /\ CacheFits /\ ReadyIsCached /\ pageEntry' = Disposed(gone) /\ pageDrivers' = Uncached(S)
  BY DEF ElectronInv, DisposesDriversOf
<1>2. pageDrivers \in [ElectronIds -> PageEntries \cup {NoEntry}]
  BY <1>1 DEF ElectronTypeOK
<1>3. pageDrivers' \in [ElectronIds -> PageEntries \cup {NoEntry}]
      /\ \A s \in ElectronIds : pageDrivers'[s] = IF s \in S THEN NoEntry ELSE pageDrivers[s]
  BY <1>1, <1>2 DEF Uncached
<1>4. \A s \in ElectronIds \ S : pageDrivers[s] # NoEntry => pageDrivers[s] \in PageEntries /\ pageDrivers[s] \notin gone
  BY <1>1, <1>2 DEF CachedOf, CacheFits
<1> HIDE DEF gone
<1>5. CacheFits'
  <2> SUFFICES ASSUME NEW s \in ElectronIds, pageDrivers'[s] # NoEntry
               PROVE  LET e == pageEntry'[pageDrivers'[s]] IN
                      /\ e.session = s /\ ~e.disposed /\ e.step \in {"connecting", "opening", "ready"}
                      /\ e.form = electron'[s].form /\ e.form # NoForm
                      /\ s \in Attached' \cup late'
    BY DEF CacheFits
  <2>1. s \notin S /\ pageDrivers'[s] = pageDrivers[s] /\ pageDrivers[s] # NoEntry
    BY <1>3
  <2>2. pageEntry'[pageDrivers[s]] = pageEntry[pageDrivers[s]]
    BY <1>1, <1>4, <2>1, DisposedIs
  <2> QED BY <1>1, <2>1, <2>2 DEF CacheFits
<1>6. ReadyIsCached'
  <2>5. \A n \in PageEntries : pageEntry'[n].step # "none" => pageEntry'[n].session \in ElectronIds
    BY <1>1, DisposedIs DEF ReadyIsCached
  <2> SUFFICES ASSUME NEW n \in PageEntries, pageEntry'[n].step = "ready"
               PROVE  pageDrivers'[pageEntry'[n].session] = n
    BY <2>5 DEF ReadyIsCached
  <2>1. n \notin gone /\ pageEntry[n].step = "ready" /\ pageEntry'[n].session = pageEntry[n].session
    BY <1>1, DisposedIs
  <2>2. pageEntry[n].session \in ElectronIds /\ pageDrivers[pageEntry[n].session] = n
    BY <1>1, <2>1 DEF ReadyIsCached
  <2>3. n # NoEntry BY DEF PageEntries, NoEntry
  <2>4. pageEntry[n].session \notin S BY <2>1, <2>2, <2>3 DEF CachedOf, gone
  <2> QED BY <1>3, <2>1, <2>2, <2>4
<1> QED BY <1>1, <1>3, <1>5, <1>6, DisposedIs

\* The drivers stay as they are.
LEMMA DriversKept ==
  ASSUME ElectronInv, UNCHANGED <<pageDrivers, pageEntry>>,
         \A s \in ElectronIds : pageDrivers[s] # NoEntry =>
            electron'[s].form = electron[s].form /\ s \in Attached' \cup late'
  PROVE  CacheFits' /\ ReadyIsCached'
BY DEF ElectronInv, CacheFits, ReadyIsCached

\* Sessions are given up, by a command that is over (or by none); another that looks
\* at one of them comes late.
LEMMA GivingUpSessions ==
  ASSUME ElectronInv, NEW S \in SUBSET ElectronIds, NEW by, GivesUp(S, by),
         \A s \in S : electron[s].stage # "none",
         \A s \in ElectronIds : electron[s].stage # "none" =>
            /\ electron'[s].stage # "none" /\ electron'[s].form = electron[s].form
            /\ s \in Attached \ S => s \in Attached',
         \A c \in ElectronUses : Fits(use[c])' \/ (use'[c] = use[c] /\ c \notin by)
  PROVE  /\ pageDrivers' \in [ElectronIds -> PageEntries \cup {NoEntry}]
         /\ pageEntry' \in [PageEntries -> Drivers]
         /\ late' \subseteq ElectronIds
         /\ CacheFits' /\ ReadyIsCached' /\ LooksFit'
<1>1. ElectronTypeOK /\ LooksFit /\ CacheFits /\ late \subseteq ElectronIds
  BY DEF ElectronInv, ElectronTypeOK
<1>2. /\ DisposesDriversOf(S)
      /\ late' = late \cup {s \in S : \E c \in ElectronUses \ by : LooksAt(c, s)}
  BY DEF GivesUp
<1>3. \A s \in ElectronIds \ S : s \in Attached \cup late => s \in Attached' \cup late'
  BY <1>2 DEF Attached
<1>4. \A s \in ElectronIds \ S : pageDrivers[s] # NoEntry =>
            electron'[s].form = electron[s].form /\ s \in Attached' \cup late'
  <2>1. \A s \in ElectronIds : pageDrivers[s] # NoEntry => s \in Attached \cup late /\ electron[s].stage # "none"
    BY <1>1 DEF CacheFits, LooksFit, Attached
  <2> QED BY <1>3, <2>1
<1>5. ASSUME NEW c \in ElectronUses, use'[c] = use[c], c \notin by
      PROVE  Fits(use[c])'
  <2>1. Fits(use[c])
    BY <1>1 DEF LooksFit
  <2>2. ASSUME use[c].kind = "page", use[c].session \in S, use[c].step \in Looking PROVE use[c].session \in late'
    <3>1. LooksAt(c, use[c].session) BY <2>2 DEF LooksAt, Looking
    <3> QED BY <1>2, <1>5, <2>2, <3>1
  <2> QED BY <1>3, <1>5, <2>1, <2>2 DEF Fits
<1>6. late' \subseteq ElectronIds /\ \A s \in late' : electron'[s].stage # "none"
  BY <1>1, <1>2 DEF LooksFit
<1>7. \A c \in ElectronUses : Fits(use[c])'
  BY <1>5
<1>8. LooksFit'
  BY <1>6, <1>7 DEF LooksFit
<1> QED BY <1>2, <1>4, <1>6, <1>8, GivingUp

\* A driver goes on by itself; when it leaves the cache, or is disposed, it is not ready.
LEMMA EntryStep ==
  ASSUME ElectronInv, NEW n \in PageEntries,
         NEW e \in Drivers,
         pageEntry' = [pageEntry EXCEPT ![n] = e], e.session = pageEntry[n].session, e.form = pageEntry[n].form,
         UNCHANGED <<electron, late>>, e.step # "none" => pageEntry[n].step # "none",
         \/ /\ pageDrivers' = pageDrivers
            /\ \A s \in ElectronIds : pageDrivers[s] = n => ~e.disposed /\ e.step \in {"connecting", "opening", "ready"}
            /\ e.step = "ready" => pageDrivers[e.session] = n
         \/ /\ pageDrivers' = [s \in ElectronIds |-> IF pageDrivers[s] = n THEN NoEntry ELSE pageDrivers[s]]
            /\ e.step # "ready"
  PROVE  /\ pageDrivers' \in [ElectronIds -> PageEntries \cup {NoEntry}]
         /\ pageEntry' \in [PageEntries -> Drivers]
         /\ CacheFits' /\ ReadyIsCached'
<1>1. ElectronTypeOK /\ CacheFits /\ ReadyIsCached
  BY DEF ElectronInv
<1>2. /\ pageEntry' \in [PageEntries -> Drivers]
      /\ pageEntry'[n] = e /\ \A m \in PageEntries \ {n} : pageEntry'[m] = pageEntry[m]
  BY <1>1 DEF ElectronTypeOK
<1>3. /\ pageDrivers' \in [ElectronIds -> PageEntries \cup {NoEntry}]
      /\ \A s \in ElectronIds : pageDrivers'[s] = pageDrivers[s] \/ (pageDrivers[s] = n /\ pageDrivers'[s] = NoEntry)
  BY <1>1 DEF ElectronTypeOK
<1>4. n # NoEntry /\ pageDrivers \in [ElectronIds -> PageEntries \cup {NoEntry}]
  BY <1>1 DEF PageEntries, NoEntry, ElectronTypeOK
<1>5. CacheFits'
  <2> SUFFICES ASSUME NEW s \in ElectronIds, pageDrivers'[s] # NoEntry
               PROVE  LET f == pageEntry'[pageDrivers'[s]] IN
                      /\ f.session = s /\ ~f.disposed /\ f.step \in {"connecting", "opening", "ready"}
                      /\ f.form = electron[s].form /\ f.form # NoForm
                      /\ s \in Attached \cup late
    BY DEF CacheFits, Attached
  <2>1. pageDrivers'[s] = pageDrivers[s] /\ pageDrivers[s] \in PageEntries
    BY <1>3, <1>4
  <2>2. CASE pageDrivers[s] = n
    <3>1. pageDrivers' = pageDrivers BY <1>4, <2>1, <2>2
    <3>2. ~e.disposed /\ e.step \in {"connecting", "opening", "ready"} BY <1>4, <2>2, <3>1
    <3> QED BY <1>1, <1>2, <1>4, <2>1, <2>2, <3>2 DEF CacheFits
  <2>3. CASE pageDrivers[s] # n BY <1>1, <1>2, <2>1, <2>3 DEF CacheFits
  <2> QED BY <2>2, <2>3
<1>6. ReadyIsCached'
  <2>3. \A m \in PageEntries : pageEntry'[m].step # "none" => pageEntry'[m].session \in ElectronIds
    BY <1>1, <1>2 DEF ReadyIsCached
  <2> SUFFICES ASSUME NEW m \in PageEntries, pageEntry'[m].step = "ready"
               PROVE  pageDrivers'[pageEntry'[m].session] = m
    BY <2>3 DEF ReadyIsCached
  <2>1. CASE m = n
    <3>1. pageEntry'[m] = e /\ e.step = "ready" BY <1>2, <2>1
    <3>2. pageDrivers' = pageDrivers /\ pageDrivers[e.session] = n BY <3>1
    <3> QED BY <2>1, <3>1, <3>2
  <2>2. CASE m # n
    <3>1. pageEntry'[m] = pageEntry[m] BY <1>2, <2>2
    <3>2. pageEntry[m].session \in ElectronIds /\ pageDrivers[pageEntry[m].session] = m BY <1>1, <3>1 DEF ReadyIsCached
    <3> QED BY <1>3, <2>2, <3>1, <3>2
  <2> QED BY <2>1, <2>2
<1> QED BY <1>2, <1>3, <1>5, <1>6

\* A driver connects, opens, fails or closes (the page driver of a session).
LEMMA DriversFit ==
  ASSUME ElectronInv, NEW n \in PageEntries, DriverSteps(n)
  PROVE  ElectronInv'
<1>1. /\ ElectronTypeOK /\ CacheFits /\ ReadyIsCached /\ LooksFit /\ n # NoEntry
      /\ pageEntry[n] \in Drivers /\ pageEntry \in [PageEntries -> Drivers]
      /\ pageDrivers \in [ElectronIds -> PageEntries \cup {NoEntry}]
  BY DEF ElectronInv, ElectronTypeOK, PageEntries, NoEntry
<1>2. UNCHANGED <<app, electron, use, late>>
  BY DEF DriverSteps, appVars
<1>3. ASSUME NEW e \in Drivers, pageEntry' = [pageEntry EXCEPT ![n] = e],
             e.session = pageEntry[n].session, e.form = pageEntry[n].form,
             e.step # "none" => pageEntry[n].step # "none",
             \/ /\ pageDrivers' = pageDrivers
                /\ \A s \in ElectronIds : pageDrivers[s] = n => ~e.disposed /\ e.step \in {"connecting", "opening", "ready"}
                /\ e.step = "ready" => pageDrivers[e.session] = n
             \/ /\ pageDrivers' = [s \in ElectronIds |-> IF pageDrivers[s] = n THEN NoEntry ELSE pageDrivers[s]]
                /\ e.step # "ready"
      PROVE  ElectronInv'
  <2>1. /\ pageDrivers' \in [ElectronIds -> PageEntries \cup {NoEntry}] /\ pageEntry' \in [PageEntries -> Drivers]
        /\ CacheFits' /\ ReadyIsCached'
    BY <1>2, <1>3, EntryStep
  <2>2. LooksFit'
    BY <1>1, <1>2 DEF LooksFit, Fits, Attached
  <2> QED BY <1>1, <1>2, <2>1, <2>2 DEF ElectronInv, ElectronTypeOK
<1>4. \A s \in ElectronIds : pageDrivers[s] = n =>
        pageEntry[n].session = s /\ ~pageEntry[n].disposed /\ pageEntry[n].step \in {"connecting", "opening", "ready"}
  BY <1>1 DEF CacheFits
<1>5. ASSUME EntryFails(n), pageEntry[n].step # "none" PROVE ElectronInv'
  <2> DEFINE e == [pageEntry[n] EXCEPT !.step = "over", !.open = FALSE]
  <2>1. e \in Drivers /\ e.session = pageEntry[n].session /\ e.form = pageEntry[n].form /\ e.step = "over"
    BY <1>1 DEF Drivers
  <2>2. pageEntry' = [pageEntry EXCEPT ![n] = e]
    BY <1>1, <1>5 DEF EntryFails
  <2> QED BY <1>3, <1>5, <2>1, <2>2 DEF EntryFails
<1>6. CASE Connects(n)
  <2>1. CASE EntryFails(n) BY <1>5, <1>6, <2>1 DEF Connects
  <2>2. CASE pageEntry' = [pageEntry EXCEPT ![n].step = "opening", ![n].open = TRUE] /\ UNCHANGED pageDrivers
    <3> DEFINE e == [pageEntry[n] EXCEPT !.step = "opening", !.open = TRUE]
    <3>1. e \in Drivers /\ e.session = pageEntry[n].session /\ e.form = pageEntry[n].form /\ e.step = "opening"
          /\ e.disposed = pageEntry[n].disposed
      BY <1>1 DEF Drivers
    <3>2. pageEntry' = [pageEntry EXCEPT ![n] = e] BY <1>1, <2>2
    <3> HIDE DEF e
    <3> QED BY <1>3, <1>4, <1>6, <2>2, <3>1, <3>2 DEF Connects
  <2> QED BY <1>6, <2>1, <2>2 DEF Connects
<1>7. CASE Readies(n)
  <2>1. CASE EntryFails(n) BY <1>5, <1>7, <2>1 DEF Readies
  <2>2. CASE /\ ~pageEntry[n].disposed /\ pageDrivers[pageEntry[n].session] = n
             /\ pageEntry' = [pageEntry EXCEPT ![n].step = "ready"] /\ UNCHANGED pageDrivers
    <3> DEFINE e == [pageEntry[n] EXCEPT !.step = "ready"]
    <3>1. e \in Drivers /\ e.session = pageEntry[n].session /\ e.form = pageEntry[n].form /\ e.step = "ready"
          /\ e.disposed = pageEntry[n].disposed
      BY <1>1 DEF Drivers
    <3>2. pageEntry' = [pageEntry EXCEPT ![n] = e] BY <1>1, <2>2
    <3> HIDE DEF e
    <3> QED BY <1>3, <1>4, <1>7, <2>2, <3>1, <3>2 DEF Readies
  <2> QED BY <1>7, <2>1, <2>2 DEF Readies
<1>8. CASE Closes(n)
  <2> DEFINE e == [pageEntry[n] EXCEPT !.step = "over", !.open = FALSE]
  <2>1. e \in Drivers /\ e.session = pageEntry[n].session /\ e.form = pageEntry[n].form /\ e.step = "over"
    BY <1>1 DEF Drivers
  <2>2. pageEntry' = [pageEntry EXCEPT ![n] = e] /\ pageDrivers' = pageDrivers /\ pageEntry[n].step = "closing"
    BY <1>1, <1>8 DEF Closes
  <2>3. \A s \in ElectronIds : pageDrivers[s] # n BY <1>4, <2>2
  <2> HIDE DEF e
  <2> QED BY <1>3, <2>1, <2>2, <2>3
<1>9. CASE TransportCloses(n)
  <2>1. CASE pageEntry[n].step = "ready"
    <3> DEFINE e == [pageEntry[n] EXCEPT !.step = "over", !.open = FALSE, !.disposed = TRUE]
    <3>1. e \in Drivers /\ e.session = pageEntry[n].session /\ e.form = pageEntry[n].form /\ e.step = "over"
      BY <1>1 DEF Drivers
    <3>2. /\ pageEntry' = [pageEntry EXCEPT ![n] = e]
          /\ pageDrivers' = [s \in ElectronIds |-> IF pageDrivers[s] = n THEN NoEntry ELSE pageDrivers[s]]
      BY <1>1, <1>9, <2>1 DEF TransportCloses
    <3> HIDE DEF e
    <3> QED BY <1>3, <2>1, <3>1, <3>2
  <2>2. CASE pageEntry[n].step # "ready"
    <3> DEFINE e == [pageEntry[n] EXCEPT !.open = FALSE]
    <3>1. e \in Drivers /\ e.session = pageEntry[n].session /\ e.form = pageEntry[n].form /\ e.step = pageEntry[n].step
          /\ e.disposed = pageEntry[n].disposed
      BY <1>1 DEF Drivers
    <3>2. pageEntry' = [pageEntry EXCEPT ![n] = e] /\ pageDrivers' = pageDrivers
      BY <1>1, <1>9, <2>2 DEF TransportCloses
    <3> HIDE DEF e
    <3> QED BY <1>3, <1>4, <2>2, <3>1, <3>2
  <2> QED BY <2>1, <2>2
<1> QED BY <1>6, <1>7, <1>8, <1>9 DEF DriverSteps

\* One command changes.
LEMMA UseChanges ==
  ASSUME ElectronTypeOK, NEW c \in ElectronUses, NEW u \in Uses, use' = [use EXCEPT ![c] = u]
  PROVE  /\ use' \in [ElectronUses -> Uses] /\ use'[c] = u
         /\ \A k \in ElectronUses \ {c} : use'[k] = use[k]
BY DEF ElectronTypeOK, Uses

\* Sessions are discarded.
LEMMA Discarding ==
  ASSUME ElectronInv, NEW S \in SUBSET ElectronIds, NEW by, Discards(S, by), app' \in Apps,
         \A s \in S : electron[s].stage # "none", use' \in [ElectronUses -> Uses],
         \A c \in ElectronUses : Fits(use[c])' \/ (use'[c] = use[c] /\ c \notin by)
  PROVE  ElectronInv'
<1>1. ElectronTypeOK /\ electron' = Leaving(S) /\ GivesUp(S, by)
  BY DEF ElectronInv, Discards
<1>2. /\ electron' \in [ElectronIds -> Sessions]
      /\ \A s \in ElectronIds : electron[s].stage # "none" =>
            /\ electron'[s].stage # "none" /\ electron'[s].form = electron[s].form
            /\ s \in Attached \ S => s \in Attached'
  BY <1>1, LeavingIs DEF Attached
<1>3. /\ pageDrivers' \in [ElectronIds -> PageEntries \cup {NoEntry}]
      /\ pageEntry' \in [PageEntries -> Drivers]
      /\ late' \subseteq ElectronIds
      /\ CacheFits' /\ ReadyIsCached' /\ LooksFit'
  BY <1>1, <1>2, GivingUpSessions
<1> QED BY <1>2, <1>3 DEF ElectronInv, ElectronTypeOK, Uses

\* A command that looks fails.
LEMMA Failing ==
  ASSUME ElectronInv, NEW c \in ElectronUses, NEW invalid, UseFails(c, invalid), use[c].step \in Looking, app' = app
  PROVE  ElectronInv'
<1> DEFINE s == use[c].session
<1>1. /\ ElectronTypeOK /\ CacheFits /\ LooksFit /\ use' = [use EXCEPT ![c] = NoUse] /\ s \in ElectronIds
      /\ electron[s].stage # "none"
  BY DEF ElectronInv, UseFails, Ends, LooksFit, Fits
<1>2. NoUse \in Uses /\ NoUse.step \notin Looking /\ NoUse.kind # "status" /\ NoUse.step # "verifying"
  BY DEF NoUse, Uses, Looking
<1>3. /\ use' \in [ElectronUses -> Uses] /\ use'[c] = NoUse
      /\ \A k \in ElectronUses \ {c} : use'[k] = use[k]
  BY <1>1, <1>2, UseChanges
<1>4. CASE Discards({s}, {c})
  BY <1>1, <1>2, <1>3, <1>4, Discarding DEF ElectronTypeOK, Fits
<1>5. ASSUME UNCHANGED <<electron, late>> PROVE LooksFit'
  BY <1>1, <1>2, <1>3, <1>5 DEF LooksFit, Fits, Attached
<1>6. CASE UNCHANGED storeVars
  BY <1>1, <1>3, <1>5, <1>6, DriversKept DEF storeVars, ElectronInv, ElectronTypeOK, Uses, CacheFits, Attached
<1>7. CASE DisposesDriversOf({s}) /\ UNCHANGED <<electron, late>>
  <2>1. \A r \in ElectronIds \ {s} : pageDrivers[r] # NoEntry =>
            electron'[r].form = electron[r].form /\ r \in Attached' \cup late'
    BY <1>1, <1>7 DEF CacheFits, Attached
  <2>2. /\ pageDrivers' \in [ElectronIds -> PageEntries \cup {NoEntry}]
        /\ pageEntry' \in [PageEntries -> Drivers]
        /\ CacheFits' /\ ReadyIsCached'
    BY <1>1, <1>7, <2>1, GivingUp
  <2> QED BY <1>1, <1>3, <1>5, <1>7, <2>2 DEF ElectronInv, ElectronTypeOK, Uses
<1> QED BY <1>4, <1>6, <1>7 DEF UseFails

\* A command goes on or ends, and no session or driver is touched.
LEMMA UseOnly ==
  ASSUME ElectronInv, NEW c \in ElectronUses, NEW u \in Uses, use' = [use EXCEPT ![c] = u],
         app' \in Apps, UNCHANGED storeVars,
         Fits(u)
  PROVE  ElectronInv'
<1>1. ElectronTypeOK /\ CacheFits /\ LooksFit /\ UNCHANGED <<electron, pageDrivers, pageEntry, late>>
  BY DEF ElectronInv, storeVars
<1>2. use' \in [ElectronUses -> Uses] /\ use'[c] = u /\ \A k \in ElectronUses \ {c} : use'[k] = use[k]
  BY <1>1, UseChanges
<1>3. LooksFit'
  BY <1>1, <1>2 DEF LooksFit, Fits, Attached, Looking
<1>4. CacheFits' /\ ReadyIsCached'
  BY <1>1, DriversKept DEF CacheFits, Attached
<1> QED BY <1>1, <1>2, <1>3, <1>4 DEF ElectronInv, ElectronTypeOK, Uses

\* A session is created: nobody knew of it.
LEMMA SessionIsNew ==
  ASSUME ElectronInv, NEW s \in ElectronIds, NEW generation \in Nat, NEW launched \in BOOLEAN,
         NEW S \in SUBSET ElectronIds, NewSession(s, generation, launched, Leaving(S))
  PROVE  /\ electron' \in [ElectronIds -> Sessions]
         /\ electron'[s].stage = "attached" /\ electron[s].stage = "none" /\ pageDrivers[s] = NoEntry
         /\ \A r \in ElectronIds : electron[r].stage # "none" =>
              /\ electron'[r].stage # "none" /\ electron'[r].form = electron[r].form
              /\ r \in Attached \ S => r \in Attached'
<1>1. ElectronTypeOK /\ CacheFits /\ LooksFit
  BY DEF ElectronInv
<1>2. /\ Leaving(S) \in [ElectronIds -> Sessions]
      /\ \A r \in ElectronIds : /\ Leaving(S)[r].form = electron[r].form
                                /\ Leaving(S)[r].stage = "none" <=> electron[r].stage = "none"
                                /\ r \notin S => Leaving(S)[r] = electron[r]
  BY <1>1, LeavingIs
<1>3. /\ Leaving(S)[s].stage = "none"
      /\ electron' = [Leaving(S) EXCEPT ![s] =
           [stage |-> "attached", generation |-> generation, form |-> NoForm, launched |-> launched]]
  BY DEF NewSession
<1>4. electron' \in [ElectronIds -> Sessions]
      /\ electron'[s].stage = "attached" /\ \A r \in ElectronIds \ {s} : electron'[r] = Leaving(S)[r]
  BY <1>2, <1>3 DEF NoForm, Sessions
<1>5. pageDrivers[s] = NoEntry
  BY <1>1, <1>2, <1>3 DEF CacheFits, LooksFit, Attached
<1> QED BY <1>2, <1>3, <1>4, <1>5 DEF Attached

\* An attach that has verified the app makes a session, and those of other generations go.
LEMMA AttachFits ==
  ASSUME ElectronInv, NEW c \in ElectronUses, AttachVerified(c)
  PROVE  ElectronInv'
<1> DEFINE key == IF AppRuns(use[c].seen) THEN use[c].seen ELSE Mixed
           same == {s \in Attached : electron[s].generation = key}
           others == Attached \ same
<1>1. ElectronTypeOK /\ LooksFit /\ app' = app /\ others \in SUBSET ElectronIds
      /\ use[c] \in Uses /\ key \in Nat /\ same \subseteq Attached /\ \A s \in Attached : s \in ElectronIds /\ electron[s].stage # "none"
  BY DEF ElectronInv, AttachVerified, appVars, Attached, Mixed, ElectronTypeOK, Uses
<1>2. CASE Ends(c) /\ UNCHANGED storeVars
  <2>1. NoUse \in Uses /\ NoUse.step \notin Looking /\ NoUse.kind # "status" /\ NoUse.step # "verifying"
    BY DEF NoUse, Uses, Looking
  <2> QED BY <1>1, <1>2, <2>1, UseOnly DEF Fits, Ends, ElectronTypeOK
<1>3. ASSUME NEW s \in ElectronIds, GivesUp(others, {}),
             use' = [use EXCEPT ![c].step = "validating", ![c].session = s], use[c].step = "verifying",
             IF same # {} THEN s \in same /\ electron' = Leaving(others) ELSE NewSession(s, key, FALSE, Leaving(others))
      PROVE  ElectronInv'
  <2> DEFINE u == [use[c] EXCEPT !.step = "validating", !.session = s]
  <2>1. u \in Uses /\ u.step = "validating" /\ u.session = s /\ u.kind = use[c].kind
    BY <1>1, <1>3 DEF Uses, Looking
  <2>2. use' = [use EXCEPT ![c] = u]
    BY <1>1, <1>3 DEF ElectronTypeOK
  <2> HIDE DEF u, key, same, others
  <2>3. use' \in [ElectronUses -> Uses] /\ use'[c] = u /\ \A k \in ElectronUses \ {c} : use'[k] = use[k]
    BY <1>1, <2>1, <2>2, UseChanges
  <2>4. /\ electron' \in [ElectronIds -> Sessions]
        /\ electron'[s].stage # "none"
        /\ \A r \in ElectronIds : electron[r].stage # "none" =>
              /\ electron'[r].stage # "none" /\ electron'[r].form = electron[r].form
              /\ r \in Attached \ others => r \in Attached'
    <3>1. CASE same # {}
      BY <1>1, <1>3, <3>1, LeavingIs DEF Attached
    <3>2. CASE same = {}
      BY <1>1, <1>3, <3>2, SessionIsNew
    <3> QED BY <3>1, <3>2
  <2>5. use[c].kind = "attach"
    BY <1>1, <1>3 DEF LooksFit, Fits
  <2>6. /\ pageDrivers' \in [ElectronIds -> PageEntries \cup {NoEntry}]
        /\ pageEntry' \in [PageEntries -> Drivers]
        /\ late' \subseteq ElectronIds
        /\ CacheFits' /\ ReadyIsCached' /\ LooksFit'
    <3>1. \A s0 \in others : electron[s0].stage # "none"
      BY <1>1 DEF others
    <3> DEFINE nobody == {}
    <3>2. \A k \in ElectronUses : Fits(use[k])' \/ (use'[k] = use[k] /\ k \notin nobody)
      BY <2>1, <2>3, <2>4, <2>5, <1>3 DEF Looking, Fits
    <3>3. others \in SUBSET ElectronIds /\ GivesUp(others, nobody)
      BY <1>1, <1>3
    <3> HIDE DEF nobody
    <3> QED BY <2>4, <3>1, <3>2, <3>3, GivingUpSessions
  <2> QED BY <1>1, <2>3, <2>4, <2>6 DEF ElectronInv, ElectronTypeOK, Uses
<1> QED BY <1>2, <1>3 DEF AttachVerified

\* A window is listed for a session that is still there: what it has cached for another
\* form goes, and a command for the window has the driver that is left, or a new one.
LEMMA RevalidationFits ==
  ASSUME ElectronInv, NEW c \in ElectronUses, Revalidates(c), app' = app
  PROVE  ElectronInv'
<1> DEFINE s == use[c].session
           form == use[c].seen
<1>1. /\ ElectronTypeOK /\ CacheFits /\ ReadyIsCached /\ LooksFit /\ use[c] \in Uses /\ form \in Nat
      /\ use[c].step = "revalidating" /\ use[c].step \in Looking
  BY DEF ElectronInv, ElectronTypeOK, Revalidates, Uses, Looking
<1>2. s \in ElectronIds /\ electron[s].stage # "none" /\ (use[c].kind = "page" => s \in Attached \cup late)
  BY <1>1 DEF LooksFit, Fits
<1>3. CASE ~Valid(c)
  BY <1>1, <1>3, Failing DEF Revalidates
<1>4. ASSUME Valid(c) PROVE ElectronInv'
  <2>1. /\ electron' = [electron EXCEPT ![s].form = form] /\ late' = late
    BY <1>1, <1>4 DEF Revalidates, Updated
  <2>2. /\ electron' \in [ElectronIds -> Sessions]
        /\ \A r \in ElectronIds : /\ electron'[r].stage = electron[r].stage
                                  /\ r # s => electron'[r].form = electron[r].form
        /\ electron'[s].form = form
    BY <1>1, <1>2, <2>1 DEF ElectronTypeOK, Sessions
  <2>3. \A r \in ElectronIds : pageDrivers[r] # NoEntry => r \in Attached' \cup late'
    BY <1>1, <2>1, <2>2 DEF CacheFits, Attached
  <2>4. ASSUME NEW u \in Uses, use' = [use EXCEPT ![c] = u], u.step \notin Looking, u.kind # "status", u.step # "verifying"
        PROVE  use' \in [ElectronUses -> Uses] /\ LooksFit'
    <3>1. use' \in [ElectronUses -> Uses] /\ use'[c] = u /\ \A k \in ElectronUses \ {c} : use'[k] = use[k]
      BY <1>1, <2>4, UseChanges
    <3>2. \A k \in ElectronUses : Fits(use[k])'
      BY <1>1, <2>1, <2>2, <2>4, <3>1 DEF LooksFit, Fits, Attached
    <3> QED BY <1>1, <2>1, <2>2, <3>1, <3>2 DEF LooksFit, ElectronTypeOK
  <2>5. NoUse \in Uses /\ NoUse.step \notin Looking /\ NoUse.kind # "status" /\ NoUse.step # "verifying"
    BY DEF NoUse, Uses, Looking
  <2>6. CASE Ends(c) /\ Changed(s, form) /\ DisposesDriversOf({s})
    <3>1. use' \in [ElectronUses -> Uses] /\ LooksFit'
      BY <2>4, <2>5, <2>6 DEF Ends
    <3>2. \A r \in ElectronIds \ {s} : pageDrivers[r] # NoEntry =>
            electron'[r].form = electron[r].form /\ r \in Attached' \cup late'
      BY <2>2, <2>3
    <3>3. /\ pageDrivers' \in [ElectronIds -> PageEntries \cup {NoEntry}]
          /\ pageEntry' \in [PageEntries -> Drivers] /\ CacheFits' /\ ReadyIsCached'
      BY <1>2, <2>6, <3>2, GivingUp
    <3> QED BY <1>1, <2>1, <2>2, <3>1, <3>3 DEF ElectronInv, ElectronTypeOK
  <2>7. ASSUME ~Changed(s, form), UNCHANGED <<pageDrivers, pageEntry>>
        PROVE  CacheFits' /\ ReadyIsCached'
    <3>1. pageDrivers[s] # NoEntry => electron[s].form = form
      BY <1>1, <1>2, <2>7 DEF Changed, CacheFits, NoForm
    <3>2. \A r \in ElectronIds : pageDrivers[r] # NoEntry =>
            electron'[r].form = electron[r].form /\ r \in Attached' \cup late'
      BY <2>2, <2>3, <3>1
    <3> QED BY <2>7, <3>2, DriversKept
  <2>8. CASE Ends(c) /\ ~Changed(s, form) /\ UNCHANGED <<pageDrivers, pageEntry>>
    <3>1. use' \in [ElectronUses -> Uses] /\ LooksFit'
      BY <2>4, <2>5, <2>8 DEF Ends
    <3> QED BY <1>1, <2>1, <2>2, <2>7, <2>8, <3>1 DEF ElectronInv, ElectronTypeOK
  <2>9. CASE /\ use[c].kind = "page" /\ Kept(s, form) # {} /\ UNCHANGED <<pageDrivers, pageEntry>>
             /\ use' = [use EXCEPT ![c].step = "waiting", ![c].entry = pageDrivers[s]]
    <3> DEFINE u == [use[c] EXCEPT !.step = "waiting", !.entry = pageDrivers[s]]
    <3>1. u \in Uses /\ u.step = "waiting" /\ u.kind = use[c].kind
      BY <1>1, <1>2 DEF Uses, ElectronTypeOK
    <3>2. use' = [use EXCEPT ![c] = u] BY <1>1, <2>9 DEF ElectronTypeOK
    <3> HIDE DEF u
    <3>3. use' \in [ElectronUses -> Uses] /\ LooksFit'
      BY <2>4, <2>9, <3>1, <3>2 DEF Looking
    <3>4. ~Changed(s, form) BY <2>9 DEF Kept
    <3> QED BY <1>1, <2>1, <2>2, <2>7, <2>9, <3>3, <3>4 DEF ElectronInv, ElectronTypeOK
  <2>10. ASSUME NEW n \in PageEntries, pageEntry[n].step = "none", use[c].kind = "page", form # NoForm,
               pageEntry' = [Disposed(CachedOf({s})) EXCEPT ![n] =
                         [step |-> "connecting", session |-> s, form |-> form, disposed |-> FALSE, open |-> FALSE]],
               pageDrivers' = [pageDrivers EXCEPT ![s] = n],
               use' = [use EXCEPT ![c].step = "waiting", ![c].entry = n]
        PROVE  ElectronInv'
    <3> DEFINE u == [use[c] EXCEPT !.step = "waiting", !.entry = n]
               gone == CachedOf({s})
               fresh == [step |-> "connecting", session |-> s, form |-> form, disposed |-> FALSE, open |-> FALSE]
    <3>1. u \in Uses /\ u.step = "waiting" /\ u.kind = use[c].kind
      BY <1>1 DEF Uses
    <3>2. use' = [use EXCEPT ![c] = u] BY <1>1, <2>10 DEF ElectronTypeOK
    <3>3. /\ fresh \in Drivers /\ fresh.step = "connecting" /\ fresh.session = s /\ fresh.form = form
          /\ fresh.disposed = FALSE
      BY <1>1, <1>2 DEF Drivers
    <3>4. \A m \in PageEntries : m \in gone <=> m = pageDrivers[s]
      BY DEF CachedOf, PageEntries, NoEntry
    <3> HIDE DEF u, gone, fresh
    <3>5. use' \in [ElectronUses -> Uses] /\ LooksFit'
      BY <2>4, <2>10, <3>1, <3>2 DEF Looking
    <3>6. /\ pageEntry' \in [PageEntries -> Drivers] /\ pageEntry'[n] = fresh
          /\ \A m \in PageEntries \ {n} : pageEntry'[m] = Disposed(gone)[m]
      BY <1>1, <2>10, <3>3, DisposedIs DEF gone, fresh
    <3>7. /\ pageDrivers' \in [ElectronIds -> PageEntries \cup {NoEntry}] /\ pageDrivers'[s] = n
          /\ \A r \in ElectronIds \ {s} : pageDrivers'[r] = pageDrivers[r]
      BY <1>1, <1>2, <2>10 DEF ElectronTypeOK
    <3>8. \A r \in ElectronIds \ {s} : pageDrivers[r] # NoEntry =>
            /\ pageDrivers[r] \in PageEntries \ {n} /\ pageDrivers[r] # pageDrivers[s]
            /\ pageEntry'[pageDrivers[r]] = pageEntry[pageDrivers[r]]
      <4> SUFFICES ASSUME NEW r \in ElectronIds \ {s}, pageDrivers[r] # NoEntry
                   PROVE  /\ pageDrivers[r] \in PageEntries \ {n} /\ pageDrivers[r] # pageDrivers[s]
                          /\ pageEntry'[pageDrivers[r]] = pageEntry[pageDrivers[r]]
        OBVIOUS
      <4>1. pageDrivers[r] \in PageEntries BY <1>1 DEF ElectronTypeOK
      <4>2. pageDrivers[r] # n BY <1>1, <2>10, <4>1 DEF CacheFits
      <4>3. pageDrivers[r] # pageDrivers[s] BY <1>1, <1>2 DEF CacheFits
      <4> QED BY <1>1, <3>4, <3>6, <4>1, <4>2, <4>3, DisposedIs
    <3>9. CacheFits'
      <4>1. \A r \in ElectronIds \ {s} : pageDrivers'[r] # NoEntry =>
              LET e == pageEntry'[pageDrivers'[r]] IN
              /\ e.session = r /\ ~e.disposed /\ e.step \in {"connecting", "opening", "ready"}
              /\ e.form = electron'[r].form /\ e.form # NoForm
              /\ r \in Attached' \cup late'
        BY <1>1, <2>2, <2>3, <3>7, <3>8 DEF CacheFits
      <4>2. s \in Attached' \cup late'
        BY <1>2, <2>1, <2>2, <2>10 DEF Attached
      <4> QED BY <2>2, <2>10, <3>3, <3>6, <3>7, <4>1, <4>2 DEF CacheFits
    <3>10. ReadyIsCached'
      <4>1. \A m \in PageEntries : pageEntry'[m].step # "none" => pageEntry'[m].session \in ElectronIds
        BY <1>1, <1>2, <3>3, <3>6, DisposedIs DEF ReadyIsCached
      <4>2. ASSUME NEW m \in PageEntries, pageEntry'[m].step = "ready"
            PROVE  pageDrivers'[pageEntry'[m].session] = m
        <5>1. m # n /\ pageEntry'[m] = Disposed(gone)[m] BY <3>3, <3>6, <4>2
        <5>2. m \notin gone /\ pageEntry[m].step = "ready" /\ pageEntry'[m].session = pageEntry[m].session
          BY <1>1, <4>2, <5>1, DisposedIs
        <5>3. pageEntry[m].session \in ElectronIds /\ pageDrivers[pageEntry[m].session] = m
          BY <1>1, <5>2 DEF ReadyIsCached
        <5> QED BY <3>4, <3>7, <5>2, <5>3
      <4> QED BY <4>1, <4>2 DEF ReadyIsCached
    <3> QED BY <1>1, <2>1, <2>2, <3>5, <3>6, <3>7, <3>9, <3>10 DEF ElectronInv, ElectronTypeOK
  <2>11. CASE use[c].kind # "page" \/ form = NoForm
    BY <1>4, <2>6, <2>8, <2>11 DEF Revalidates
  <2>12. CASE use[c].kind = "page" /\ form # NoForm /\ Kept(s, form) # {}
    BY <1>4, <2>9, <2>12 DEF Revalidates
  <2>13. CASE use[c].kind = "page" /\ form # NoForm /\ Kept(s, form) = {}
    BY <1>4, <2>10, <2>13 DEF Revalidates
  <2> QED BY <2>11, <2>12, <2>13
<1> QED BY <1>3, <1>4

\* The app changes by itself.
LEMMA AppStepFits ==
  ASSUME ElectronInv, AppSteps
  PROVE  ElectronInv'
<1>1. ElectronTypeOK /\ CacheFits /\ ReadyIsCached /\ LooksFit /\ UNCHANGED <<electron, pageDrivers, pageEntry, use, late>>
  BY DEF ElectronInv, AppSteps, storeVars
<1>2. app' \in Apps
  <2>1. app \in Apps BY <1>1 DEF ElectronTypeOK
  <2>2. CASE AppEnds
    <3>1. [app EXCEPT !.up = FALSE, !.form = NoForm] \in Apps BY <2>1 DEF Apps, NoForm
    <3> QED BY <2>2, <3>1 DEF AppEnds
  <2>3. CASE AppStarts
    <3>1. [generation |-> app.generation + 1, up |-> TRUE, form |-> 1] \in Apps BY <2>1 DEF Apps
    <3> QED BY <2>3, <3>1 DEF AppStarts, Starts
  <2>4. CASE WindowChanges
    <3>1. PICK form \in {NoForm, app.form + 1} : app' = [app EXCEPT !.form = form] BY <2>4 DEF WindowChanges
    <3>2. form \in Nat BY <2>1 DEF Apps, NoForm
    <3>3. [app EXCEPT !.form = form] \in Apps BY <2>1, <3>2 DEF Apps
    <3> QED BY <3>1, <3>3
  <2> QED BY <2>2, <2>3, <2>4 DEF AppSteps
<1>3. CacheFits' /\ ReadyIsCached' /\ LooksFit'
  BY <1>1 DEF CacheFits, ReadyIsCached, LooksFit, Fits, Attached
<1> QED BY <1>1, <1>2, <1>3 DEF ElectronInv, ElectronTypeOK

\* A command begins, or is answered.
LEMMA CommandFits ==
  ASSUME ElectronInv, NEW c \in ElectronUses,
         \/ \E s \in ElectronIds, kind \in {"page", "windows", "status"} : UseBegins(c, kind, s)
         \/ AttachBegins(c) \/ LaunchBegins(c) \/ Launched(c) \/ (UseReturns(c) /\ app' = app)
  PROVE  ElectronInv'
<1>1. ElectronTypeOK /\ LooksFit /\ NoUse \in Uses /\ use[c] \in Uses /\ app \in Apps
  BY DEF ElectronInv, ElectronTypeOK, NoUse, Uses, Looking
<1>2. NoUse.step = "idle" /\ NoUse.kind = "none"
  BY DEF NoUse
<1>3. ASSUME NEW s \in ElectronIds, NEW kind \in {"page", "windows", "status"}, UseBegins(c, kind, s)
      PROVE  ElectronInv'
  <2> DEFINE u == [NoUse EXCEPT !.kind = kind, !.step = "validating", !.session = s]
  <2>1. u \in Uses /\ u.step = "validating" /\ u.session = s
    BY DEF Uses, NoUse, Looking, NoEntry
  <2>2. use' = [use EXCEPT ![c] = u] /\ UNCHANGED storeVars /\ app' = app /\ s \in Attached
    BY <1>3 DEF UseBegins, appVars
  <2> HIDE DEF u
  <2>3. Fits(u)
    BY <2>1, <2>2 DEF Fits, Looking, Attached
  <2> QED BY <1>1, <2>1, <2>2, <2>3, UseOnly
<1>4. CASE AttachBegins(c)
  <2> DEFINE u == [NoUse EXCEPT !.kind = "attach", !.step = "verifying", !.seen = app.generation]
             others == {s \in Attached : electron[s].generation # app.generation}
             nobody == {}
  <2>1. u \in Uses /\ u.step = "verifying" /\ u.kind = "attach"
    BY <1>1 DEF Uses, NoUse, NoEntry, Apps
  <2>2. use' = [use EXCEPT ![c] = u] /\ Discards(others, nobody) /\ app' = app
    BY <1>4 DEF AttachBegins, appVars
  <2>3. others \in SUBSET ElectronIds /\ \A s \in others : electron[s].stage # "none"
    BY DEF Attached
  <2> HIDE DEF u, others
  <2>4. use' \in [ElectronUses -> Uses] /\ use'[c] = u /\ \A k \in ElectronUses \ {c} : use'[k] = use[k]
    BY <1>1, <2>1, <2>2, UseChanges
  <2>5. \A k \in ElectronUses : Fits(use[k])' \/ (use'[k] = use[k] /\ k \notin nobody)
    BY <2>1, <2>4 DEF Fits, Looking
  <2> HIDE DEF nobody
  <2> QED BY <1>1, <2>2, <2>3, <2>4, <2>5, Discarding
<1>5. CASE LaunchBegins(c)
  <2> DEFINE u == [NoUse EXCEPT !.kind = "launch", !.step = "launching", !.seen = app.generation + 1]
  <2>1. u \in Uses /\ u.step = "launching" /\ u.kind = "launch"
    <3>1. app.generation + 1 \in Nat BY <1>1 DEF Apps
    <3>2. \A seen \in Nat : [NoUse EXCEPT !.kind = "launch", !.step = "launching", !.seen = seen] \in Uses
      BY <1>1 DEF Uses
    <3> QED BY <3>1, <3>2 DEF NoUse
  <2>2. use' = [use EXCEPT ![c] = u] /\ UNCHANGED storeVars
    BY <1>5 DEF LaunchBegins
  <2>3. app' \in Apps
    BY <1>1, <1>5 DEF LaunchBegins, Starts, Apps
  <2> HIDE DEF u
  <2>4. Fits(u)
    BY <2>1 DEF Fits, Looking
  <2> QED BY <1>1, <2>1, <2>2, <2>3, <2>4, UseOnly
<1>6. Fits(NoUse)
  BY <1>2 DEF Fits, Looking
<1>7. CASE Launched(c)
  <2>1. CASE AppRuns(use[c].seen)
    <3>1. PICK s \in ElectronIds : /\ NewSession(s, use[c].seen, TRUE, electron)
                                   /\ use' = [use EXCEPT ![c].step = "validating", ![c].session = s]
      BY <1>7, <2>1 DEF Launched
    <3> DEFINE u == [use[c] EXCEPT !.step = "validating", !.session = s]
               nobody == {}
    <3>2. u \in Uses /\ u.step = "validating" /\ u.session = s /\ u.kind = use[c].kind
      BY <1>1 DEF Uses, Looking
    <3>3. use' = [use EXCEPT ![c] = u] BY <1>1, <3>1 DEF ElectronTypeOK
    <3> HIDE DEF u
    <3>4. use' \in [ElectronUses -> Uses] /\ use'[c] = u /\ \A k \in ElectronUses \ {c} : use'[k] = use[k]
      BY <1>1, <3>2, <3>3, UseChanges
    <3>5. Leaving(nobody) = electron
      BY <1>1 DEF Leaving, ElectronTypeOK
    <3>6. nobody \in SUBSET ElectronIds /\ use[c].seen \in Nat
      BY <1>1 DEF Uses
    <3> HIDE DEF nobody
    <3>7. /\ electron' \in [ElectronIds -> Sessions]
          /\ electron'[s].stage = "attached" /\ electron[s].stage = "none" /\ pageDrivers[s] = NoEntry
          /\ \A r \in ElectronIds : electron[r].stage # "none" =>
               /\ electron'[r].stage # "none" /\ electron'[r].form = electron[r].form
               /\ r \in Attached \ nobody => r \in Attached'
      BY <3>1, <3>5, <3>6, SessionIsNew
    <3>8. UNCHANGED <<app, pageDrivers, pageEntry, late>>
      BY <1>7 DEF Launched, appVars
    <3>9. \A r \in Attached \cup late : r \in Attached' \cup late'
      BY <3>7, <3>8 DEF Attached, nobody
    <3>10. \A k \in ElectronUses : Fits(use[k])'
      <4>1. Fits(use[c])' BY <3>2, <3>4, <3>7, <1>7 DEF Fits, Looking, Attached
      <4>2. \A k \in ElectronUses \ {c} : Fits(use[k])' BY <1>1, <3>4, <3>7, <3>9 DEF Fits, LooksFit
      <4> QED BY <4>1, <4>2
    <3>11. LooksFit' BY <1>1, <3>7, <3>8, <3>10 DEF LooksFit, ElectronTypeOK
    <3>12. \A r \in ElectronIds : pageDrivers[r] # NoEntry =>
            electron'[r].form = electron[r].form /\ r \in Attached' \cup late'
      <4>1. CacheFits BY DEF ElectronInv
      <4>2. \A r \in ElectronIds : pageDrivers[r] # NoEntry => r \in Attached \cup late /\ electron[r].stage # "none"
        BY <1>1, <4>1 DEF CacheFits, LooksFit, Attached
      <4> QED BY <3>7, <3>9, <4>2
    <3>13. CacheFits' /\ ReadyIsCached' BY <3>8, <3>12, DriversKept
    <3> QED BY <1>1, <3>4, <3>7, <3>8, <3>11, <3>13 DEF ElectronInv, ElectronTypeOK
  <2>2. CASE ~AppRuns(use[c].seen)
    BY <1>1, <1>6, <1>7, <2>2, UseOnly DEF Launched, Ends, appVars, storeVars
  <2> QED BY <2>1, <2>2
<1>8. CASE UseReturns(c) /\ app' = app
  BY <1>1, <1>6, <1>8, UseOnly DEF UseReturns, Ends
<1> QED BY <1>3, <1>4, <1>5, <1>7, <1>8

\* A command validates its session and lists the windows, in its time.
LEMMA LookingFits ==
  ASSUME ElectronInv, NEW c \in ElectronUses, UseSteps(c)
  PROVE  ElectronInv'
<1>1. ElectronTypeOK /\ LooksFit /\ use[c] \in Uses /\ app' = app /\ app \in Apps
  BY DEF ElectronInv, ElectronTypeOK, UseSteps, appVars
<1>2. ASSUME NEW invalid, UseFails(c, invalid), use[c].step \in Looking PROVE ElectronInv'
  BY <1>1, <1>2, Failing
<1>3. ASSUME NEW u \in Uses, use' = [use EXCEPT ![c] = u], UNCHANGED storeVars, use[c].step \in Looking, u.step \in Looking,
             u.session = use[c].session, u.kind = use[c].kind
      PROVE  ElectronInv'
  <2>1. Fits(use[c]) /\ u.step # "verifying" BY <1>1, <1>3 DEF LooksFit, Looking
  <2>2. Fits(u) BY <1>3, <2>1 DEF Fits
  <2> QED BY <1>1, <1>3, <2>2, UseOnly
<1>4. CASE Validates(c)
  <2>1. use[c].step \in Looking BY <1>4 DEF Validates, Looking
  <2>2. CASE Valid(c)
    <3> DEFINE u == [use[c] EXCEPT !.step = "listing"]
    <3>1. u \in Uses /\ u.step = "listing" /\ u.session = use[c].session /\ u.kind = use[c].kind
      BY <1>1 DEF Uses, Looking
    <3>2. use' = [use EXCEPT ![c] = u] /\ UNCHANGED storeVars BY <1>1, <1>4, <2>2 DEF Validates, Goes, ElectronTypeOK
    <3> HIDE DEF u
    <3> QED BY <1>3, <2>1, <3>1, <3>2 DEF Looking
  <2> QED BY <1>2, <1>4, <2>1, <2>2 DEF Validates
<1>5. CASE Lists(c)
  <2>1. use[c].step \in Looking BY <1>5 DEF Lists, Looking
  <2>2. CASE app.up
    <3> DEFINE u == [use[c] EXCEPT !.step = "revalidating", !.seen = app.form]
    <3>1. u \in Uses /\ u.step = "revalidating" /\ u.session = use[c].session /\ u.kind = use[c].kind
      BY <1>1 DEF Uses, Looking, Apps
    <3>2. use' = [use EXCEPT ![c] = u] /\ UNCHANGED storeVars BY <1>1, <1>5, <2>2 DEF Lists, ElectronTypeOK
    <3> HIDE DEF u
    <3> QED BY <1>3, <2>1, <3>1, <3>2 DEF Looking
  <2> QED BY <1>2, <1>5, <2>1, <2>2 DEF Lists
<1>6. CASE StatusTimesOut(c)
  <2>1. use[c].step \in Looking BY <1>1, <1>6 DEF StatusTimesOut, LooksFit, Fits
  <2> QED BY <1>2, <1>6, <2>1 DEF StatusTimesOut
<1>7. CASE Revalidates(c) BY <1>1, <1>7, RevalidationFits
<1>8. CASE UseReturns(c) BY <1>1, <1>8, CommandFits
<1> QED BY <1>4, <1>5, <1>6, <1>7, <1>8 DEF UseSteps

\* Every step of the app, of a command or of a driver keeps it.
LEMMA ElectronStep == ElectronInv /\ [ElectronNext]_electronVars => ElectronInv'
<1> SUFFICES ASSUME ElectronInv, [ElectronNext]_electronVars PROVE ElectronInv'
  OBVIOUS
<1>1. CASE AppSteps BY <1>1, AppStepFits
<1>2. ASSUME NEW n \in PageEntries, DriverSteps(n) PROVE ElectronInv' BY <1>2, DriversFit
<1>3. ASSUME NEW c \in ElectronUses,
             \/ AttachBegins(c) \/ AttachVerified(c) \/ LaunchBegins(c) \/ Launched(c) \/ UseSteps(c)
             \/ \E s \in ElectronIds, kind \in {"page", "windows", "status"} : UseBegins(c, kind, s)
      PROVE  ElectronInv'
  BY <1>3, CommandFits, AttachFits, LookingFits
<1>4. ASSUME NEW s \in ElectronIds, Detaches(s) PROVE ElectronInv'
  <2> DEFINE nobody == {}
             gone == {s}
  <2>1. /\ Discards(gone, nobody) /\ UNCHANGED <<app, use>> /\ ElectronTypeOK /\ gone \in SUBSET ElectronIds
        /\ \A r \in gone : electron[r].stage # "none"
    BY <1>4 DEF Detaches, ElectronInv, appVars, Attached
  <2>2. \A c \in ElectronUses : use'[c] = use[c] /\ c \notin nobody BY <2>1
  <2> HIDE DEF nobody, gone
  <2> QED BY <2>1, <2>2, Discarding DEF ElectronTypeOK
<1>5. CASE UNCHANGED electronVars
  BY <1>5 DEF ElectronInv, electronVars, ElectronTypeOK, CacheFits, ReadyIsCached, LooksFit, Fits, Attached
<1> QED BY <1>1, <1>2, <1>3, <1>4, <1>5 DEF ElectronNext

\* At the start there is no session, driver or command.
LEMMA ElectronStarts == ElectronInit => ElectronInv
<1> SUFFICES ASSUME ElectronInit PROVE ElectronInv
  OBVIOUS
<1>1. ElectronTypeOK
  <2>1. app \in Apps BY DEF ElectronInit, Apps
  <2>2. electron \in [ElectronIds -> Sessions] BY DEF ElectronInit, Sessions, NoForm
  <2>3. pageDrivers \in [ElectronIds -> PageEntries \cup {NoEntry}] /\ late \subseteq ElectronIds BY DEF ElectronInit
  <2>4. pageEntry \in [PageEntries -> Drivers] BY DEF ElectronInit, Drivers, NoForm
  <2>5. use \in [ElectronUses -> Uses] BY DEF ElectronInit, Uses, NoUse, NoEntry
  <2> QED BY <2>1, <2>2, <2>3, <2>4, <2>5 DEF ElectronTypeOK
<1>2. CacheFits BY DEF ElectronInit, CacheFits
<1>3. ReadyIsCached BY DEF ElectronInit, ReadyIsCached
<1>4. LooksFit BY DEF ElectronInit, LooksFit, Fits, NoUse, Looking
<1> QED BY <1>1, <1>2, <1>3, <1>4 DEF ElectronInv

\* An open socket to a window is that of the driver its session has cached, for the window
\* as the session knows it: whatever else attaches, detaches, lists or times out meanwhile.
THEOREM ElectronConnectionsOwned == ElectronSpec => []ConnectionsOwned
<1>1. ElectronInv => ConnectionsOwned
  <2> SUFFICES ASSUME ElectronInv, NEW n \in PageEntries, pageEntry[n].step = "ready"
               PROVE  LET s == pageEntry[n].session IN
                      /\ pageDrivers[s] = n /\ ~pageEntry[n].disposed
                      /\ pageEntry[n].form = electron[s].form
                      /\ s \in Attached \cup late
    BY DEF ConnectionsOwned
  <2>1. pageEntry[n].session \in ElectronIds /\ pageDrivers[pageEntry[n].session] = n /\ n # NoEntry
    BY DEF ElectronInv, ReadyIsCached, PageEntries, NoEntry
  <2> QED BY <2>1 DEF ElectronInv, CacheFits
<1> QED BY <1>1, ElectronStarts, ElectronStep, PTL DEF ElectronSpec

-----------------------------------------------------------------------------
(* The leases of side panels *)

\* A capability is in one record, and one that counted is in no record that is pending.
Issued(r) == r.stage \in {"pending", "active"}
RecordsFit(records) ==
  /\ DOMAIN records = Panels
  /\ \A w \in Panels : Issued(records[w]) =>
       records[w].document \in Documents /\ records[w].capability \in 1..capability
  /\ \A w \in Panels : records[w].stage = "pending" => records[w].capability \notin granted
  /\ \A v, w \in Panels :
       Issued(records[v]) /\ Issued(records[w]) /\ records[v].capability = records[w].capability => v = w

\* What is stored differs in one record at most from what is in memory: the one being saved.
OneChanges ==
  /\ \A v, w \in Panels : windows[v] # disk[v] /\ windows[w] # disk[w] => v = w
  /\ work.stage # "saving" /\ ~poisoned => windows = disk

LeaseInv ==
  /\ capability \in Nat /\ granted \subseteq 1..capability
  /\ RecordsFit(windows) /\ RecordsFit(disk) /\ OneChanges
  /\ ActiveIn(disk) \subseteq granted
  /\ \A w \in Panels : windows[w].stage = "active" /\ windows[w] # disk[w] => windows[w].capability \notin granted

\* No record changes.
LEMMA RecordsStay ==
  ASSUME LeaseInv, UNCHANGED <<windows, disk, granted, capability>>,
         work'.stage # "saving" /\ ~poisoned' => windows = disk
  PROVE  LeaseInv'
BY DEF LeaseInv, RecordsFit, OneChanges, ActiveIn

\* A record changes in memory: it goes, is bound, is pending with a new capability, or
\* becomes the active one with the capability it has.
LEMMA RecordSet ==
  ASSUME LeaseInv, windows = disk, NEW w, NEW record, windows' = [windows EXCEPT ![w] = record],
         UNCHANGED <<disk, granted>>, work'.stage = "saving",
         \/ record.stage \in {"none", "opened"} /\ capability' = capability
         \/ /\ record.stage = "pending" /\ record.document \in Documents
            /\ record.capability = capability + 1 /\ capability' = capability + 1
         \/ /\ record.stage = "active" /\ record.document \in Documents /\ w \in Panels
            /\ windows[w].stage = "pending" /\ record.capability = windows[w].capability /\ capability' = capability
  PROVE  LeaseInv'
<1>1. /\ capability \in Nat /\ granted \subseteq 1..capability /\ RecordsFit(windows) /\ RecordsFit(disk)
      /\ ActiveIn(disk) \subseteq granted
  BY DEF LeaseInv
<1>2. capability' \in Nat /\ 1..capability \subseteq 1..capability' /\ capability + 1 \notin 1..capability
  BY <1>1
<1>3. DOMAIN windows = Panels /\ DOMAIN windows' = Panels /\ \A v \in Panels : windows'[v] = IF v = w THEN record ELSE windows[v]
  BY <1>1 DEF RecordsFit
<1>4. RecordsFit(disk)'
  BY <1>1, <1>2 DEF RecordsFit
<1>5. RecordsFit(windows)'
  <2>1. \A v \in Panels : Issued(windows'[v]) =>
          windows'[v].document \in Documents /\ windows'[v].capability \in 1..capability'
    BY <1>1, <1>2, <1>3 DEF RecordsFit, Issued
  <2>2. \A v \in Panels : windows'[v].stage = "pending" => windows'[v].capability \notin granted
    BY <1>1, <1>2, <1>3 DEF RecordsFit
  <2>3. ASSUME NEW u \in Panels, NEW v \in Panels, Issued(windows'[u]), Issued(windows'[v]),
               windows'[u].capability = windows'[v].capability, u # v
        PROVE  FALSE
    <3>1. \A x \in Panels : Issued(windows[x]) => windows[x].capability \in 1..capability
      BY <1>1 DEF RecordsFit
    <3>2. \A x, y \in Panels :
            Issued(windows[x]) /\ Issued(windows[y]) /\ windows[x].capability = windows[y].capability => x = y
      BY <1>1 DEF RecordsFit
    <3>3. CASE u # w /\ v # w BY <1>3, <2>3, <3>2, <3>3
    <3>4. CASE record.capability = capability + 1
      <4>1. PICK x \in {u, v} : x # w /\ Issued(windows[x]) /\ windows[x].capability = capability + 1
        BY <1>3, <2>3, <3>3, <3>4
      <4> QED BY <1>2, <3>1, <4>1
    <3>5. CASE w \in Panels /\ windows[w].stage = "pending" /\ record.capability = windows[w].capability
      BY <1>3, <2>3, <3>2, <3>5 DEF Issued
    <3> QED BY <1>3, <2>3, <3>3, <3>4, <3>5 DEF Issued
  <2> QED BY <1>3, <2>1, <2>2, <2>3 DEF RecordsFit
<1>6. OneChanges'
  BY <1>3 DEF OneChanges
<1>7. \A v \in Panels : windows'[v].stage = "active" /\ windows'[v] # disk'[v] => windows'[v].capability \notin granted'
  BY <1>1, <1>3 DEF RecordsFit
<1> QED BY <1>1, <1>2, <1>4, <1>5, <1>6, <1>7 DEF LeaseInv, ActiveIn

\* The records that are stored, and read again, are those of memory or those of before.
LEMMA RecordsStored ==
  ASSUME LeaseInv, NEW records, records = disk \/ records = windows, windows' = records, disk' = records,
         granted' = granted \cup ActiveIn(records), capability' = capability
  PROVE  LeaseInv'
<1>1. /\ capability \in Nat /\ granted \subseteq 1..capability /\ RecordsFit(records)
      /\ ActiveIn(records) \subseteq 1..capability
  BY DEF LeaseInv, ActiveIn, RecordsFit, Issued
<1>2. RecordsFit(records)'
  <2>1. \A w \in Panels : records[w].stage = "pending" => records[w].capability \notin ActiveIn(records)
    BY <1>1 DEF RecordsFit, ActiveIn, Issued
  <2> QED BY <1>1, <2>1 DEF RecordsFit
<1>3. RecordsFit(windows)' /\ RecordsFit(disk)'
  BY <1>1, <1>2 DEF RecordsFit
<1> QED BY <1>1, <1>3 DEF LeaseInv, OneChanges, ActiveIn

\* Every step of the panels and of the worker keeps it: a reload, a prepared or confirmed window, a
\* removed one, a save that is made or fails, an end of the worker.
LEMMA LeaseStep == LeaseInv /\ [AuthorityNext]_authorityVars => LeaseInv'
<1> SUFFICES ASSUME LeaseInv, [AuthorityNext]_authorityVars PROVE LeaseInv'
  OBVIOUS
<1> USE DEF panelVars, recordVars, workerVars
<1>1. work.stage # "saving" /\ ~poisoned => windows = disk
  BY DEF LeaseInv, OneChanges
<1>2. Idle.stage # "saving" /\ NoRecord.stage = "none"
  BY DEF Idle, NoRecord
<1>3. CASE UNCHANGED <<windows, disk, granted, capability, work, poisoned>>
  BY <1>1, <1>3, RecordsStay
<1>4. CASE SeesContexts
  BY <1>1, <1>2, <1>4, RecordsStay DEF SeesContexts, Begins
<1>5. CASE Deletes
  <2>1. ~poisoned /\ work = Idle /\ UNCHANGED <<disk, capability, granted, poisoned>> /\ windows = disk
    BY <1>1, <1>2, <1>5 DEF Deletes, Begins
  <2>2. CASE windows[Current.window] = NoRecord
    BY <1>2, <1>5, <2>1, <2>2, RecordsStay DEF Deletes, Done
  <2>3. CASE windows[Current.window] # NoRecord
    <3> DEFINE w == Current.window
    <3>1. windows' = [windows EXCEPT ![w] = NoRecord] /\ work'.stage = "saving"
      BY <1>5, <2>3 DEF Deletes, Sets
    <3> HIDE DEF w
    <3> QED BY <1>2, <2>1, <3>1, RecordSet
  <2> QED BY <2>2, <2>3
<1>6. CASE Binds
  <2>1. ~poisoned /\ work.stage = "seen" /\ UNCHANGED <<disk, capability, granted, poisoned>> /\ windows = disk
    BY <1>1, <1>6 DEF Binds, Begins
  <2>2. CASE UNCHANGED windows /\ work' = Idle
    BY <1>2, <2>1, <2>2, RecordsStay
  <2>3. ASSUME NEW w, NEW d, NEW answer, Sets(w, [stage |-> "opened", document |-> d], FALSE, answer)
        PROVE  LeaseInv'
    <3> DEFINE record == [stage |-> "opened", document |-> d]
    <3>1. record.stage = "opened" OBVIOUS
    <3>2. windows' = [windows EXCEPT ![w] = record] /\ work'.stage = "saving" BY <2>3 DEF Sets
    <3> HIDE DEF record
    <3> QED BY <2>1, <3>1, <3>2, RecordSet
  <2> QED BY <1>6, <2>2, <2>3 DEF Binds, Done
<1>7. CASE Prepares
  <2> DEFINE d == Current.document
             proof == Current.proof
  <2>1. ~poisoned /\ work.stage = "seen" /\ UNCHANGED <<disk, granted, poisoned>> /\ windows = disk
    BY <1>1, <1>7 DEF Prepares, Begins
  <2>2. CASE UNCHANGED <<windows, capability>> /\ work' = Idle
    BY <1>2, <2>1, <2>2, RecordsStay
  <2>3. ASSUME NEW s \in Successions(d, proof, work.contexts), Revalidated(s.window, d, s.gone),
               NEW answer, Sets(s.window, s.record, TRUE, answer), capability' = capability + 1
        PROVE  LeaseInv'
    <3>1. d \in Documents BY <2>3 DEF Revalidated, Live
    <3>2. s.record.stage = "pending" /\ s.record.document = d /\ s.record.capability = capability + 1
      BY <2>3 DEF Successions, Pending
    <3>3. windows' = [windows EXCEPT ![s.window] = s.record] /\ work'.stage = "saving" BY <2>3 DEF Sets
    <3> QED BY <2>1, <2>3, <3>1, <3>2, <3>3, RecordSet
  <2> QED BY <1>7, <2>2, <2>3 DEF Prepares, Done
<1>8. CASE Confirms
  <2> DEFINE d == Current.document
             w == CHOOSE v \in Panels : \A u \in Owners(d) : v \in Owners(d)
             r == windows[w]
             record == [stage |-> "active", document |-> d, capability |-> r.capability]
  <2>1. ~poisoned /\ work.stage = "seen" /\ UNCHANGED <<disk, granted, poisoned, capability>> /\ windows = disk
    BY <1>1, <1>8 DEF Confirms, Begins
  <2>2. CASE UNCHANGED windows /\ work' = Idle
    BY <1>2, <2>1, <2>2, RecordsStay
  <2>3. ASSUME NEW answer, Sets(w, record, FALSE, answer), Owners(d) # {}, Revalidated(w, d, 0), r.stage = "pending"
        PROVE  LeaseInv'
    <3>1. d \in Documents BY <2>3 DEF Revalidated, Live
    <3>2. \E v \in Panels : \A u \in Owners(d) : v \in Owners(d) BY <2>3 DEF Owners
    <3>3. w \in Panels BY <3>2
    <3>4. record.stage = "active" /\ record.document = d /\ record.capability = r.capability OBVIOUS
    <3>5. windows' = [windows EXCEPT ![w] = record] /\ work'.stage = "saving" BY <2>3 DEF Sets
    <3> HIDE DEF record, w
    <3> QED BY <2>1, <2>3, <3>1, <3>3, <3>4, <3>5, RecordSet
  <2> HIDE DEF record
  <2>4. \/ UNCHANGED windows /\ work' = Idle
        \/ \E answer : Sets(w, record, FALSE, answer) /\ Owners(d) # {} /\ Revalidated(w, d, 0) /\ r.stage = "pending"
    BY <1>8 DEF Confirms, Done, record
  <2> QED BY <2>2, <2>3, <2>4
<1>9. CASE Admits
  BY <1>1, <1>2, <1>9, RecordsStay DEF Admits, Begins, Done
<1>10. CASE Saves
  BY <1>10, RecordsStored DEF Saves
<1>11. CASE Throws
  BY <1>11, RecordsStay DEF Throws
<1>12. CASE SaveFails
  BY <1>12, RecordsStay DEF SaveFails
<1>13. CASE WorkerEnds
  <2>1. PICK written \in Written : windows' = written /\ disk' = written /\ granted' = granted \cup ActiveIn(written)
    BY <1>13 DEF WorkerEnds
  <2>2. capability' = capability /\ (written = disk \/ written = windows)
    BY <1>13 DEF WorkerEnds, Written
  <2> QED BY <2>1, <2>2, RecordsStored
<1>14. CASE Settles
  BY <1>3, <1>14 DEF Settles
<1>15. ASSUME NEW w \in Panels,
              DocumentAppears(w) \/ PanelOpens(w) \/ PanelReloads(w) \/ PanelCloses(w) \/ WindowRemoved(w)
       PROVE  LeaseInv'
  BY <1>3, <1>15 DEF DocumentAppears, PanelOpens, PanelReloads, PanelCloses, WindowRemoved
<1>16. ASSUME NEW d \in Documents, DocumentSteps(d) PROVE LeaseInv'
  BY <1>3, <1>16 DEF DocumentSteps, DocumentAsks, ProofDropped
<1>17. CASE UNCHANGED authorityVars
  BY <1>3, <1>17 DEF authorityVars
<1> QED BY <1>4, <1>5, <1>6, <1>7, <1>8, <1>9, <1>10, <1>11, <1>12, <1>13, <1>14, <1>15, <1>16, <1>17
        DEF AuthorityNext, Works

\* At the start nothing is recorded.
LEMMA LeaseInit == AuthorityInit => LeaseInv
<1> SUFFICES ASSUME AuthorityInit PROVE LeaseInv
  OBVIOUS
<1>1. \A w \in Panels : windows[w] = NoRecord /\ disk[w] = NoRecord
  BY DEF AuthorityInit
<1>2. NoRecord.stage = "none" BY DEF NoRecord
<1>3. windows = disk /\ granted = {} /\ capability = 0 /\ DOMAIN windows = Panels BY DEF AuthorityInit
<1>4. RecordsFit(windows) BY <1>1, <1>2, <1>3 DEF RecordsFit, Issued
<1>5. ActiveIn(disk) = {} BY <1>1, <1>2 DEF ActiveIn
<1> QED BY <1>1, <1>2, <1>3, <1>4, <1>5 DEF LeaseInv, OneChanges

\* What is stored, or read again, grants one lease, withdraws one, or neither.
LEMMA StoringRegisters ==
  ASSUME LeaseInv, NEW records, records = disk \/ records = windows, disk' = records,
         granted' = granted \cup ActiveIn(records)
  PROVE  Register!RegisterNext \/ (granted' = granted /\ \A w \in Panels : Holder(w)' = Holder(w))
<1> DEFINE holder == [w \in Panels |-> Holder(w)]
           after == [w \in Panels |-> Holder(w)']
<1>1. /\ RecordsFit(records) /\ OneChanges /\ ActiveIn(disk) \subseteq granted /\ capability \in Nat
      /\ \A w \in Panels : windows[w].stage = "active" /\ windows[w] # disk[w] => windows[w].capability \notin granted
  BY DEF LeaseInv
<1>2. \A w \in Panels : Holder(w)' =
        IF records[w].stage = "active" THEN [lease |-> records[w].capability, document |-> records[w].document]
        ELSE [lease |-> NoCapability, document |-> 0]
  BY DEF Holder
<1>3. CASE \A w \in Panels : records[w] = disk[w]
  <2>1. ActiveIn(records) = ActiveIn(disk) BY <1>3 DEF ActiveIn
  <2>2. granted' = granted BY <1>1, <2>1
  <2> QED BY <1>2, <1>3, <2>2 DEF Holder
<1>4. ASSUME NEW w \in Panels, records[w] # disk[w]
      PROVE  Register!RegisterNext \/ (granted' = granted /\ \A v \in Panels : Holder(v)' = Holder(v))
  <2>1. records = windows /\ \A v \in Panels \ {w} : records[v] = disk[v]
    BY <1>1, <1>4 DEF OneChanges
  <2>2. \A v \in Panels \ {w} : Holder(v)' = Holder(v)
    BY <1>2, <2>1 DEF Holder
  <2>3. after = [holder EXCEPT ![w] = Holder(w)']
    BY <2>2
  <2>4. CASE records[w].stage = "active"
    <3> DEFINE c == records[w].capability
               new == [lease |-> c, document |-> records[w].document]
    <3>1. Holder(w)' = new BY <1>2, <2>4
    <3>2. c \in 1..capability /\ records[w].document \in Documents
      BY <1>1, <2>4 DEF RecordsFit, Issued
    <3>3. c \in Nat \ {NoCapability} /\ c \notin granted
      BY <1>1, <1>4, <2>1, <2>4, <3>2 DEF NoCapability
    <3>4. granted' = granted \cup {c}
      <4>1. ActiveIn(records) \subseteq ActiveIn(disk) \cup {c} BY <2>1 DEF ActiveIn
      <4>2. c \in ActiveIn(records) BY <2>4 DEF ActiveIn
      <4> QED BY <1>1, <4>1, <4>2
    <3>5. new.lease = c /\ new \in [lease : Nat \ {NoCapability}, document : Documents]
      BY <3>2, <3>3
    <3>6. Register!Grant(w)
      BY <2>3, <3>1, <3>3, <3>4, <3>5 DEF Register!Grant, Register!Holders
    <3> QED BY <3>6 DEF Register!RegisterNext
  <2>5. CASE records[w].stage # "active"
    <3>1. Holder(w)' = [lease |-> NoCapability, document |-> 0] BY <1>2, <2>5
    <3>2. granted' = granted
      <4>1. ActiveIn(records) \subseteq ActiveIn(disk) BY <2>1, <2>5 DEF ActiveIn
      <4> QED BY <1>1, <4>1
    <3>3. CASE Holder(w) = [lease |-> NoCapability, document |-> 0]
      BY <2>2, <3>1, <3>2, <3>3
    <3>4. CASE Holder(w) # [lease |-> NoCapability, document |-> 0]
      <4>1. Register!Withdraw(w)
        BY <2>3, <3>1, <3>2, <3>4 DEF Register!Withdraw, Register!NoHolder
      <4> QED BY <4>1 DEF Register!RegisterNext
    <3> QED BY <3>3, <3>4
  <2> QED BY <2>4, <2>5
<1> QED BY <1>3, <1>4

\* Through reloads, reopenings, ends of the worker and failed saves, a lease counts once,
\* for one window and one document: the authority implements the register of leases.
THEOREM AuthorityImplementsRegister == AuthoritySpec => LeasesCountOnce
<1>1. AuthorityInit => Register!RegisterInit
  BY DEF AuthorityInit, Register!RegisterInit, Register!NoHolder, Holder, NoRecord
<1>2. LeaseInv /\ [AuthorityNext]_authorityVars =>
        [Register!RegisterNext]_<<[w \in Panels |-> Holder(w)], granted>>
  <2> SUFFICES ASSUME LeaseInv, [AuthorityNext]_authorityVars
               PROVE  \/ Register!RegisterNext
                      \/ granted' = granted /\ \A w \in Panels : Holder(w)' = Holder(w)
    OBVIOUS
  <2>1. CASE Saves BY <2>1, StoringRegisters DEF Saves
  <2>2. CASE WorkerEnds
    <3>1. PICK written \in Written : disk' = written /\ granted' = granted \cup ActiveIn(written)
      BY <2>2 DEF WorkerEnds
    <3> QED BY <3>1, StoringRegisters DEF Written
  <2>3. CASE UNCHANGED <<disk, granted>>
    BY <2>3 DEF Holder
  <2>4. UNCHANGED <<disk, granted>> \/ Saves \/ WorkerEnds
    BY DEF AuthorityNext, authorityVars, panelVars, recordVars, workerVars, Works, SeesContexts, Deletes, Binds, Prepares,
       Confirms, Admits, Throws, SaveFails, Settles, DocumentAppears, PanelOpens, PanelReloads, PanelCloses, WindowRemoved,
       DocumentSteps, DocumentAsks, ProofDropped
  <2> QED BY <2>1, <2>2, <2>3, <2>4
<1> QED BY <1>1, <1>2, LeaseInit, LeaseStep, PTL DEF AuthoritySpec, LeasesCountOnce, Register!RegisterSpec
-----------------------------------------------------------------------------
(* A panel that is admitted has the lease of its window *)

AskOps == {"prepare", "confirm", "admit"}
AskPhases == {"preparing", "confirming", "admitting"}
DocPhases == AskOps \cup AskPhases \cup {"refused", "admitted"}
IsAsk(entry) == entry.op \in AskOps
Entries ==
  [op : {"revoke", "bind"}, window : Panels, event : Nat]
  \cup [op : {"release"}, window : Panels]
  \cup [op : AskOps, document : Documents, proof : Nat]

\* The documents there have been.
Made == {d \in Documents : doc[d].phase # "none"}

AuthorityTypeOK ==
  /\ panel \in [Panels -> {"closed", "opening", "open", "removed"}]
  /\ document \in [Panels -> Nat]
  /\ DOMAIN doc = Documents
  /\ \A d \in Made : doc[d] \in [window : Panels, phase : DocPhases, stored : Nat]
  /\ \A w \in Panels : panel[w] = "open" => document[w] \in Made /\ doc[document[w]].window = w
  /\ queue \in Seq(Entries)
  /\ openings \in Nat /\ poisoned \in BOOLEAN
  /\ \A e \in events : e \in [id : Nat, window : Panels, next : {"settle", "bind"}] /\ e.id < openings
  /\ \A e, f \in events : e.id = f.id => e = f
  /\ work.stage \in {"idle", "seen", "saving"}
  /\ work.stage = "seen" => work.contexts \subseteq Made

\* What a document asked is in the queue once, with the capability it still holds; what is
\* saved is what the first entry asked.
AsksFit ==
  /\ \A i \in DOMAIN queue : IsAsk(queue[i]) =>
       /\ queue[i].document \in Made /\ doc[queue[i].document].phase = Asks[queue[i].op]
       /\ queue[i].proof = doc[queue[i].document].stored
  /\ \A i, j \in DOMAIN queue : IsAsk(queue[i]) /\ IsAsk(queue[j]) /\ queue[i].document = queue[j].document => i = j
  /\ \A d \in Made : doc[d].phase \in AskPhases =>
       \E i \in DOMAIN queue : IsAsk(queue[i]) /\ queue[i].document = d
  /\ work.stage = "saving" =>
       /\ queue # <<>>
       /\ IsAsk(Head(queue)) => work.answer.to = Head(queue).document
       /\ work.answer.to # 0 => IsAsk(Head(queue)) /\ work.answer.phase \in AskOps /\ work.answer.capability \in Nat
       /\ work.answer.bound <=> Head(queue).op = "bind"

\* Each operation of an opening in the queue has its event, revocations before binds.
EventsFit == ~poisoned =>
  /\ \A i \in DOMAIN queue : queue[i].op \in {"revoke", "bind"} =>
       \E e \in events : /\ e.id = queue[i].event /\ e.window = queue[i].window
                         /\ e.next = IF queue[i].op = "bind" THEN "bind" ELSE "settle"
  /\ \A i, j \in DOMAIN queue : queue[i].op = "bind" /\ queue[j].op = "bind" /\ queue[i].event = queue[j].event => i = j

\* While an opening is observed its window has no record, once the old one is revoked and
\* until the new one is being saved.
OpeningsFit == ~poisoned =>
  /\ \A e \in events :
       \/ windows[e.window].stage = "none"
       \/ \E i \in DOMAIN queue : queue[i].op = "revoke" /\ queue[i].event = e.id
       \/ work.stage = "saving" /\ Head(queue).op = "bind" /\ Head(queue).event = e.id
  /\ work.stage = "saving" /\ Head(queue).op = "revoke" => windows[Head(queue).window].stage = "none"

\* Records are of documents there have been; a capability is not newer than the last one
\* issued; a window whose record is to be released is gone.
RecordsMade ==
  /\ \A w \in Panels : windows[w].stage # "none" => windows[w].document \in Made
  /\ \A w \in Panels : disk[w].stage # "none" => disk[w].document \in Made
  /\ \A d \in Made : doc[d].stored <= capability
  /\ work.stage = "saving" /\ work.answer.to # 0 => work.answer.capability <= capability
  /\ \A i \in DOMAIN queue : queue[i].op = "release" => panel[queue[i].window] = "removed"

\* Unless the contexts were muddled, a document is recorded for its own window, in memory
\* and in storage, and has capabilities of its own window only.
OwnWindow(records) ==
  /\ \A d \in Live : \A w \in Panels : records[w].stage # "none" /\ records[w].document = d => doc[d].window = w
  /\ \A d \in Made : \A w \in Panels :
       Issued(records[w]) /\ records[w].capability = doc[d].stored => doc[d].window = w
  /\ \A w \in Panels :
       work.stage = "saving" /\ work.answer.to # 0 /\ Issued(records[w]) /\ records[w].capability = work.answer.capability =>
         doc[work.answer.to].window = w

OwnersFit == ~muddled =>
  /\ OwnWindow(windows) /\ OwnWindow(disk)
  /\ ~poisoned =>
       /\ \A e \in events : \A d \in Live : Owners(d) = {} => doc[d].window = e.window
       /\ \A i \in DOMAIN queue : \A d \in Live : queue[i].op = "revoke" => queue[i].window \notin Owners(d)

\* The record of an admitted panel, in memory and in storage.
HoldsLease(record, d) == record.stage = "active" /\ record.document = d /\ record.capability = doc[d].stored
AdmittedFit == ~muddled =>
  \A d \in Live : doc[d].phase = "admitted" =>
    HoldsLease(windows[doc[d].window], d) /\ HoldsLease(disk[doc[d].window], d)

\* What steps do to the queue: an entry more, the first one done.
LEMMA EntryAdded ==
  ASSUME NEW S, NEW q \in Seq(S), NEW e \in S
  PROVE  /\ Append(q, e) \in Seq(S) /\ DOMAIN q \subseteq DOMAIN Append(q, e)
         /\ \A i \in DOMAIN q : Append(q, e)[i] = q[i]
         /\ Len(q) + 1 \in DOMAIN Append(q, e) /\ Append(q, e)[Len(q) + 1] = e
         /\ \A i \in DOMAIN Append(q, e) : i \in DOMAIN q \/ i = Len(q) + 1
         /\ Len(q) + 1 \notin DOMAIN q
         /\ q # <<>> => Append(q, e) # <<>> /\ Head(Append(q, e)) = Head(q)
OBVIOUS

\* The queue without its first entry.
LEMMA EntryDone ==
  ASSUME NEW S, NEW q \in Seq(S), q # <<>>
  PROVE  /\ Tail(q) \o <<>> = Tail(q) /\ Tail(q) \in Seq(S) /\ 1 \in DOMAIN q /\ q[1] = Head(q) /\ Head(q) \in S
         /\ DOMAIN q \subseteq Nat
         /\ \A i \in DOMAIN Tail(q) : i \in Nat /\ i + 1 \in DOMAIN q /\ i + 1 # 1 /\ Tail(q)[i] = q[i + 1]
         /\ \A i \in DOMAIN q \ {1} : i - 1 \in DOMAIN Tail(q) /\ Tail(q)[i - 1] = q[i]
OBVIOUS

\* An entry of the queue is one of its kinds.
LEMMA EntryIs ==
  ASSUME AuthorityTypeOK, NEW i \in DOMAIN queue
  PROVE  /\ queue[i] \in Entries
         /\ queue[i].op \in {"revoke", "bind", "release"} \cup AskOps
         /\ queue[i].op \in {"revoke", "bind", "release"} => queue[i].window \in Panels
         /\ queue[i].op \in {"revoke", "bind"} => queue[i].event \in Nat
         /\ IsAsk(queue[i]) => queue[i].document \in Documents /\ queue[i].proof \in Nat
<1>1. queue[i] \in Entries BY DEF AuthorityTypeOK
<1> QED BY <1>1 DEF Entries, IsAsk, AskOps

\* A document changes what it does, or what it holds.
LEMMA DocChanges ==
  ASSUME AuthorityTypeOK, NEW d \in Made, NEW phase \in DocPhases, NEW c \in Nat,
         doc' = [doc EXCEPT ![d].phase = phase, ![d].stored = c]
  PROVE  /\ DOMAIN doc' = Documents /\ Made' = Made
         /\ \A x \in Documents \ {d} : doc'[x] = doc[x]
         /\ doc'[d] = [window |-> doc[d].window, phase |-> phase, stored |-> c]
         /\ \A x \in Made : doc'[x] \in [window : Panels, phase : DocPhases, stored : Nat]
<1>1. DOMAIN doc = Documents /\ d \in Documents /\ doc[d] \in [window : Panels, phase : DocPhases, stored : Nat]
  BY DEF AuthorityTypeOK, Made
<1>2. /\ DOMAIN doc' = Documents /\ \A x \in Documents \ {d} : doc'[x] = doc[x]
      /\ doc'[d] = [window |-> doc[d].window, phase |-> phase, stored |-> c]
  BY <1>1
<1>3. phase # "none" BY DEF DocPhases, AskOps, AskPhases
<1>4. Made' = Made BY <1>2, <1>3 DEF Made
<1>5. \A x \in Made : doc'[x] \in [window : Panels, phase : DocPhases, stored : Nat]
  BY <1>2 DEF AuthorityTypeOK, Made
<1> QED BY <1>2, <1>4, <1>5

\* It changes what it does only.
LEMMA DocMoves ==
  ASSUME AuthorityTypeOK, NEW d \in Made, NEW phase \in DocPhases, doc' = [doc EXCEPT ![d].phase = phase]
  PROVE  /\ DOMAIN doc' = Documents /\ Made' = Made
         /\ \A x \in Documents \ {d} : doc'[x] = doc[x]
         /\ doc'[d] = [window |-> doc[d].window, phase |-> phase, stored |-> doc[d].stored]
         /\ \A x \in Made : doc'[x] \in [window : Panels, phase : DocPhases, stored : Nat]
<1>1. DOMAIN doc = Documents /\ d \in Documents /\ doc[d] \in [window : Panels, phase : DocPhases, stored : Nat]
  BY DEF AuthorityTypeOK, Made
<1>2. /\ DOMAIN doc' = Documents /\ \A x \in Documents \ {d} : doc'[x] = doc[x]
      /\ doc'[d] = [window |-> doc[d].window, phase |-> phase, stored |-> doc[d].stored]
  BY <1>1
<1>3. phase # "none" BY DEF DocPhases, AskOps, AskPhases
<1>4. Made' = Made BY <1>2, <1>3 DEF Made
<1>5. \A x \in Made : doc'[x] \in [window : Panels, phase : DocPhases, stored : Nat]
  BY <1>2 DEF AuthorityTypeOK, Made
<1> QED BY <1>2, <1>4, <1>5

\* A document appears.
LEMMA DocAppears ==
  ASSUME AuthorityTypeOK, NEW w \in Panels, NEW c \in Nat, Loads(w, c)
  PROVE  \E d \in Documents \ Made :
           /\ DOMAIN doc' = Documents /\ Made' = Made \cup {d}
           /\ \A x \in Documents \ {d} : doc'[x] = doc[x]
           /\ doc'[d] = [window |-> w, phase |-> "prepare", stored |-> c]
           /\ \A x \in Made' : doc'[x] \in [window : Panels, phase : DocPhases, stored : Nat]
           /\ document' = [document EXCEPT ![w] = d]
<1>1. PICK d \in Documents : /\ doc[d].phase = "none"
                             /\ doc' = [doc EXCEPT ![d] = [window |-> w, phase |-> "prepare", stored |-> c]]
                             /\ document' = [document EXCEPT ![w] = d]
  BY DEF Loads
<1>2. DOMAIN doc = Documents BY DEF AuthorityTypeOK
<1>3. /\ DOMAIN doc' = Documents /\ \A x \in Documents \ {d} : doc'[x] = doc[x]
      /\ doc'[d] = [window |-> w, phase |-> "prepare", stored |-> c]
  BY <1>1, <1>2
<1>4. Made' = Made \cup {d} /\ d \notin Made BY <1>1, <1>3 DEF Made
<1>5. \A x \in Made' : doc'[x] \in [window : Panels, phase : DocPhases, stored : Nat]
  <2>1. doc'[d] \in [window : Panels, phase : DocPhases, stored : Nat]
    BY <1>3 DEF DocPhases, AskOps
  <2>2. \A x \in Made : doc'[x] = doc[x] BY <1>3, <1>4 DEF Made
  <2> QED BY <1>4, <2>1, <2>2 DEF AuthorityTypeOK
<1> QED BY <1>1, <1>3, <1>4, <1>5

\* A document is refused what it asked.
LEMMA DocRejected ==
  ASSUME AuthorityTypeOK, NEW d \in Made, Rejects(d)
  PROVE  \E phase \in AskOps \cup {"refused"} : doc' = [doc EXCEPT ![d].phase = phase]
BY DEF Rejects, AskOps

\* The first entry is done, and its document, if it asked, has its answer.
LEMMA AsksDone ==
  ASSUME AuthorityTypeOK, AsksFit, queue # <<>>, queue' = Tail(queue), work' = Idle, Made' = Made,
         \A x \in Made : (IsAsk(Current) => x # Current.document) =>
            doc'[x].phase = doc[x].phase /\ doc'[x].stored = doc[x].stored,
         IsAsk(Current) => doc'[Current.document].phase \notin AskPhases
  PROVE  AsksFit'
<1>1. queue \in Seq(Entries) BY DEF AuthorityTypeOK
<1>2. /\ 1 \in DOMAIN queue /\ queue[1] = Current /\ DOMAIN queue \subseteq Nat
      /\ \A i \in DOMAIN queue' : i \in Nat /\ i + 1 \in DOMAIN queue /\ i + 1 # 1 /\ queue'[i] = queue[i + 1]
      /\ \A i \in DOMAIN queue \ {1} : i - 1 \in DOMAIN queue' /\ queue'[i - 1] = queue[i]
  BY <1>1, EntryDone DEF Current
<1>3. work'.stage # "saving" BY DEF Idle
<1>4. \A i \in DOMAIN queue' : IsAsk(queue'[i]) =>
        /\ queue'[i].document \in Made' /\ doc'[queue'[i].document].phase = Asks[queue'[i].op]
        /\ queue'[i].proof = doc'[queue'[i].document].stored
  <2> TAKE i \in DOMAIN queue'
  <2> HAVE IsAsk(queue'[i])
  <2>1. i + 1 \in DOMAIN queue /\ i + 1 # 1 /\ queue'[i] = queue[i + 1] BY <1>2
  <2>2. /\ queue[i + 1].document \in Made /\ doc[queue[i + 1].document].phase = Asks[queue[i + 1].op]
        /\ queue[i + 1].proof = doc[queue[i + 1].document].stored
    BY <2>1 DEF AsksFit
  <2>3. IsAsk(Current) => queue[i + 1].document # Current.document
    BY <1>2, <2>1 DEF AsksFit
  <2> QED BY <2>1, <2>2, <2>3
<1>5. ASSUME NEW i \in DOMAIN queue', NEW j \in DOMAIN queue', IsAsk(queue'[i]), IsAsk(queue'[j]),
             queue'[i].document = queue'[j].document
      PROVE  i = j
  <2>1. i + 1 = j + 1 BY <1>2, <1>5 DEF AsksFit
  <2> QED BY <1>2, <2>1
<1>6. ASSUME NEW d \in Made, doc'[d].phase \in AskPhases
      PROVE  \E i \in DOMAIN queue' : IsAsk(queue'[i]) /\ queue'[i].document = d
  <2>1. IsAsk(Current) => d # Current.document BY <1>6
  <2>2. doc[d].phase \in AskPhases BY <1>6, <2>1
  <2>3. PICK i \in DOMAIN queue : IsAsk(queue[i]) /\ queue[i].document = d BY <2>2 DEF AsksFit
  <2>4. i # 1 BY <1>2, <2>1, <2>3
  <2> QED BY <1>2, <2>3, <2>4
<1> HIDE DEF Current, IsAsk
<1> QED BY <1>3, <1>4, <1>5, <1>6 DEF AsksFit

\* The queue stays as it is, and so does what the documents asked.
LEMMA AsksKept ==
  ASSUME AsksFit, queue' = queue, Made \subseteq Made',
         \A x \in Made : doc'[x].phase = doc[x].phase /\ doc'[x].stored = doc[x].stored,
         \A x \in Made' \ Made : doc'[x].phase \notin AskPhases,
         work'.stage = "saving" =>
           \/ work.stage = "saving" /\ work' = work
           \/ /\ queue # <<>>
              /\ IsAsk(Current) => work'.answer.to = Current.document
              /\ work'.answer.to # 0 => IsAsk(Current) /\ work'.answer.phase \in AskOps /\ work'.answer.capability \in Nat
              /\ work'.answer.bound <=> Current.op = "bind"
  PROVE  AsksFit'
<1>1. work'.stage = "saving" =>
        /\ queue # <<>>
        /\ IsAsk(Head(queue)) => work'.answer.to = Head(queue).document
        /\ work'.answer.to # 0 => IsAsk(Head(queue)) /\ work'.answer.phase \in AskOps /\ work'.answer.capability \in Nat
        /\ work'.answer.bound <=> Head(queue).op = "bind"
  BY DEF AsksFit, Current
<1>2. \A i \in DOMAIN queue : IsAsk(queue[i]) =>
        /\ queue[i].document \in Made' /\ doc'[queue[i].document].phase = Asks[queue[i].op]
        /\ queue[i].proof = doc'[queue[i].document].stored
  BY DEF AsksFit
<1>3. \A d \in Made' : doc'[d].phase \in AskPhases =>
        \E i \in DOMAIN queue : IsAsk(queue[i]) /\ queue[i].document = d
  BY DEF AsksFit
<1>4. \A i, j \in DOMAIN queue : IsAsk(queue[i]) /\ IsAsk(queue[j]) /\ queue[i].document = queue[j].document => i = j
  BY DEF AsksFit
<1> HIDE DEF IsAsk
<1> QED BY <1>1, <1>2, <1>3, <1>4 DEF AsksFit

\* An operation that no document asked joins the queue.
LEMMA AsksOther ==
  ASSUME AuthorityTypeOK, AsksFit, NEW e \in Entries, ~IsAsk(e), queue' = Append(queue, e),
         UNCHANGED <<doc, work>>
  PROVE  AsksFit'
<1>1. queue \in Seq(Entries) BY DEF AuthorityTypeOK
<1>2. /\ DOMAIN queue \subseteq DOMAIN queue' /\ \A i \in DOMAIN queue : queue'[i] = queue[i]
      /\ \A i \in DOMAIN queue' : IsAsk(queue'[i]) => i \in DOMAIN queue
      /\ queue # <<>> => queue' # <<>> /\ Head(queue') = Head(queue)
  BY <1>1, EntryAdded
<1>3. Made' = Made BY DEF Made
<1> HIDE DEF IsAsk
<1>4. \A i \in DOMAIN queue' : IsAsk(queue'[i]) =>
        /\ queue'[i].document \in Made /\ doc[queue'[i].document].phase = Asks[queue'[i].op]
        /\ queue'[i].proof = doc[queue'[i].document].stored
  BY <1>2 DEF AsksFit
<1>5. \A i, j \in DOMAIN queue' : IsAsk(queue'[i]) /\ IsAsk(queue'[j]) /\ queue'[i].document = queue'[j].document => i = j
  BY <1>2 DEF AsksFit
<1>6. \A d \in Made : doc[d].phase \in AskPhases => \E i \in DOMAIN queue' : IsAsk(queue'[i]) /\ queue'[i].document = d
  BY <1>2 DEF AsksFit
<1> QED BY <1>2, <1>3, <1>4, <1>5, <1>6 DEF AsksFit

\* A document asks: it had nothing in the queue.
LEMMA AsksMore ==
  ASSUME AuthorityTypeOK, AsksFit, NEW d \in Made, DocumentAsks(d)
  PROVE  AuthorityTypeOK' /\ AsksFit'
<1> DEFINE op == doc[d].phase
           e == [op |-> op, document |-> d, proof |-> doc[d].stored]
<1>1. queue \in Seq(Entries) /\ doc[d] \in [window : Panels, phase : DocPhases, stored : Nat] /\ d \in Documents
  BY DEF AuthorityTypeOK, Made
<1>2. op \in AskOps /\ Asks[op] \in AskPhases BY DEF DocumentAsks, Asks, AskOps, AskPhases
<1>3. e \in Entries BY <1>1, <1>2 DEF Entries
<1>4. e.op = op /\ e.document = d /\ e.proof = doc[d].stored /\ IsAsk(e) BY <1>2 DEF IsAsk
<1>5. queue' = Append(queue, e) /\ doc' = [doc EXCEPT ![d].phase = Asks[op]]
      /\ UNCHANGED <<panel, document, openings, events, work, poisoned>>
  BY DEF DocumentAsks
<1> HIDE DEF e, op
<1>6. /\ queue' \in Seq(Entries) /\ DOMAIN queue \subseteq DOMAIN queue' /\ (\A i \in DOMAIN queue : queue'[i] = queue[i])
      /\ Len(queue) + 1 \in DOMAIN queue' /\ queue'[Len(queue) + 1] = e
      /\ \A i \in DOMAIN queue' : i \in DOMAIN queue \/ i = Len(queue) + 1
      /\ queue # <<>> => queue' # <<>> /\ Head(queue') = Head(queue)
  BY <1>1, <1>3, <1>5, EntryAdded
<1>7. Asks[op] \in DocPhases BY <1>2 DEF DocPhases
<1>8. /\ DOMAIN doc' = Documents /\ Made' = Made
      /\ \A x \in Documents \ {d} : doc'[x] = doc[x]
      /\ doc'[d] = [window |-> doc[d].window, phase |-> Asks[op], stored |-> doc[d].stored]
      /\ \A x \in Made : doc'[x] \in [window : Panels, phase : DocPhases, stored : Nat]
  BY <1>5, <1>7, DocMoves
<1>9. Made \subseteq Documents BY DEF Made
<1>10. \A x \in Made : doc'[x].window = doc[x].window /\ doc'[x].stored = doc[x].stored
  BY <1>8, <1>9
<1>11. AuthorityTypeOK'
  BY <1>5, <1>6, <1>8, <1>10 DEF AuthorityTypeOK
\* Nothing of d is in the queue: its phase is another.
<1>12. \A i \in DOMAIN queue : IsAsk(queue[i]) => queue[i].document # d
  <2>1. \A o \in AskOps : Asks[o] \notin AskOps BY DEF Asks, AskOps
  <2> QED BY <1>2, <2>1 DEF AsksFit, IsAsk, op
<1> HIDE DEF IsAsk
<1>13. \A i \in DOMAIN queue' : IsAsk(queue'[i]) =>
        /\ queue'[i].document \in Made' /\ doc'[queue'[i].document].phase = Asks[queue'[i].op]
        /\ queue'[i].proof = doc'[queue'[i].document].stored
  <2> TAKE i \in DOMAIN queue'
  <2> HAVE IsAsk(queue'[i])
  <2>1. CASE i = Len(queue) + 1 BY <1>4, <1>6, <1>8, <2>1
  <2>2. CASE i \in DOMAIN queue
    <3>1. /\ queue'[i] = queue[i] /\ queue[i].document \in Made /\ queue[i].document # d
          /\ doc[queue[i].document].phase = Asks[queue[i].op] /\ queue[i].proof = doc[queue[i].document].stored
      BY <1>6, <1>12, <2>2 DEF AsksFit
    <3> QED BY <1>8, <1>9, <3>1
  <2> QED BY <1>6, <2>1, <2>2
<1>14. \A i, j \in DOMAIN queue' : IsAsk(queue'[i]) /\ IsAsk(queue'[j]) /\ queue'[i].document = queue'[j].document => i = j
  BY <1>4, <1>6, <1>12 DEF AsksFit
<1>15. \A x \in Made' : doc'[x].phase \in AskPhases => \E i \in DOMAIN queue' : IsAsk(queue'[i]) /\ queue'[i].document = x
  <2> TAKE x \in Made'
  <2> HAVE doc'[x].phase \in AskPhases
  <2>1. CASE x = d BY <1>4, <1>6, <2>1
  <2>2. CASE x # d
    <3>1. doc[x].phase \in AskPhases /\ x \in Made BY <1>8, <1>9, <2>2
    <3> QED BY <1>6, <3>1 DEF AsksFit
  <2> QED BY <2>1, <2>2
<1> QED BY <1>5, <1>6, <1>11, <1>13, <1>14, <1>15 DEF AsksFit

\* A step of the worker leaves the types: documents change what they do or hold only.
LEMMA WorkerTypes ==
  ASSUME AuthorityTypeOK, UNCHANGED <<panel, document, openings>>, queue' \in Seq(Entries), events' \subseteq events,
         DOMAIN doc' = Documents, Made' = Made, \A x \in Made : doc'[x].window = doc[x].window,
         \A x \in Made : doc'[x] \in [window : Panels, phase : DocPhases, stored : Nat],
         work'.stage \in {"idle", "seen", "saving"}, work'.stage = "seen" => work'.contexts \subseteq Made,
         poisoned' \in BOOLEAN
  PROVE  AuthorityTypeOK'
BY DEF AuthorityTypeOK

\* The worker answers the document that asked first: an answer changes what it does, and
\* perhaps what it holds.
LEMMA AskAnswered ==
  ASSUME AuthorityTypeOK, AsksFit, queue # <<>>, queue' = Tail(queue), work' = Idle, events' \subseteq events,
         UNCHANGED <<panel, document, openings, poisoned>>,
         \/ doc' = doc /\ ~IsAsk(Current)
         \/ /\ IsAsk(Current)
            /\ \/ \E phase \in DocPhases \ AskPhases : doc' = [doc EXCEPT ![Current.document].phase = phase]
               \/ \E phase \in DocPhases \ AskPhases, c \in Nat :
                    doc' = [doc EXCEPT ![Current.document].phase = phase, ![Current.document].stored = c]
  PROVE  AuthorityTypeOK' /\ AsksFit'
<1> DEFINE d == Current.document
<1>1. queue \in Seq(Entries) BY DEF AuthorityTypeOK
<1>2. 1 \in DOMAIN queue /\ queue[1] = Current /\ queue' \in Seq(Entries)
  BY <1>1, EntryDone DEF Current
<1>3. Idle.stage = "idle" BY DEF Idle
<1>4. Made \subseteq Documents /\ DOMAIN doc = Documents
      /\ \A x \in Made : doc[x] \in [window : Panels, phase : DocPhases, stored : Nat]
  BY DEF AuthorityTypeOK, Made
<1>5. IsAsk(Current) => d \in Made BY <1>2 DEF AsksFit
<1>6. poisoned' \in BOOLEAN BY DEF AuthorityTypeOK
<1> HIDE DEF d
<1>7. CASE doc' = doc /\ ~IsAsk(Current)
  <2>1. Made' = Made BY <1>7 DEF Made
  <2>2. AuthorityTypeOK' BY <1>2, <1>3, <1>4, <1>6, <1>7, <2>1, WorkerTypes
  <2> QED BY <1>7, <2>1, <2>2, AsksDone
<1>8. ASSUME IsAsk(Current), NEW phase \in DocPhases \ AskPhases, NEW c \in Nat, Made' = Made, DOMAIN doc' = Documents,
             \A x \in Documents \ {d} : doc'[x] = doc[x],
             doc'[d] = [window |-> doc[d].window, phase |-> phase, stored |-> c],
             \A x \in Made : doc'[x] \in [window : Panels, phase : DocPhases, stored : Nat]
      PROVE  AuthorityTypeOK' /\ AsksFit'
  <2>1. \A x \in Made : doc'[x].window = doc[x].window BY <1>4, <1>8
  <2>2. AuthorityTypeOK' BY <1>2, <1>3, <1>6, <1>8, <2>1, WorkerTypes
  <2>3. \A x \in Made : x # d => doc'[x].phase = doc[x].phase /\ doc'[x].stored = doc[x].stored BY <1>4, <1>8
  <2>4. doc'[d].phase \notin AskPhases BY <1>8
  <2> QED BY <1>8, <2>2, <2>3, <2>4, AsksDone DEF d
<1>9. ASSUME IsAsk(Current), NEW phase \in DocPhases \ AskPhases, doc' = [doc EXCEPT ![d].phase = phase]
      PROVE  AuthorityTypeOK' /\ AsksFit'
  <2>1. doc[d].stored \in Nat /\ d \in Made BY <1>4, <1>5, <1>9
  <2> QED BY <1>8, <1>9, <2>1, DocMoves
<1>10. ASSUME IsAsk(Current), NEW phase \in DocPhases \ AskPhases, NEW c \in Nat,
              doc' = [doc EXCEPT ![d].phase = phase, ![d].stored = c]
       PROVE  AuthorityTypeOK' /\ AsksFit'
  <2>1. d \in Made /\ phase \in DocPhases BY <1>5, <1>10
  <2>2. /\ DOMAIN doc' = Documents /\ Made' = Made
        /\ \A x \in Documents \ {d} : doc'[x] = doc[x]
        /\ doc'[d] = [window |-> doc[d].window, phase |-> phase, stored |-> c]
        /\ \A x \in Made : doc'[x] \in [window : Panels, phase : DocPhases, stored : Nat]
    BY <1>10, <2>1, DocChanges
  <2> QED BY <1>8, <1>10, <2>2
<1> QED BY <1>7, <1>9, <1>10 DEF d

\* A record is set: the first entry is the one that asked for it.
LEMMA SavingBegun ==
  ASSUME AuthorityTypeOK, AsksFit, queue # <<>>, UNCHANGED <<panelVars, events, queue, poisoned>>,
         NEW answer, work' = [stage |-> "saving", answer |-> answer],
         IsAsk(Current) => answer.to = Current.document,
         answer.to # 0 => IsAsk(Current) /\ answer.phase \in AskOps /\ answer.capability \in Nat,
         answer.bound <=> Current.op = "bind"
  PROVE  AuthorityTypeOK' /\ AsksFit'
<1>1. UNCHANGED <<panel, document, doc, openings, events, queue, poisoned>> BY DEF panelVars
<1>2. work'.stage = "saving" /\ work'.answer = answer OBVIOUS
<1>3. Made' = Made BY <1>1 DEF Made
<1>4. AuthorityTypeOK' BY <1>1, <1>2, <1>3, WorkerTypes DEF AuthorityTypeOK
<1>5. AsksFit' BY <1>1, <1>2, <1>3, AsksKept
<1> QED BY <1>4, <1>5

\* An answer moves the document on, or back to where it asks again.
LEMMA AnswersMove ==
  ASSUME AuthorityTypeOK, AsksFit, queue # <<>>, IsAsk(Current),
         \/ Rejects(Current.document)
         \/ \E phase \in AskOps, c \in Nat : Accepts(Current.document, phase, c)
         \/ doc' = [doc EXCEPT ![Current.document].phase = "admitted"]
  PROVE  \/ \E phase \in DocPhases \ AskPhases : doc' = [doc EXCEPT ![Current.document].phase = phase]
         \/ \E phase \in DocPhases \ AskPhases, c \in Nat :
              doc' = [doc EXCEPT ![Current.document].phase = phase, ![Current.document].stored = c]
<1>1. AskOps \cup {"refused", "admitted"} \subseteq DocPhases \ AskPhases BY DEF DocPhases, AskPhases, AskOps
<1>2. queue \in Seq(Entries) BY DEF AuthorityTypeOK
<1>3. 1 \in DOMAIN queue /\ queue[1] = Current BY <1>2, EntryDone DEF Current
<1>4. Current.document \in Made BY <1>3 DEF AsksFit
<1>5. CASE Rejects(Current.document) BY <1>1, <1>4, <1>5, DocRejected
<1>6. CASE \E phase \in AskOps, c \in Nat : Accepts(Current.document, phase, c) BY <1>1, <1>6 DEF Accepts
<1>7. CASE doc' = [doc EXCEPT ![Current.document].phase = "admitted"] BY <1>1, <1>7
<1> QED BY <1>5, <1>6, <1>7

\* Every step of the authority keeps what is asked and what is queued together.
LEMMA AskStep ==
  ASSUME AuthorityTypeOK, AsksFit, LeaseInv, [AuthorityNext]_authorityVars
  PROVE  AuthorityTypeOK' /\ AsksFit'
<1>1. queue \in Seq(Entries) /\ capability \in Nat BY DEF AuthorityTypeOK, LeaseInv
<1>2. queue # <<>> =>
        /\ 1 \in DOMAIN queue /\ queue[1] = Current /\ Tail(queue) \o <<>> = Tail(queue)
        /\ Tail(queue) \in Seq(Entries) /\ Current \in Entries
  BY <1>1, EntryDone DEF Current
<1>3. queue # <<>> /\ IsAsk(Current) => Current.document \in Made /\ Current.proof \in Nat
  BY <1>2, EntryIs DEF AsksFit
<1>4. Made \subseteq Documents /\ Documents \subseteq Nat BY DEF Made, Documents
<1>5. Idle.stage = "idle" BY DEF Idle
<1>6. {"prepare", "confirm", "admit"} = AskOps /\ {"revoke", "bind", "release"} \cap AskOps = {} BY DEF AskOps
\* Steps that leave documents and queue alone.
<1>7. ASSUME UNCHANGED <<panel, document, doc, openings, queue>>, events' \subseteq events, poisoned' \in BOOLEAN,
             work' = work \/ work' = Idle \/ (work'.stage = "seen" /\ work'.contexts = Live)
      PROVE  AuthorityTypeOK' /\ AsksFit'
  <2>1. Made' = Made BY <1>7 DEF Made
  <2>2. Live \subseteq Made BY DEF Live, Made
  <2>3. work'.stage \in {"idle", "seen", "saving"} /\ (work'.stage = "seen" => work'.contexts \subseteq Made)
    BY <1>5, <1>7, <2>2 DEF AuthorityTypeOK
  <2>4. DOMAIN doc' = Documents /\ \A x \in Made : doc'[x] \in [window : Panels, phase : DocPhases, stored : Nat]
    BY <1>7 DEF AuthorityTypeOK
  <2>5. UNCHANGED <<panel, document, openings>> /\ queue' \in Seq(Entries) /\ \A x \in Made : doc'[x].window = doc[x].window
    BY <1>1, <1>7
  <2>6. AuthorityTypeOK' BY <1>7, <2>1, <2>3, <2>4, <2>5, WorkerTypes
  <2>7. work'.stage = "saving" => work.stage = "saving" /\ work' = work BY <1>5, <1>7
  <2>8. AsksFit' BY <1>7, <2>1, <2>7, AsksKept
  <2> QED BY <2>6, <2>8
\* Answers.
<1>8. ASSUME queue # <<>>, Done(<<>>), events' \subseteq events, UNCHANGED <<panel, document, openings, poisoned>>,
             \/ doc' = doc /\ ~IsAsk(Current)
             \/ /\ IsAsk(Current)
                /\ \/ Rejects(Current.document)
                   \/ \E phase \in AskOps, c \in Nat : Accepts(Current.document, phase, c)
                   \/ doc' = [doc EXCEPT ![Current.document].phase = "admitted"]
      PROVE  AuthorityTypeOK' /\ AsksFit'
  <2>1. queue' = Tail(queue) /\ work' = Idle BY <1>2, <1>8 DEF Done
  <2>2. CASE doc' = doc /\ ~IsAsk(Current) BY <1>8, <2>1, <2>2, AskAnswered
  <2>3. CASE IsAsk(Current) /\ ~(doc' = doc /\ ~IsAsk(Current))
    <3>1. \/ Rejects(Current.document)
          \/ \E phase \in AskOps, c \in Nat : Accepts(Current.document, phase, c)
          \/ doc' = [doc EXCEPT ![Current.document].phase = "admitted"]
      BY <1>8, <2>3
    <3>2. \/ \E phase \in DocPhases \ AskPhases : doc' = [doc EXCEPT ![Current.document].phase = phase]
          \/ \E phase \in DocPhases \ AskPhases, c \in Nat :
               doc' = [doc EXCEPT ![Current.document].phase = phase, ![Current.document].stored = c]
      BY <1>8, <2>3, <3>1, AnswersMove
    <3> QED BY <1>8, <2>1, <2>3, <3>2, AskAnswered
  <2> QED BY <1>8, <2>2, <2>3
\* Saves begun.
<1>9. ASSUME queue # <<>>, NEW w, NEW record, NEW created, NEW answer, Sets(w, record, created, answer),
             UNCHANGED <<panel, document, doc, openings, events, queue, poisoned>>,
             IsAsk(Current) => answer.to = Current.document,
             answer.to # 0 => IsAsk(Current) /\ answer.phase \in AskOps /\ answer.capability \in Nat,
             answer.bound <=> Current.op = "bind"
      PROVE  AuthorityTypeOK' /\ AsksFit'
  <2>1. work' = [stage |-> "saving", answer |-> answer] BY <1>9 DEF Sets
  <2>2. UNCHANGED <<panelVars, events, queue, poisoned>> BY <1>9 DEF panelVars
  <2> QED BY <1>9, <2>1, <2>2, SavingBegun
<1>10. CASE SeesContexts BY <1>7, <1>10 DEF SeesContexts, panelVars, AuthorityTypeOK
<1>11. CASE Deletes
  <2>1. queue # <<>> /\ Current.op \in {"revoke", "release"} BY <1>11 DEF Deletes, Begins
  <2>2. ~IsAsk(Current) BY <1>6, <2>1 DEF IsAsk
  <2>3. UNCHANGED <<panel, document, doc, openings, events, poisoned>> BY <1>11 DEF Deletes, panelVars
  <2>4. CASE windows[Current.window] = NoRecord
    <3>1. Done(<<>>) BY <1>11, <2>4 DEF Deletes
    <3>2. events' \subseteq events BY <2>3
    <3> QED BY <1>8, <2>1, <2>2, <2>3, <3>1, <3>2
  <2>5. CASE windows[Current.window] # NoRecord
    <3>1. Sets(Current.window, NoRecord, FALSE, NoAnswer) /\ UNCHANGED queue BY <1>11, <2>5 DEF Deletes
    <3>2. NoAnswer.to = 0 /\ NoAnswer.bound = FALSE BY DEF NoAnswer
    <3> QED BY <1>9, <2>1, <2>2, <2>3, <3>1, <3>2
  <2> QED BY <2>4, <2>5
<1>12. CASE Binds
  <2>1. queue # <<>> /\ Current.op = "bind" BY <1>12 DEF Binds, Begins
  <2>2. ~IsAsk(Current) BY <1>6, <2>1 DEF IsAsk
  <2>3. UNCHANGED <<panel, document, doc, openings, poisoned>> BY <1>12 DEF Binds, panelVars
  <2>4. CASE Done(<<>>) /\ events' = {e \in events : e.id # Current.event}
    BY <1>8, <2>1, <2>2, <2>3, <2>4
  <2>5. CASE work' = Idle /\ UNCHANGED <<events, queue>>
    <3>1. poisoned' \in BOOLEAN /\ events' \subseteq events BY <2>3, <2>5 DEF AuthorityTypeOK
    <3> QED BY <1>7, <2>3, <2>5, <3>1
  <2>6. CASE UNCHANGED <<events, queue>> /\ \E d \in Made :
               Sets(Current.window, [stage |-> "opened", document |-> d], FALSE, [to |-> 0, bound |-> TRUE])
    <3>1. PICK d \in Made :
                 Sets(Current.window, [stage |-> "opened", document |-> d], FALSE, [to |-> 0, bound |-> TRUE])
      BY <2>6
    <3>2. [to |-> 0, bound |-> TRUE].to = 0 /\ [to |-> 0, bound |-> TRUE].bound = TRUE OBVIOUS
    <3> QED BY <1>9, <2>1, <2>2, <2>3, <2>6, <3>1, <3>2
  <2>7. work.contexts \subseteq Made BY <1>12 DEF Binds, AuthorityTypeOK
  <2> QED BY <1>12, <2>4, <2>5, <2>6, <2>7 DEF Binds
<1>13. CASE Prepares
  <2>1. queue # <<>> /\ Current.op = "prepare" BY <1>13 DEF Prepares, Begins
  <2>2. IsAsk(Current) /\ Current.proof \in Nat BY <1>3, <2>1 DEF IsAsk, AskOps
  <2>3. UNCHANGED <<panel, document, openings, events, poisoned>> BY <1>13 DEF Prepares
  <2>4. CASE Done(<<>>) /\ (Accepts(Current.document, "confirm", Current.proof) \/ Rejects(Current.document))
    <3>1. "confirm" \in AskOps /\ events' \subseteq events BY <2>3 DEF AskOps
    <3>2. \/ Rejects(Current.document)
          \/ \E phase \in AskOps, c \in Nat : Accepts(Current.document, phase, c)
      BY <2>2, <2>4, <3>1
    <3> QED BY <1>8, <2>1, <2>2, <2>3, <2>4, <3>1, <3>2
  <2>5. CASE UNCHANGED <<doc, queue>> /\ \E s \in Successions(Current.document, Current.proof, work.contexts) :
               Sets(s.window, s.record, TRUE, Answer(Current.document, "confirm", s.record.capability))
    <3>1. PICK s \in Successions(Current.document, Current.proof, work.contexts) :
                 Sets(s.window, s.record, TRUE, Answer(Current.document, "confirm", s.record.capability))
      BY <2>5
    <3>2. s.record.capability \in Nat BY <1>1 DEF Successions, Pending
    <3>3. LET a == Answer(Current.document, "confirm", s.record.capability) IN
          a.to = Current.document /\ a.phase = "confirm" /\ a.capability = s.record.capability /\ a.bound = FALSE
      BY DEF Answer
    <3>4. "confirm" \in AskOps /\ "prepare" # "bind" BY DEF AskOps
    <3> HIDE DEF Answer
    <3> QED BY <1>9, <2>1, <2>2, <2>3, <2>5, <3>1, <3>2, <3>3, <3>4
  <2> QED BY <1>13, <2>4, <2>5 DEF Prepares
<1>14. CASE Confirms
  <2>1. queue # <<>> /\ Current.op = "confirm" BY <1>14 DEF Confirms, Begins
  <2>2. IsAsk(Current) /\ Current.proof \in Nat BY <1>3, <2>1 DEF IsAsk, AskOps
  <2>3. UNCHANGED <<panel, document, openings, events, poisoned>> BY <1>14 DEF Confirms
  <2>4. CASE Done(<<>>) /\ (Accepts(Current.document, "admit", Current.proof) \/ Rejects(Current.document))
    <3>1. "admit" \in AskOps /\ events' \subseteq events BY <2>3 DEF AskOps
    <3>2. \/ Rejects(Current.document)
          \/ \E phase \in AskOps, c \in Nat : Accepts(Current.document, phase, c)
      BY <2>2, <2>4, <3>1
    <3> QED BY <1>8, <2>1, <2>2, <2>3, <2>4, <3>1, <3>2
  <2>5. CASE UNCHANGED <<doc, queue>> /\ \E w, r :
               Sets(w, r, FALSE, Answer(Current.document, "admit", Current.proof))
    <3>1. PICK w, r : Sets(w, r, FALSE, Answer(Current.document, "admit", Current.proof)) BY <2>5
    <3>3. LET a == Answer(Current.document, "admit", Current.proof) IN
          a.to = Current.document /\ a.phase = "admit" /\ a.capability = Current.proof /\ a.bound = FALSE
      BY DEF Answer
    <3>4. "admit" \in AskOps /\ "confirm" # "bind" BY DEF AskOps
    <3> HIDE DEF Answer
    <3> QED BY <1>9, <2>1, <2>2, <2>3, <2>5, <3>1, <3>3, <3>4
  <2> QED BY <1>14, <2>4, <2>5 DEF Confirms
<1>15. CASE Admits
  <2>1. queue # <<>> /\ Current.op = "admit" BY <1>15 DEF Admits, Begins
  <2>2. IsAsk(Current) BY <2>1 DEF IsAsk, AskOps
  <2>3. UNCHANGED <<panel, document, openings, events, poisoned>> /\ Done(<<>>) BY <1>15 DEF Admits
  <2>4. doc' = [doc EXCEPT ![Current.document].phase = "admitted"] \/ Rejects(Current.document) BY <1>15 DEF Admits
  <2>5. events' \subseteq events BY <2>3
  <2> QED BY <1>8, <2>1, <2>2, <2>3, <2>4, <2>5
<1>16. CASE Saves
  <2>1. /\ queue # <<>>
        /\ IsAsk(Current) => work.answer.to = Current.document
        /\ work.answer.to # 0 => IsAsk(Current) /\ work.answer.phase \in AskOps /\ work.answer.capability \in Nat
    BY <1>16 DEF Saves, AsksFit, Current
  <2>2. UNCHANGED <<panel, document, openings, poisoned>> /\ Done(<<>>) /\ events' \subseteq events BY <1>16 DEF Saves
  <2>3. CASE work.answer.to = 0
    <3>1. UNCHANGED doc BY <1>16, <2>3 DEF Saves
    <3>2. ~IsAsk(Current)
      BY <1>3, <2>1, <2>3 DEF Made, Documents
    <3> QED BY <1>8, <2>1, <2>2, <3>1, <3>2
  <2>4. CASE work.answer.to # 0
    <3>1. Accepts(Current.document, work.answer.phase, work.answer.capability) BY <1>16, <2>1, <2>4 DEF Saves
    <3>2. \E phase \in AskOps, c \in Nat : Accepts(Current.document, phase, c) BY <2>1, <2>4, <3>1
    <3> QED BY <1>8, <2>1, <2>2, <2>4, <3>2
  <2> QED BY <2>3, <2>4
<1>17. CASE Throws
  <2>1. queue # <<>> /\ UNCHANGED <<panel, document, openings, poisoned>> /\ Done(<<>>) BY <1>17 DEF Throws
  <2>2. events' \subseteq events BY <1>17 DEF Throws
  <2>3. DOMAIN Asks = AskOps BY DEF Asks, AskOps
  <2>4. CASE IsAsk(Current)
    <3>1. Rejects(Current.document) BY <1>17, <2>3, <2>4 DEF Throws, IsAsk
    <3> QED BY <1>8, <2>1, <2>2, <2>4, <3>1
  <2>5. CASE ~IsAsk(Current)
    <3>1. UNCHANGED doc BY <1>17, <2>3, <2>5 DEF Throws, IsAsk
    <3> QED BY <1>8, <2>1, <2>2, <2>5, <3>1
  <2> QED BY <2>4, <2>5
<1>18. CASE Settles
  <2>1. PICK e \in events :
          /\ events' = (events \ {e}) \cup {[e EXCEPT !.next = "bind"]}
          /\ queue' = Append(queue, [op |-> "bind", window |-> e.window, event |-> e.id])
    BY <1>18 DEF Settles
  <2>2. UNCHANGED <<panel, document, doc, openings, work, poisoned>> BY <1>18 DEF Settles, panelVars
  <2>3. e.id \in Nat /\ e.window \in Panels /\ e.id < openings
        /\ [e EXCEPT !.next = "bind"] = [id |-> e.id, window |-> e.window, next |-> "bind"]
    BY DEF AuthorityTypeOK
  <2>4. [op |-> "bind", window |-> e.window, event |-> e.id] \in Entries
        /\ ~IsAsk([op |-> "bind", window |-> e.window, event |-> e.id])
    BY <2>3 DEF Entries, IsAsk, AskOps
  <2>5. AsksFit' BY <2>1, <2>2, <2>4, AsksOther
  <2>6. queue' \in Seq(Entries) BY <1>1, <2>1, <2>4, EntryAdded
  <2>7. /\ \A f \in events' : f \in [id : Nat, window : Panels, next : {"settle", "bind"}] /\ f.id < openings'
        /\ \A f, g \in events' : f.id = g.id => f = g
    <3> DEFINE g0 == [id |-> e.id, window |-> e.window, next |-> "bind"]
    <3>1. events' = (events \ {e}) \cup {g0} BY <2>1, <2>3
    <3>2. \A f \in events : f \in [id : Nat, window : Panels, next : {"settle", "bind"}] /\ f.id < openings
      BY DEF AuthorityTypeOK
    <3>3. \A f, g \in events : f.id = g.id => f = g BY DEF AuthorityTypeOK
    <3>4. g0 \in [id : Nat, window : Panels, next : {"settle", "bind"}] /\ g0.id < openings /\ g0.id = e.id BY <2>3
    <3> HIDE DEF g0
    <3>5. \A f \in events' : f \in [id : Nat, window : Panels, next : {"settle", "bind"}] /\ f.id < openings'
      BY <2>2, <3>1, <3>2, <3>4
    <3>6. \A f \in events \ {e} : f.id # g0.id BY <3>3, <3>4
    <3>7. \A f, g \in events' : f.id = g.id => f = g BY <3>1, <3>3, <3>6
    <3> QED BY <3>5, <3>7
  <2>8. Made' = Made BY <2>2 DEF Made
  <2>9. AuthorityTypeOK' BY <2>2, <2>6, <2>7, <2>8 DEF AuthorityTypeOK
  <2> QED BY <2>5, <2>9
<1>19. ASSUME NEW w \in Panels, DocumentAppears(w) PROVE AuthorityTypeOK' /\ AsksFit'
  <2>1. NoCapability \in Nat /\ Loads(w, NoCapability) BY <1>19 DEF DocumentAppears, NoCapability
  <2>2. PICK d \in Documents \ Made :
           /\ DOMAIN doc' = Documents /\ Made' = Made \cup {d}
           /\ \A x \in Documents \ {d} : doc'[x] = doc[x]
           /\ doc'[d] = [window |-> w, phase |-> "prepare", stored |-> NoCapability]
           /\ \A x \in Made' : doc'[x] \in [window : Panels, phase : DocPhases, stored : Nat]
           /\ document' = [document EXCEPT ![w] = d]
    BY <2>1, DocAppears
  <2>3. /\ panel' = [panel EXCEPT ![w] = "open"] /\ UNCHANGED <<openings, queue, events, work, poisoned>>
    BY <1>19 DEF DocumentAppears, workerVars
  <2>4. \A x \in Made : doc'[x] = doc[x] BY <1>4, <2>2
  <2>5. doc'[d].phase \notin AskPhases BY <2>2 DEF AskPhases
  <2>6. AsksFit' BY <2>2, <2>3, <2>4, <2>5, AsksKept
  <2>7. panel' \in [Panels -> {"closed", "opening", "open", "removed"}] /\ document' \in [Panels -> Nat]
    BY <1>4, <2>2, <2>3 DEF AuthorityTypeOK
  <2>8. \A v \in Panels : panel'[v] = "open" => document'[v] \in Made' /\ doc'[document'[v]].window = v
    <3> TAKE v \in Panels
    <3> HAVE panel'[v] = "open"
    <3>1. panel \in [Panels -> {"closed", "opening", "open", "removed"}] /\ document \in [Panels -> Nat] BY DEF AuthorityTypeOK
    <3>2. CASE v = w BY <2>2, <3>1, <3>2
    <3>3. CASE v # w
      <4>1. panel[v] = "open" /\ document'[v] = document[v] BY <2>2, <2>3, <3>1, <3>3
      <4>2. document[v] \in Made /\ doc[document[v]].window = v BY <4>1 DEF AuthorityTypeOK
      <4> QED BY <2>2, <2>4, <4>1, <4>2
    <3> QED BY <3>2, <3>3
  <2>9. AuthorityTypeOK' BY <2>2, <2>3, <2>7, <2>8 DEF AuthorityTypeOK
  <2> QED BY <2>6, <2>9
<1>20. ASSUME NEW w \in Panels, PanelReloads(w) PROVE AuthorityTypeOK' /\ AsksFit'
  <2>0. document[w] \in Made BY <1>20 DEF PanelReloads, AuthorityTypeOK
  <2> DEFINE c == doc[document[w]].stored
  <2>1. c \in Nat /\ Loads(w, c) BY <1>20, <2>0 DEF PanelReloads, AuthorityTypeOK
  <2> HIDE DEF c
  <2>2. PICK d \in Documents \ Made :
           /\ DOMAIN doc' = Documents /\ Made' = Made \cup {d}
           /\ \A x \in Documents \ {d} : doc'[x] = doc[x]
           /\ doc'[d] = [window |-> w, phase |-> "prepare", stored |-> c]
           /\ \A x \in Made' : doc'[x] \in [window : Panels, phase : DocPhases, stored : Nat]
           /\ document' = [document EXCEPT ![w] = d]
    BY <2>1, DocAppears
  <2>3. /\ panel' = panel /\ UNCHANGED <<openings, queue, events, work, poisoned>>
    BY <1>20 DEF PanelReloads, workerVars
  <2>4. \A x \in Made : doc'[x] = doc[x] BY <1>4, <2>2
  <2>5. doc'[d].phase \notin AskPhases BY <2>2 DEF AskPhases
  <2>6. AsksFit' BY <2>2, <2>3, <2>4, <2>5, AsksKept
  <2>7. document' \in [Panels -> Nat] BY <1>4, <2>2 DEF AuthorityTypeOK
  <2>8. \A v \in Panels : panel'[v] = "open" => document'[v] \in Made' /\ doc'[document'[v]].window = v
    <3> TAKE v \in Panels
    <3> HAVE panel'[v] = "open"
    <3>1. document \in [Panels -> Nat] BY DEF AuthorityTypeOK
    <3>2. CASE v = w BY <2>2, <3>1, <3>2
    <3>3. CASE v # w
      <4>1. panel[v] = "open" /\ document'[v] = document[v] BY <2>2, <2>3, <3>1, <3>3
      <4>2. document[v] \in Made /\ doc[document[v]].window = v BY <4>1 DEF AuthorityTypeOK
      <4> QED BY <2>2, <2>4, <4>1, <4>2
    <3> QED BY <3>2, <3>3
  <2>9. AuthorityTypeOK' BY <2>2, <2>3, <2>7, <2>8 DEF AuthorityTypeOK
  <2> QED BY <2>6, <2>9
<1>21. ASSUME NEW w \in Panels, PanelOpens(w) PROVE AuthorityTypeOK' /\ AsksFit'
  <2> DEFINE e == [op |-> "revoke", window |-> w, event |-> openings]
             f == [id |-> openings, window |-> w, next |-> "settle"]
  <2>1. /\ openings' = openings + 1 /\ panel' = [panel EXCEPT ![w] = "opening"] /\ events' = events \cup {f}
        /\ queue' = Append(queue, e) /\ UNCHANGED <<document, doc, work, poisoned>>
    BY <1>21 DEF PanelOpens
  <2>2. openings \in Nat BY DEF AuthorityTypeOK
  <2>3. e \in Entries /\ ~IsAsk(e) BY <2>2 DEF Entries, IsAsk, AskOps
  <2>4. f \in [id : Nat, window : Panels, next : {"settle", "bind"}] /\ f.id = openings BY <2>2
  <2> HIDE DEF e, f
  <2>5. AsksFit' BY <2>1, <2>3, AsksOther
  <2>6. queue' \in Seq(Entries) BY <1>1, <2>1, <2>3, EntryAdded
  <2>7. /\ \A g \in events' : g \in [id : Nat, window : Panels, next : {"settle", "bind"}] /\ g.id < openings'
        /\ \A g, h \in events' : g.id = h.id => g = h
    BY <2>1, <2>2, <2>4 DEF AuthorityTypeOK
  <2>8. Made' = Made BY <2>1 DEF Made
  <2>9. AuthorityTypeOK' BY <2>1, <2>2, <2>6, <2>7, <2>8 DEF AuthorityTypeOK
  <2> QED BY <2>5, <2>9
<1>22. ASSUME NEW w \in Panels, PanelCloses(w) PROVE AuthorityTypeOK' /\ AsksFit'
  <2>1. panel' = [panel EXCEPT ![w] = "closed"] /\ UNCHANGED <<document, doc, openings, queue, events, work, poisoned>>
    BY <1>22 DEF PanelCloses, workerVars
  <2>2. Made' = Made BY <2>1 DEF Made
  <2>3. AuthorityTypeOK' BY <2>1, <2>2 DEF AuthorityTypeOK
  <2>4. AsksFit' BY <2>1, <2>2, AsksKept
  <2> QED BY <2>3, <2>4
<1>23. ASSUME NEW w \in Panels, WindowRemoved(w) PROVE AuthorityTypeOK' /\ AsksFit'
  <2> DEFINE e == [op |-> "release", window |-> w]
  <2>1. panel' = [panel EXCEPT ![w] = "removed"] /\ queue' = Append(queue, e)
        /\ UNCHANGED <<document, doc, openings, events, work, poisoned>>
    BY <1>23 DEF WindowRemoved
  <2>2. e \in Entries /\ ~IsAsk(e) BY DEF Entries, IsAsk, AskOps
  <2> HIDE DEF e
  <2>3. AsksFit' BY <2>1, <2>2, AsksOther
  <2>4. queue' \in Seq(Entries) BY <1>1, <2>1, <2>2, EntryAdded
  <2>5. Made' = Made BY <2>1 DEF Made
  <2>6. AuthorityTypeOK' BY <2>1, <2>4, <2>5 DEF AuthorityTypeOK
  <2> QED BY <2>3, <2>6
<1>24. ASSUME NEW d \in Documents, DocumentAsks(d) PROVE AuthorityTypeOK' /\ AsksFit'
  <2>1. d \in Made BY <1>24 DEF DocumentAsks, Live, Made
  <2> QED BY <1>24, <2>1, AsksMore
<1>25. ASSUME NEW d \in Documents, ProofDropped(d) PROVE AuthorityTypeOK' /\ AsksFit'
  <2>1. d \in Made /\ doc[d].phase = "refused" BY <1>25 DEF ProofDropped, Live, Made
  <2>2. doc' = [doc EXCEPT ![d].phase = "prepare", ![d].stored = NoCapability]
        /\ UNCHANGED <<panel, document, openings, queue, events, work, poisoned>>
    BY <1>25 DEF ProofDropped, workerVars
  <2>3. "prepare" \in DocPhases /\ NoCapability \in Nat BY DEF DocPhases, AskOps, NoCapability
  <2>4. /\ DOMAIN doc' = Documents /\ Made' = Made
        /\ \A x \in Documents \ {d} : doc'[x] = doc[x]
        /\ doc'[d] = [window |-> doc[d].window, phase |-> "prepare", stored |-> NoCapability]
        /\ \A x \in Made : doc'[x] \in [window : Panels, phase : DocPhases, stored : Nat]
    BY <2>1, <2>2, <2>3, DocChanges
  <2>5. \A x \in Made : doc'[x].window = doc[x].window BY <1>4, <2>4
  <2>6. AuthorityTypeOK'
    <3>1. poisoned' \in BOOLEAN /\ work'.stage \in {"idle", "seen", "saving"} /\ (work'.stage = "seen" => work'.contexts \subseteq Made)
      BY <2>2 DEF AuthorityTypeOK
    <3>2. events' \subseteq events /\ queue' \in Seq(Entries) /\ UNCHANGED <<panel, document, openings>> BY <1>1, <2>2
    <3> QED BY <2>4, <2>5, <3>1, <3>2, WorkerTypes
  \* What is refused asks nothing.
  <2>7. \A i \in DOMAIN queue : IsAsk(queue[i]) => queue[i].document # d
    <3>1. \A o \in AskOps : Asks[o] # "refused" BY DEF Asks, AskOps
    <3> QED BY <2>1, <3>1 DEF AsksFit, IsAsk
  <2> HIDE DEF IsAsk
  <2>8. \A i \in DOMAIN queue : IsAsk(queue[i]) =>
          /\ queue[i].document \in Made /\ doc'[queue[i].document].phase = Asks[queue[i].op]
          /\ queue[i].proof = doc'[queue[i].document].stored
    BY <1>4, <2>4, <2>7 DEF AsksFit
  <2>9. \A x \in Made : doc'[x].phase \in AskPhases => \E i \in DOMAIN queue : IsAsk(queue[i]) /\ queue[i].document = x
    <3>1. "prepare" \notin AskPhases BY DEF AskPhases
    <3> QED BY <1>4, <2>4, <3>1 DEF AsksFit
  <2>10. \A i, j \in DOMAIN queue : IsAsk(queue[i]) /\ IsAsk(queue[j]) /\ queue[i].document = queue[j].document => i = j
    BY DEF AsksFit
  <2>11. work.stage = "saving" =>
           /\ queue # <<>>
           /\ IsAsk(Head(queue)) => work.answer.to = Head(queue).document
           /\ work.answer.to # 0 => IsAsk(Head(queue)) /\ work.answer.phase \in AskOps /\ work.answer.capability \in Nat
           /\ work.answer.bound <=> Head(queue).op = "bind"
    BY DEF AsksFit
  <2>12. Made' = Made /\ queue' = queue /\ work' = work BY <2>2, <2>4
  <2>13. AsksFit' BY <2>8, <2>9, <2>10, <2>11, <2>12 DEF AsksFit
  <2> QED BY <2>6, <2>13
<1>26. CASE SaveFails
  <2>1. UNCHANGED <<panel, document, doc, openings, queue>> /\ events' = events /\ poisoned' = TRUE /\ work' = Idle
    BY <1>26 DEF SaveFails, panelVars
  <2> QED BY <1>7, <2>1
<1>27. CASE WorkerEnds
  <2>1. UNCHANGED <<panel, document, openings>> /\ events' = {} /\ queue' = <<>> /\ work' = Idle /\ poisoned' = FALSE
    BY <1>27 DEF WorkerEnds
  <2>2. /\ DOMAIN doc' = Documents
        /\ \A d \in Documents : doc'[d] =
             CASE doc[d].phase = "preparing" -> [doc[d] EXCEPT !.phase = "prepare"]
               [] doc[d].phase = "confirming" -> [doc[d] EXCEPT !.phase = "confirm"]
               [] doc[d].phase \in {"admitting", "admitted"} -> [doc[d] EXCEPT !.phase = "admit"]
               [] OTHER -> doc[d]
    BY <1>27 DEF WorkerEnds
  <2>3. \A d \in Made : doc[d] \in [window : Panels, phase : DocPhases, stored : Nat] BY DEF AuthorityTypeOK
  <2>4. \A d \in Made : doc'[d].window = doc[d].window /\ doc'[d].phase \in AskOps \cup {"refused"}
                        /\ doc'[d] \in [window : Panels, phase : DocPhases, stored : Nat]
    BY <1>4, <2>2, <2>3 DEF DocPhases, AskOps, AskPhases
  <2>5. \A d \in Documents \ Made : doc'[d].phase = "none" BY <2>2 DEF Made
  <2>6. "none" \notin AskOps \cup {"refused"} BY DEF AskOps
  <2>7. Made' = Made BY <1>4, <2>4, <2>5, <2>6 DEF Made
  <2>8. queue' \in Seq(Entries) /\ DOMAIN queue' = {} BY <2>1
  <2>9. AuthorityTypeOK'
    <3>1. events' \subseteq events /\ poisoned' \in BOOLEAN /\ work'.stage = "idle" BY <1>5, <2>1
    <3> QED BY <2>1, <2>2, <2>4, <2>7, <2>8, <3>1, WorkerTypes
  <2>10. (AskOps \cup {"refused"}) \cap AskPhases = {} BY DEF AskOps, AskPhases
  <2>11. AsksFit' BY <1>5, <2>1, <2>4, <2>7, <2>8, <2>10 DEF AsksFit
  <2> QED BY <2>9, <2>11
<1>28. CASE UNCHANGED authorityVars
  <2>1. UNCHANGED <<panel, document, doc, openings, queue>> /\ events' \subseteq events /\ poisoned' \in BOOLEAN /\ work' = work
    BY <1>28 DEF authorityVars, panelVars, workerVars, AuthorityTypeOK
  <2> QED BY <1>7, <2>1
<1> QED
  BY <1>10, <1>11, <1>12, <1>13, <1>14, <1>15, <1>16, <1>17, <1>18, <1>19, <1>20, <1>21, <1>22, <1>23, <1>24, <1>25,
     <1>26, <1>27, <1>28 DEF AuthorityNext, Works, DocumentSteps

\* The authority starts with nothing asked.
LEMMA AskInit == AuthorityInit => AuthorityTypeOK /\ AsksFit
<1> SUFFICES ASSUME AuthorityInit PROVE AuthorityTypeOK /\ AsksFit OBVIOUS
<1>1. Made = {} BY DEF AuthorityInit, Made
<1>2. queue \in Seq(Entries) /\ DOMAIN queue = {} BY DEF AuthorityInit
<1>3. work.stage = "idle" BY DEF AuthorityInit, Idle
<1>4. AuthorityTypeOK BY <1>1, <1>2, <1>3 DEF AuthorityInit, AuthorityTypeOK
<1>5. AsksFit BY <1>1, <1>2, <1>3 DEF AsksFit
<1> QED BY <1>4, <1>5

\* What a panel asked and was not answered is in the queue of the authority, and there once,
\* whatever fails or ends: so PanelAdmitted rests on the worker's steps alone.
THEOREM AsksAreQueued == AuthoritySpec => []AskedIsQueued
<1>1. AuthorityTypeOK /\ AsksFit => AskedIsQueued
  <2> SUFFICES ASSUME AuthorityTypeOK, AsksFit, NEW d \in Documents, doc[d].phase \in {Asks[op] : op \in DOMAIN Asks}
               PROVE  \E i \in DOMAIN queue :
                        /\ queue[i].op \in DOMAIN Asks /\ Asks[queue[i].op] = doc[d].phase /\ queue[i].document = d
                        /\ \A j \in DOMAIN queue \ {i} : queue[j].op \in DOMAIN Asks => queue[j].document # d
    BY DEF AskedIsQueued
  <2>1. DOMAIN Asks = AskOps BY DEF Asks, AskOps
  <2>2. \A op \in AskOps : Asks[op] \in AskPhases BY DEF Asks, AskOps, AskPhases
  <2>3. "none" \notin AskPhases BY DEF AskPhases
  <2>4. doc[d].phase \in AskPhases BY <2>1, <2>2
  <2>5. d \in Made BY <2>3, <2>4 DEF Made
  <2>6. PICK i \in DOMAIN queue : IsAsk(queue[i]) /\ queue[i].document = d BY <2>4, <2>5 DEF AsksFit
  <2>7. Asks[queue[i].op] = doc[d].phase BY <2>6 DEF AsksFit
  <2>8. \A j \in DOMAIN queue : IsAsk(queue[j]) /\ queue[j].document = d => i = j BY <2>6 DEF AsksFit
  <2> QED BY <2>1, <2>6, <2>7, <2>8 DEF IsAsk
<1>2. AuthorityInit => AuthorityTypeOK /\ AsksFit /\ LeaseInv BY AskInit, LeaseInit
<1>3. AuthorityTypeOK /\ AsksFit /\ LeaseInv /\ [AuthorityNext]_authorityVars => (AuthorityTypeOK /\ AsksFit /\ LeaseInv)'
  BY AskStep, LeaseStep
<1> QED BY <1>1, <1>2, <1>3, PTL DEF AuthoritySpec

\* The event of an operation of the queue: there is one.
LEMMA EventOf ==
  ASSUME AuthorityTypeOK, EventsFit, ~poisoned, NEW i \in DOMAIN queue, queue[i].op \in {"revoke", "bind"}
  PROVE  \E e \in events :
           /\ e.id = queue[i].event /\ e.window = queue[i].window
           /\ queue[i].op = "bind" => e.next = "bind"
           /\ queue[i].op = "revoke" => e.next = "settle"
           /\ \A f \in events : f.id = queue[i].event => f = e
<1>1. PICK e \in events : /\ e.id = queue[i].event /\ e.window = queue[i].window
                          /\ e.next = IF queue[i].op = "bind" THEN "bind" ELSE "settle"
  BY DEF EventsFit
<1>2. \A f \in events : f.id = e.id => f = e BY DEF AuthorityTypeOK
<1>3. queue[i].op = "bind" => e.next = "bind" BY <1>1
<1>4. queue[i].op = "revoke" => e.next = "settle" BY <1>1
<1> QED BY <1>1, <1>2, <1>3, <1>4

\* The first operation is done; that of a bind has no event any more.
LEMMA EventsDone ==
  ASSUME AuthorityTypeOK, EventsFit, queue # <<>>, queue' = Tail(queue), ~poisoned' => ~poisoned,
         \/ events' = events
         \/ Current.op = "bind" /\ events' = {e \in events : e.id # Current.event}
  PROVE  EventsFit'
<1> SUFFICES ASSUME ~poisoned'
             PROVE  /\ \A i \in DOMAIN queue' : queue'[i].op \in {"revoke", "bind"} =>
                         \E e \in events' : /\ e.id = queue'[i].event /\ e.window = queue'[i].window
                                            /\ e.next = IF queue'[i].op = "bind" THEN "bind" ELSE "settle"
                    /\ \A i, j \in DOMAIN queue' :
                         queue'[i].op = "bind" /\ queue'[j].op = "bind" /\ queue'[i].event = queue'[j].event => i = j
  BY DEF EventsFit
<1>1. queue \in Seq(Entries) /\ ~poisoned BY DEF AuthorityTypeOK
<1>2. /\ 1 \in DOMAIN queue /\ queue[1] = Current
      /\ \A i \in DOMAIN queue' : i \in Nat /\ i + 1 \in DOMAIN queue /\ i + 1 # 1 /\ queue'[i] = queue[i + 1]
  BY <1>1, EntryDone DEF Current
<1>3. ASSUME NEW i \in DOMAIN queue', queue'[i].op \in {"revoke", "bind"}
      PROVE  \E e \in events' : /\ e.id = queue'[i].event /\ e.window = queue'[i].window
                                /\ e.next = IF queue'[i].op = "bind" THEN "bind" ELSE "settle"
  <2>1. i + 1 \in DOMAIN queue /\ queue'[i] = queue[i + 1] /\ i + 1 # 1 BY <1>2
  <2>2. PICK e \in events : /\ e.id = queue[i + 1].event /\ e.window = queue[i + 1].window
                            /\ queue[i + 1].op = "bind" => e.next = "bind"
                            /\ queue[i + 1].op = "revoke" => e.next = "settle"
                            /\ \A f \in events : f.id = queue[i + 1].event => f = e
    BY <1>1, <1>3, <2>1, EventOf
  <2>3. e.next = IF queue'[i].op = "bind" THEN "bind" ELSE "settle" BY <1>3, <2>1, <2>2
  <2>4. CASE events' = events BY <2>1, <2>2, <2>3, <2>4
  <2>5. CASE Current.op = "bind" /\ events' = {f \in events : f.id # Current.event}
    <3>1. CASE queue[i + 1].op = "bind"
      <4>1. queue[i + 1].event # Current.event BY <1>1, <1>2, <2>1, <2>5, <3>1 DEF EventsFit
      <4> QED BY <2>1, <2>2, <2>3, <2>5, <4>1
    <3>2. CASE queue[i + 1].op = "revoke"
      <4>1. PICK f \in events : f.id = Current.event /\ f.next = "bind"
        BY <1>1, <1>2, <2>5, EventOf
      <4>2. e.id # Current.event BY <2>2, <3>2, <4>1
      <4> QED BY <2>1, <2>2, <2>3, <2>5, <4>2
    <3> QED BY <1>3, <2>1, <3>1, <3>2
  <2> QED BY <2>4, <2>5
<1>4. ASSUME NEW i \in DOMAIN queue', NEW j \in DOMAIN queue', queue'[i].op = "bind", queue'[j].op = "bind",
             queue'[i].event = queue'[j].event
      PROVE  i = j
  <2>1. i + 1 = j + 1 BY <1>1, <1>2, <1>4 DEF EventsFit
  <2> QED BY <1>2, <2>1
<1> QED BY <1>3, <1>4

\* An operation joins the queue, with its event if it is of an opening.
LEMMA EventsMore ==
  ASSUME AuthorityTypeOK, EventsFit, NEW x \in Entries, queue' = Append(queue, x), ~poisoned' => ~poisoned,
         \A i \in DOMAIN queue : queue[i].op \in {"revoke", "bind"} =>
           \A e \in events : e.id = queue[i].event => e \in events',
         x.op \in {"revoke", "bind"} =>
           \E e \in events' : /\ e.id = x.event /\ e.window = x.window
                              /\ e.next = IF x.op = "bind" THEN "bind" ELSE "settle",
         x.op = "bind" => \A i \in DOMAIN queue : queue[i].op = "bind" => queue[i].event # x.event
  PROVE  EventsFit'
<1> SUFFICES ASSUME ~poisoned'
             PROVE  /\ \A i \in DOMAIN queue' : queue'[i].op \in {"revoke", "bind"} =>
                         \E e \in events' : /\ e.id = queue'[i].event /\ e.window = queue'[i].window
                                            /\ e.next = IF queue'[i].op = "bind" THEN "bind" ELSE "settle"
                    /\ \A i, j \in DOMAIN queue' :
                         queue'[i].op = "bind" /\ queue'[j].op = "bind" /\ queue'[i].event = queue'[j].event => i = j
  BY DEF EventsFit
<1>1. queue \in Seq(Entries) /\ ~poisoned BY DEF AuthorityTypeOK
<1> DEFINE n == Len(queue) + 1
<1>2. /\ \A i \in DOMAIN queue : queue'[i] = queue[i] /\ i # n
      /\ n \in DOMAIN queue' /\ queue'[n] = x
      /\ \A i \in DOMAIN queue' : i \in DOMAIN queue \/ i = n
  BY <1>1, EntryAdded
<1> HIDE DEF n
<1>3. ASSUME NEW i \in DOMAIN queue', queue'[i].op \in {"revoke", "bind"}
      PROVE  \E e \in events' : /\ e.id = queue'[i].event /\ e.window = queue'[i].window
                                /\ e.next = IF queue'[i].op = "bind" THEN "bind" ELSE "settle"
  <2>1. CASE i = n BY <1>2, <1>3, <2>1
  <2>2. CASE i \in DOMAIN queue
    <3>1. PICK e \in events : /\ e.id = queue[i].event /\ e.window = queue[i].window
                              /\ e.next = IF queue[i].op = "bind" THEN "bind" ELSE "settle"
      BY <1>1, <1>2, <1>3, <2>2 DEF EventsFit
    <3>2. e \in events' BY <1>2, <1>3, <2>2, <3>1
    <3> QED BY <1>2, <2>2, <3>1, <3>2
  <2> QED BY <1>2, <2>1, <2>2
<1>4. \A i, j \in DOMAIN queue : queue[i].op = "bind" /\ queue[j].op = "bind" /\ queue[i].event = queue[j].event => i = j
  BY <1>1 DEF EventsFit
<1>5. \A i, j \in DOMAIN queue' :
        queue'[i].op = "bind" /\ queue'[j].op = "bind" /\ queue'[i].event = queue'[j].event => i = j
  BY <1>2, <1>4
<1> QED BY <1>3, <1>5

\* There is one event, which is that of the bind.
LEMMA OneEvent ==
  ASSUME AuthorityTypeOK, EventsFit, ~poisoned, queue # <<>>, Current.op = "bind", Cardinality(events) = 1
  PROVE  /\ \E e \in events : e.id = Current.event /\ e.window = Current.window
         /\ \A e \in events : e.id = Current.event /\ e.window = Current.window
         /\ \A i \in DOMAIN queue : queue[i].op # "revoke"
<1>1. queue \in Seq(Entries) BY DEF AuthorityTypeOK
<1>2. 1 \in DOMAIN queue /\ queue[1] = Current BY <1>1, EntryDone DEF Current
<1>3. PICK f \in events : f.id = Current.event /\ f.window = Current.window /\ f.next = "bind" BY <1>2, EventOf
<1>4. \A e \in events : e = f
  <2>1. IsFiniteSet(events)
    <3>1. openings \in Nat /\ \A e \in events : e.id \in Nat /\ e.id < openings BY DEF AuthorityTypeOK
    <3>2. \A e, g \in events : e.id = g.id => e = g BY DEF AuthorityTypeOK
    <3> DEFINE h == [e \in events |-> e.id]
    <3>3. h \in Injection(events, 0..openings) BY <3>1, <3>2 DEF Injection, IsInjective
    <3>4. IsFiniteSet(0..openings)
      <4>1. 0 \in Int /\ openings \in Int BY <3>1
      <4> QED BY <4>1, FS_Interval
    <3> QED BY <3>3, <3>4, FS_Injection
  <2>2. PICK g : events = {g} BY <2>1, FS_Singleton
  <2> QED BY <2>2
<1>5. ASSUME NEW i \in DOMAIN queue, queue[i].op = "revoke" PROVE FALSE
  <2>1. PICK e \in events : e.next = "settle" BY <1>5, EventOf
  <2> QED BY <1>3, <1>4, <2>1
<1> QED BY <1>3, <1>4, <1>5

\* Every step keeps the operations of openings and the events together.
LEMMA EventsStep ==
  ASSUME AuthorityTypeOK, AsksFit, EventsFit, [AuthorityNext]_authorityVars
  PROVE  EventsFit'
<1>1. queue \in Seq(Entries) BY DEF AuthorityTypeOK
<1>2. queue # <<>> => Tail(queue) \o <<>> = Tail(queue) BY <1>1, EntryDone
<1>3. ASSUME UNCHANGED <<queue, events>>, ~poisoned' => ~poisoned PROVE EventsFit'
  BY <1>3 DEF EventsFit
<1>4. CASE SeesContexts BY <1>3, <1>4 DEF SeesContexts
<1>5. CASE Deletes
  <2>1. queue # <<>> /\ UNCHANGED <<events, poisoned>> BY <1>5 DEF Deletes, Begins
  <2>2. UNCHANGED queue \/ queue' = Tail(queue) BY <1>2, <1>5, <2>1 DEF Deletes, Done
  <2> QED BY <1>3, <2>1, <2>2, EventsDone
<1>6. CASE Binds
  <2>1. queue # <<>> /\ Current.op = "bind" /\ UNCHANGED poisoned BY <1>6 DEF Binds, Begins
  <2>2. CASE UNCHANGED <<events, queue>> BY <1>3, <2>1, <2>2
  <2>3. CASE events' = {e \in events : e.id # Current.event} /\ Done(<<>>)
    <3>1. queue' = Tail(queue) BY <1>2, <2>1, <2>3 DEF Done
    <3> QED BY <2>1, <2>3, <3>1, EventsDone
  <2> QED BY <1>6, <2>2, <2>3 DEF Binds
<1>7. CASE Prepares \/ Confirms \/ Admits
  <2>1. queue # <<>> /\ UNCHANGED <<events, poisoned>> BY <1>7 DEF Prepares, Confirms, Admits, Begins
  <2>2. UNCHANGED queue \/ queue' = Tail(queue) BY <1>2, <1>7, <2>1 DEF Prepares, Confirms, Admits, Done
  <2> QED BY <1>3, <2>1, <2>2, EventsDone
<1>8. CASE Saves
  <2>1. queue # <<>> /\ UNCHANGED poisoned /\ (work.answer.bound <=> Current.op = "bind")
    BY <1>8 DEF Saves, AsksFit, Current
  <2>2. queue' = Tail(queue) BY <1>2, <1>8, <2>1 DEF Saves, Done
  <2>3. \/ events' = events
        \/ Current.op = "bind" /\ events' = {e \in events : e.id # Current.event}
    <3>1. CASE Current.op = "bind"
      <4>1. events' = events \ {e \in events : e.id = Current.event} BY <1>8, <2>1, <3>1 DEF Saves
      <4> QED BY <3>1, <4>1
    <3>2. CASE Current.op # "bind" BY <1>8, <2>1, <3>2 DEF Saves
    <3> QED BY <3>1, <3>2
  <2> QED BY <2>1, <2>2, <2>3, EventsDone
<1>9. CASE Throws \/ SaveFails
  <2>1. poisoned' = TRUE BY <1>9 DEF Throws, SaveFails, AuthorityTypeOK
  <2> QED BY <2>1 DEF EventsFit
<1>10. CASE Settles
  <2>1. PICK e \in events :
          /\ e.next = "settle"
          /\ \A k \in 1..Len(queue) : queue[k].op = "revoke" => queue[k].event # e.id
          /\ events' = (events \ {e}) \cup {[e EXCEPT !.next = "bind"]}
          /\ queue' = Append(queue, [op |-> "bind", window |-> e.window, event |-> e.id])
    BY <1>10 DEF Settles
  <2>2. UNCHANGED poisoned BY <1>10 DEF Settles
  <2> DEFINE x == [op |-> "bind", window |-> e.window, event |-> e.id]
             f == [id |-> e.id, window |-> e.window, next |-> "bind"]
  <2>3. e \in [id : Nat, window : Panels, next : {"settle", "bind"}] BY DEF AuthorityTypeOK
  <2>4. events' = (events \ {e}) \cup {f} /\ x \in Entries /\ queue' = Append(queue, x) /\ x.op = "bind"
    BY <2>1, <2>3 DEF Entries
  <2>5. f.id = x.event /\ f.window = x.window /\ f.next = "bind" /\ x.event = e.id OBVIOUS
  <2> HIDE DEF x, f
  <2>6. DOMAIN queue = 1..Len(queue) BY <1>1
  <2>7. ~poisoned => \A i \in DOMAIN queue : queue[i].op \in {"revoke", "bind"} => queue[i].event # e.id
    <3> SUFFICES ASSUME ~poisoned, NEW i \in DOMAIN queue, queue[i].op \in {"revoke", "bind"}, queue[i].event = e.id
                 PROVE  FALSE
      OBVIOUS
    <3>1. queue[i].op = "bind" BY <2>1, <2>6
    <3>2. e.next = "bind" BY <3>1, EventOf
    <3> QED BY <2>1, <3>2
  <2>8. CASE ~poisoned
    <3>1. \A i \in DOMAIN queue : queue[i].op \in {"revoke", "bind"} =>
            \A g \in events : g.id = queue[i].event => g \in events'
      BY <2>4, <2>7, <2>8
    <3>2. \E g \in events' : /\ g.id = x.event /\ g.window = x.window
                             /\ g.next = IF x.op = "bind" THEN "bind" ELSE "settle"
      BY <2>4, <2>5
    <3>3. \A i \in DOMAIN queue : queue[i].op = "bind" => queue[i].event # x.event BY <2>5, <2>7, <2>8
    <3> QED BY <2>2, <2>4, <2>8, <3>1, <3>2, <3>3, EventsMore
  <2> QED BY <2>2, <2>8 DEF EventsFit
<1>11. ASSUME NEW w \in Panels, PanelOpens(w) PROVE EventsFit'
  <2> DEFINE x == [op |-> "revoke", window |-> w, event |-> openings]
             f == [id |-> openings, window |-> w, next |-> "settle"]
  <2>1. events' = events \cup {f} /\ queue' = Append(queue, x) /\ UNCHANGED poisoned BY <1>11 DEF PanelOpens
  <2>2. x \in Entries /\ x.op = "revoke" BY DEF AuthorityTypeOK, Entries
  <2>3. f.id = x.event /\ f.window = x.window /\ f.next = "settle" OBVIOUS
  <2> HIDE DEF x, f
  <2>4. \A i \in DOMAIN queue : queue[i].op \in {"revoke", "bind"} =>
          \A g \in events : g.id = queue[i].event => g \in events'
    BY <2>1
  <2>5. \E g \in events' : /\ g.id = x.event /\ g.window = x.window
                           /\ g.next = IF x.op = "bind" THEN "bind" ELSE "settle"
    BY <2>1, <2>2, <2>3
  <2> QED BY <2>1, <2>2, <2>4, <2>5, EventsMore
<1>12. ASSUME NEW x \in Entries, x.op \notin {"revoke", "bind"}, queue' = Append(queue, x), UNCHANGED <<events, poisoned>>
       PROVE  EventsFit'
  <2>1. \A i \in DOMAIN queue : queue[i].op \in {"revoke", "bind"} =>
          \A g \in events : g.id = queue[i].event => g \in events'
    BY <1>12
  <2> QED BY <1>12, <2>1, EventsMore
<1>13. ASSUME NEW w \in Panels, WindowRemoved(w) PROVE EventsFit'
  <2>1. [op |-> "release", window |-> w] \in Entries BY DEF Entries
  <2> QED BY <1>12, <1>13, <2>1 DEF WindowRemoved
<1>14. ASSUME NEW d \in Documents, DocumentAsks(d) PROVE EventsFit'
  <2> DEFINE x == [op |-> doc[d].phase, document |-> d, proof |-> doc[d].stored]
  <2>1. d \in Made /\ x.op \in AskOps BY <1>14 DEF DocumentAsks, Live, Made, Asks, AskOps
  <2>2. x \in Entries /\ x.op \notin {"revoke", "bind"} BY <2>1 DEF AuthorityTypeOK, Entries, AskOps
  <2>3. queue' = Append(queue, x) /\ UNCHANGED <<events, poisoned>> BY <1>14 DEF DocumentAsks
  <2> HIDE DEF x
  <2> QED BY <1>12, <2>2, <2>3
<1>15. ASSUME NEW w \in Panels, DocumentAppears(w) \/ PanelReloads(w) \/ PanelCloses(w) PROVE EventsFit'
  BY <1>3, <1>15 DEF DocumentAppears, PanelReloads, PanelCloses, workerVars
<1>16. ASSUME NEW d \in Documents, ProofDropped(d) PROVE EventsFit'
  BY <1>3, <1>16 DEF ProofDropped, workerVars
<1>17. CASE WorkerEnds
  <2>1. DOMAIN queue' = {} BY <1>17 DEF WorkerEnds
  <2> QED BY <2>1 DEF EventsFit
<1>18. CASE UNCHANGED authorityVars BY <1>3, <1>18 DEF authorityVars, workerVars
<1> QED
  BY <1>4, <1>5, <1>6, <1>7, <1>8, <1>9, <1>10, <1>11, <1>13, <1>14, <1>15, <1>16, <1>17, <1>18
     DEF AuthorityNext, Works, DocumentSteps

\* The window of an event has no record, or one that goes, or one that is being saved for it.
Observed(e) ==
  \/ windows[e.window].stage = "none"
  \/ \E i \in DOMAIN queue : queue[i].op = "revoke" /\ queue[i].event = e.id
  \/ work.stage = "saving" /\ Head(queue).op = "bind" /\ Head(queue).event = e.id

\* The first operation is done, and what it did to the records is saved.
LEMMA OpeningsDone ==
  ASSUME AuthorityTypeOK, OpeningsFit, queue # <<>>, queue' = Tail(queue), UNCHANGED windows, events' \subseteq events,
         ~poisoned' => ~poisoned, work' = Idle,
         \A e \in events' : Current.op = "revoke" /\ Current.event = e.id => windows[e.window].stage = "none",
         \A e \in events' : work.stage = "saving" /\ Current.op = "bind" => Current.event # e.id
  PROVE  OpeningsFit'
<1>1. queue \in Seq(Entries) /\ work'.stage # "saving" BY DEF AuthorityTypeOK, Idle
<1>2. /\ 1 \in DOMAIN queue /\ queue[1] = Current
      /\ \A i \in DOMAIN queue \ {1} : i - 1 \in DOMAIN queue' /\ queue'[i - 1] = queue[i]
  BY <1>1, EntryDone DEF Current
<1> SUFFICES ASSUME ~poisoned', NEW e \in events' PROVE Observed(e)'
  BY <1>1 DEF OpeningsFit, Observed
<1>3. Observed(e) BY DEF OpeningsFit, Observed
<1>4. CASE windows[e.window].stage = "none" BY <1>4 DEF Observed
<1>5. ASSUME NEW i \in DOMAIN queue, queue[i].op = "revoke", queue[i].event = e.id, windows[e.window].stage # "none"
      PROVE  Observed(e)'
  <2>1. i # 1 BY <1>2, <1>5
  <2> QED BY <1>2, <1>5, <2>1 DEF Observed
<1>6. ~(work.stage = "saving" /\ Head(queue).op = "bind" /\ Head(queue).event = e.id) BY DEF Current
<1> QED BY <1>3, <1>4, <1>5, <1>6 DEF Observed

\* An operation joins the queue.
LEMMA OpeningsMore ==
  ASSUME AuthorityTypeOK, AsksFit, OpeningsFit, NEW x \in Entries, queue' = Append(queue, x), UNCHANGED <<windows, work>>,
         ~poisoned' => ~poisoned,
         \A e \in events' : \/ \E f \in events : f.id = e.id /\ f.window = e.window
                            \/ x.op = "revoke" /\ x.event = e.id
  PROVE  OpeningsFit'
<1>1. queue \in Seq(Entries) BY DEF AuthorityTypeOK
<1>2. /\ DOMAIN queue \subseteq DOMAIN queue' /\ \A i \in DOMAIN queue : queue'[i] = queue[i]
      /\ Len(queue) + 1 \in DOMAIN queue' /\ queue'[Len(queue) + 1] = x
      /\ queue # <<>> => Head(queue') = Head(queue)
  BY <1>1, EntryAdded
<1>3. work.stage = "saving" => queue # <<>> BY DEF AsksFit
<1>4. ASSUME ~poisoned', NEW e \in events' PROVE Observed(e)'
  <2>1. CASE x.op = "revoke" /\ x.event = e.id BY <1>2, <2>1 DEF Observed
  <2>2. ASSUME NEW f \in events, f.id = e.id, f.window = e.window PROVE Observed(e)'
    <3>1. Observed(f) BY <1>4 DEF OpeningsFit, Observed
    <3>2. CASE windows[f.window].stage = "none" BY <2>2, <3>2 DEF Observed
    <3>3. CASE \E i \in DOMAIN queue : queue[i].op = "revoke" /\ queue[i].event = f.id
      <4>1. PICK i \in DOMAIN queue : queue[i].op = "revoke" /\ queue[i].event = f.id BY <3>3
      <4>2. i \in DOMAIN queue' /\ queue'[i].op = "revoke" /\ queue'[i].event = e.id BY <1>2, <2>2, <4>1
      <4> QED BY <4>2 DEF Observed
    <3>4. CASE work.stage = "saving" /\ Head(queue).op = "bind" /\ Head(queue).event = f.id
      BY <1>2, <1>3, <2>2, <3>4 DEF Observed
    <3> QED BY <3>1, <3>2, <3>3, <3>4 DEF Observed
  <2> QED BY <2>1, <2>2
<1>5. ~poisoned' => (work'.stage = "saving" /\ Head(queue').op = "revoke" => windows'[Head(queue').window].stage = "none")
  BY <1>2, <1>3 DEF OpeningsFit
<1> QED BY <1>4, <1>5 DEF OpeningsFit, Observed

\* The record of a window changes: it goes, or the window has no opening but this one.
LEMMA OpeningsSet ==
  ASSUME OpeningsFit, DOMAIN windows = Panels, NEW w, NEW record, windows' = [windows EXCEPT ![w] = record],
         UNCHANGED <<queue, events, poisoned>>, work.stage # "saving", work'.stage = "saving",
         \A e \in events : e.window \in Panels,
         \/ record.stage = "none"
         \/ \A e \in events : e.window = w => Head(queue).op = "bind" /\ Head(queue).event = e.id,
         Head(queue).op = "revoke" => Head(queue).window = w /\ w \in Panels /\ record.stage = "none"
  PROVE  OpeningsFit'
<1>1. ASSUME ~poisoned, NEW e \in events PROVE Observed(e)'
  <2>1. Observed(e) BY <1>1 DEF OpeningsFit, Observed
  <2>2. CASE e.window = w BY <1>1, <2>2 DEF Observed
  <2>3. CASE e.window # w
    <3>1. windows'[e.window] = windows[e.window] BY <1>1, <2>3
    <3> QED BY <2>1, <3>1 DEF Observed
  <2> QED BY <2>2, <2>3
<1>2. Head(queue').op = "revoke" => windows'[Head(queue').window].stage = "none" OBVIOUS
<1> QED BY <1>1, <1>2 DEF OpeningsFit, Observed

\* Every step keeps the windows of the openings free.
LEMMA OpeningsStep ==
  ASSUME AuthorityTypeOK, AsksFit, LeaseInv, EventsFit, OpeningsFit, [AuthorityNext]_authorityVars
  PROVE  OpeningsFit'
<1>1. queue \in Seq(Entries) /\ DOMAIN windows = Panels BY DEF AuthorityTypeOK, LeaseInv, RecordsFit
<1>2. queue # <<>> => /\ Tail(queue) \o <<>> = Tail(queue) /\ 1 \in DOMAIN queue /\ queue[1] = Current
                      /\ Head(queue) = Current /\ Current \in Entries
  BY <1>1, EntryDone DEF Current
<1>3. Idle.stage = "idle" /\ NoRecord.stage = "none" BY DEF Idle, NoRecord
<1>4. \A e \in events : e.window \in Panels /\ e.id \in Nat BY DEF AuthorityTypeOK
<1>5. ASSUME UNCHANGED <<windows, queue, events>>, ~poisoned' => ~poisoned,
             work' = work \/ (work.stage # "saving" /\ work'.stage # "saving")
      PROVE  OpeningsFit'
  BY <1>5 DEF OpeningsFit
\* An answer to a document.
<1>6. ASSUME queue # <<>>, Current.op \in AskOps, Done(<<>>), UNCHANGED <<windows, events, poisoned>> PROVE OpeningsFit'
  <2>1. Current.op \notin {"revoke", "bind"} BY <1>6 DEF AskOps
  <2>2. queue' = Tail(queue) /\ work' = Idle /\ events' \subseteq events BY <1>2, <1>6 DEF Done
  <2> HIDE DEF Current
  <2> QED BY <1>6, <2>1, <2>2, OpeningsDone
\* A record of a document that asked is set.
<1>7. ASSUME queue # <<>>, Current.op \in AskOps, NEW w, NEW record, NEW created, NEW answer,
             Sets(w, record, created, answer), ~IsWindowOpening(w), work.stage = "seen",
             UNCHANGED <<queue, events, poisoned>>
      PROVE  OpeningsFit'
  <2>1. Head(queue).op \notin {"revoke", "bind"} BY <1>2, <1>7 DEF AskOps
  <2>2. windows' = [windows EXCEPT ![w] = record] /\ work'.stage = "saving" BY <1>7 DEF Sets
  <2>3. \A e \in events : e.window # w BY <1>7 DEF IsWindowOpening
  <2> QED BY <1>1, <1>4, <1>7, <2>1, <2>2, <2>3, OpeningsSet
<1>8. CASE SeesContexts
  <2>1. work = Idle /\ work'.stage = "seen" /\ UNCHANGED <<windows, queue, events, poisoned>>
    BY <1>8 DEF SeesContexts, recordVars
  <2> QED BY <1>3, <1>5, <2>1
<1>9. CASE Deletes
  <2>1. /\ queue # <<>> /\ Current.op \in {"revoke", "release"} /\ work = Idle /\ ~poisoned
        /\ UNCHANGED <<events, poisoned>>
    BY <1>9 DEF Deletes, Begins
  <2>2. Current.window \in Panels BY <1>2, <2>1, EntryIs
  <2>3. CASE windows[Current.window] = NoRecord
    <3>1. queue' = Tail(queue) /\ work' = Idle /\ UNCHANGED windows BY <1>2, <1>9, <2>1, <2>3 DEF Deletes, Done
    <3>2. ASSUME NEW e \in events', Current.op = "revoke", Current.event = e.id PROVE windows[e.window].stage = "none"
      <4>1. e \in events BY <2>1, <3>2
      <4>2. e.window = Current.window BY <1>2, <2>1, <3>2, <4>1, EventOf
      <4> QED BY <1>3, <2>3, <4>2
    <3>3. work.stage # "saving" /\ events' \subseteq events BY <1>3, <2>1
    <3> HIDE DEF Current
    <3> QED BY <2>1, <3>1, <3>2, <3>3, OpeningsDone
  <2>4. CASE windows[Current.window] # NoRecord
    <3>1. windows' = [windows EXCEPT ![Current.window] = NoRecord] /\ work'.stage = "saving" /\ UNCHANGED queue
      BY <1>9, <2>4 DEF Deletes, Sets
    <3>2. work.stage # "saving" BY <1>3, <2>1
    <3> QED BY <1>1, <1>2, <1>3, <1>4, <2>1, <2>2, <3>1, <3>2, OpeningsSet
  <2> QED BY <2>3, <2>4
<1>10. CASE Binds
  <2>1. /\ queue # <<>> /\ Current.op = "bind" /\ work.stage = "seen" /\ ~poisoned /\ UNCHANGED poisoned
    BY <1>10 DEF Binds, Begins
  <2>2. CASE events' = {e \in events : e.id # Current.event} /\ Done(<<>>) /\ UNCHANGED windows
    <3>1. queue' = Tail(queue) /\ work' = Idle /\ events' \subseteq events BY <1>2, <2>1, <2>2 DEF Done
    <3> HIDE DEF Current
    <3> QED BY <2>1, <2>2, <3>1, OpeningsDone
  <2>3. CASE work' = Idle /\ UNCHANGED <<windows, events, queue>> BY <1>3, <1>5, <2>1, <2>3
  <2>4. CASE /\ Cardinality(events) = 1 /\ UNCHANGED <<events, queue>>
             /\ \E d : Sets(Current.window, [stage |-> "opened", document |-> d], FALSE, [to |-> 0, bound |-> TRUE])
    <3>1. PICK d : Sets(Current.window, [stage |-> "opened", document |-> d], FALSE, [to |-> 0, bound |-> TRUE])
      BY <2>4
    <3> DEFINE record == [stage |-> "opened", document |-> d]
    <3>2. windows' = [windows EXCEPT ![Current.window] = record] /\ work'.stage = "saving" BY <3>1 DEF Sets
    <3>3. \A e \in events : Head(queue).op = "bind" /\ Head(queue).event = e.id BY <1>2, <2>1, <2>4, OneEvent
    <3>4. Head(queue).op # "revoke" BY <1>2, <2>1
    <3> HIDE DEF record
    <3> QED BY <1>1, <1>4, <2>1, <2>4, <3>2, <3>3, <3>4, OpeningsSet
  <2> QED BY <1>10, <2>2, <2>3, <2>4 DEF Binds
<1>11. CASE Prepares
  <2>1. queue # <<>> /\ Current.op \in AskOps /\ work.stage = "seen" /\ UNCHANGED <<events, poisoned>>
    BY <1>11 DEF Prepares, Begins, AskOps
  <2>2. CASE Done(<<>>) /\ UNCHANGED windows BY <1>6, <2>1, <2>2
  <2>3. CASE UNCHANGED queue /\ \E s : /\ Revalidated(s.window, Current.document, s.gone)
                                       /\ Sets(s.window, s.record, TRUE, Answer(Current.document, "confirm", s.record.capability))
    BY <1>7, <2>1, <2>3 DEF Revalidated
  <2> QED BY <1>11, <2>2, <2>3 DEF Prepares
<1>12. CASE Confirms
  <2>1. queue # <<>> /\ Current.op \in AskOps /\ work.stage = "seen" /\ UNCHANGED <<events, poisoned>>
    BY <1>12 DEF Confirms, Begins, AskOps
  <2>2. CASE Done(<<>>) /\ UNCHANGED windows BY <1>6, <2>1, <2>2
  <2>3. CASE UNCHANGED queue /\ \E w, record, answer : /\ Revalidated(w, Current.document, 0)
                                                      /\ Sets(w, record, FALSE, answer)
    BY <1>7, <2>1, <2>3 DEF Revalidated
  <2> QED BY <1>12, <2>2, <2>3 DEF Confirms
<1>13. CASE Admits
  <2>1. queue # <<>> /\ Current.op \in AskOps /\ Done(<<>>) /\ UNCHANGED <<windows, events, poisoned>>
    BY <1>13 DEF Admits, Begins, AskOps, recordVars
  <2> QED BY <1>6, <2>1
<1>14. CASE Saves
  <2>1. /\ queue # <<>> /\ work.stage = "saving" /\ UNCHANGED <<windows, poisoned>> /\ (work.answer.bound <=> Current.op = "bind")
        /\ events' = IF work.answer.bound THEN events \ {e \in events : e.id = Current.event} ELSE events
    BY <1>14 DEF Saves, AsksFit, Current
  <2>2. queue' = Tail(queue) /\ work' = Idle BY <1>2, <1>14, <2>1 DEF Saves, Done
  <2>3. CASE poisoned BY <2>1, <2>3 DEF OpeningsFit
  <2>4. CASE ~poisoned
    <3>1. ASSUME NEW e \in events', Current.op = "revoke", Current.event = e.id PROVE windows[e.window].stage = "none"
      <4>1. e \in events BY <2>1, <3>1
      <4>2. e.window = Current.window BY <1>2, <2>1, <2>4, <3>1, <4>1, EventOf
      <4>3. windows[Current.window].stage = "none" BY <1>2, <2>1, <2>4, <3>1 DEF OpeningsFit
      <4> QED BY <4>2, <4>3
    <3>2. events' \subseteq events BY <2>1
    <3>3. \A e \in events' : Current.op = "bind" => Current.event # e.id BY <2>1
    <3> HIDE DEF Current
    <3> QED BY <2>1, <2>2, <3>1, <3>2, <3>3, OpeningsDone
  <2> QED BY <2>3, <2>4
<1>15. CASE Throws \/ SaveFails
  <2>1. poisoned' = TRUE BY <1>15 DEF Throws, SaveFails, AuthorityTypeOK
  <2> QED BY <2>1 DEF OpeningsFit
<1>16. CASE Settles
  <2>1. PICK e \in events :
          /\ events' = (events \ {e}) \cup {[e EXCEPT !.next = "bind"]}
          /\ queue' = Append(queue, [op |-> "bind", window |-> e.window, event |-> e.id])
    BY <1>16 DEF Settles
  <2>2. UNCHANGED <<windows, work, poisoned>> BY <1>16 DEF Settles, recordVars
  <2>3. e \in [id : Nat, window : Panels, next : {"settle", "bind"}] BY DEF AuthorityTypeOK
  <2>4. [op |-> "bind", window |-> e.window, event |-> e.id] \in Entries BY <2>3 DEF Entries
  <2>5. \A g \in events' : \E f \in events : f.id = g.id /\ f.window = g.window BY <2>1, <2>3
  <2> QED BY <2>1, <2>2, <2>4, <2>5, OpeningsMore
<1>17. ASSUME NEW w \in Panels, PanelOpens(w) PROVE OpeningsFit'
  <2> DEFINE x == [op |-> "revoke", window |-> w, event |-> openings]
             f == [id |-> openings, window |-> w, next |-> "settle"]
  <2>1. events' = events \cup {f} /\ queue' = Append(queue, x) /\ UNCHANGED <<windows, work, poisoned>>
    BY <1>17 DEF PanelOpens, recordVars
  <2>2. x \in Entries /\ x.op = "revoke" /\ f.id = x.event BY DEF AuthorityTypeOK, Entries
  <2> HIDE DEF x, f
  <2> QED BY <2>1, <2>2, OpeningsMore
<1>18. ASSUME NEW w \in Panels, WindowRemoved(w) PROVE OpeningsFit'
  <2>1. [op |-> "release", window |-> w] \in Entries BY DEF Entries
  <2>2. /\ queue' = Append(queue, [op |-> "release", window |-> w]) /\ UNCHANGED <<windows, work, poisoned, events>>
    BY <1>18 DEF WindowRemoved, recordVars
  <2> QED BY <2>1, <2>2, OpeningsMore
<1>19. ASSUME NEW d \in Documents, DocumentAsks(d) PROVE OpeningsFit'
  <2> DEFINE x == [op |-> doc[d].phase, document |-> d, proof |-> doc[d].stored]
  <2>1. d \in Made /\ x.op \in AskOps BY <1>19 DEF DocumentAsks, Live, Made, Asks, AskOps
  <2>2. x \in Entries BY <2>1 DEF AuthorityTypeOK, Entries
  <2>3. queue' = Append(queue, x) /\ UNCHANGED <<windows, work, poisoned, events>> BY <1>19 DEF DocumentAsks, recordVars
  <2> HIDE DEF x
  <2> QED BY <2>2, <2>3, OpeningsMore
<1>20. ASSUME NEW w \in Panels, DocumentAppears(w) \/ PanelReloads(w) \/ PanelCloses(w) PROVE OpeningsFit'
  BY <1>5, <1>20 DEF DocumentAppears, PanelReloads, PanelCloses, workerVars, recordVars
<1>21. ASSUME NEW d \in Documents, ProofDropped(d) PROVE OpeningsFit'
  BY <1>5, <1>21 DEF ProofDropped, workerVars, recordVars
<1>22. CASE WorkerEnds
  <2>1. events' = {} /\ work'.stage = "idle" BY <1>3, <1>22 DEF WorkerEnds
  <2> QED BY <2>1 DEF OpeningsFit
<1>23. CASE UNCHANGED authorityVars BY <1>5, <1>23 DEF authorityVars, workerVars, recordVars
<1> QED
  BY <1>8, <1>9, <1>10, <1>11, <1>12, <1>13, <1>14, <1>15, <1>16, <1>17, <1>18, <1>19, <1>20, <1>21, <1>22, <1>23
     DEF AuthorityNext, Works, DocumentSteps

\* Documents: what one holds changes when it is given a capability or drops it, one that is
\* new is of its panel, and one that is admitted has just been or was.
DocumentsMove ==
  /\ Made \subseteq Made' /\ \A x \in Made : doc'[x].window = doc[x].window
  /\ \A x \in Made : \/ doc'[x].stored \in {doc[x].stored, NoCapability}
                     \/ Saves /\ work.answer.to = x /\ doc'[x].stored = work.answer.capability
  /\ \A x \in Made' \ Made : \E w \in Panels :
       /\ doc'[x].window = w /\ doc'[x].phase = "prepare"
       /\ \/ DocumentAppears(w) /\ doc'[x].stored = NoCapability
          \/ PanelReloads(w) /\ doc'[x].stored = doc[document[w]].stored
  /\ \A x \in Made : doc'[x].phase = "admitted" =>
       /\ doc'[x].stored = doc[x].stored
       /\ doc[x].phase = "admitted" \/ (Admits /\ x = Current.document /\ LeaseCurrent(x))
  /\ Live' \cap Made \subseteq Live

\* Every step moves documents so.
LEMMA DocumentsStep ==
  ASSUME AuthorityTypeOK, AsksFit, [AuthorityNext]_authorityVars
  PROVE  DocumentsMove
<1>1. queue \in Seq(Entries) /\ DOMAIN doc = Documents /\ Made \subseteq Documents BY DEF AuthorityTypeOK, Made
<1>2. queue # <<>> => 1 \in DOMAIN queue /\ queue[1] = Current BY <1>1, EntryDone DEF Current
<1>3. queue # <<>> /\ Current.op \in AskOps => Current.document \in Made /\ Current.proof = doc[Current.document].stored
  BY <1>2 DEF AsksFit, IsAsk
<1>4. \A x \in Made : doc[x] \in [window : Panels, phase : DocPhases, stored : Nat] BY DEF AuthorityTypeOK
\* No document appears.
<1>5. ASSUME Made' = Made, \A x \in Made : doc'[x].window = doc[x].window, UNCHANGED document,
             \A w \in Panels : panel'[w] = "open" => panel[w] = "open",
             \A x \in Made : \/ doc'[x].stored \in {doc[x].stored, NoCapability}
                             \/ Saves /\ work.answer.to = x /\ doc'[x].stored = work.answer.capability,
             \A x \in Made : doc'[x].phase = "admitted" =>
               /\ doc'[x].stored = doc[x].stored
               /\ doc[x].phase = "admitted" \/ (Admits /\ x = Current.document /\ LeaseCurrent(x))
      PROVE  DocumentsMove
  <2>1. Live' \cap Made \subseteq Live BY <1>4, <1>5 DEF Live, Made
  <2> QED BY <1>5, <2>1 DEF DocumentsMove
<1>6. ASSUME UNCHANGED <<doc, document>>, \A w \in Panels : panel'[w] = "open" => panel[w] = "open" PROVE DocumentsMove
  <2>1. Made' = Made BY <1>6 DEF Made
  <2> QED BY <1>5, <1>6, <2>1
\* The document that asked has its answer.
<1>7. ASSUME NEW d \in Made, NEW phase \in DocPhases, UNCHANGED <<panel, document>>,
             doc' = [doc EXCEPT ![d].phase = phase],
             phase = "admitted" => Admits /\ d = Current.document /\ LeaseCurrent(d)
      PROVE  DocumentsMove
  <2>1. /\ Made' = Made /\ \A x \in Documents \ {d} : doc'[x] = doc[x]
        /\ doc'[d] = [window |-> doc[d].window, phase |-> phase, stored |-> doc[d].stored]
    BY <1>7, DocMoves
  <2>2. \A x \in Made : doc'[x].window = doc[x].window /\ doc'[x].stored = doc[x].stored BY <1>1, <2>1
  <2>3. \A x \in Made : doc'[x].phase = "admitted" =>
           doc[x].phase = "admitted" \/ (Admits /\ x = Current.document /\ LeaseCurrent(x))
    BY <1>1, <1>7, <2>1
  <2> QED BY <1>5, <1>7, <2>1, <2>2, <2>3
<1>8. ASSUME NEW d \in Made, NEW phase \in AskOps, NEW c \in Nat, UNCHANGED <<panel, document>>, Accepts(d, phase, c),
             c \in {doc[d].stored, NoCapability} \/ (Saves /\ work.answer.to = d /\ c = work.answer.capability)
      PROVE  DocumentsMove
  <2>0. phase \in DocPhases /\ phase # "admitted" BY <1>8 DEF DocPhases, AskOps
  <2>1. /\ Made' = Made /\ \A x \in Documents \ {d} : doc'[x] = doc[x]
        /\ doc'[d] = [window |-> doc[d].window, phase |-> phase, stored |-> c]
    <3>1. doc' = [doc EXCEPT ![d].phase = phase, ![d].stored = c] BY <1>8 DEF Accepts
    <3>2. phase \in DocPhases BY <2>0
    <3>3. /\ DOMAIN doc' = Documents /\ Made' = Made
          /\ \A x \in Documents \ {d} : doc'[x] = doc[x]
          /\ doc'[d] = [window |-> doc[d].window, phase |-> phase, stored |-> c]
          /\ \A x \in Made : doc'[x] \in [window : Panels, phase : DocPhases, stored : Nat]
      BY <3>1, <3>2, DocChanges
    <3> QED BY <3>3
  <2>2. \A x \in Made : doc'[x].window = doc[x].window BY <1>1, <2>1
  <2>3. \A x \in Made : \/ doc'[x].stored \in {doc[x].stored, NoCapability}
                        \/ Saves /\ work.answer.to = x /\ doc'[x].stored = work.answer.capability
    BY <1>1, <1>8, <2>1
  <2>4. \A x \in Made : doc'[x].phase = "admitted" => doc[x].phase = "admitted" /\ doc'[x].stored = doc[x].stored
    BY <1>1, <2>0, <2>1
  <2> QED BY <1>5, <1>8, <2>1, <2>2, <2>3, <2>4
<1>9. ASSUME NEW d \in Made, Rejects(d), UNCHANGED <<panel, document>> PROVE DocumentsMove
  <2>1. PICK phase \in AskOps \cup {"refused"} : doc' = [doc EXCEPT ![d].phase = phase] BY <1>9, DocRejected
  <2>2. phase \in DocPhases /\ phase # "admitted" BY <2>1 DEF DocPhases, AskOps
  <2> QED BY <1>7, <1>9, <2>1, <2>2
<1>10. CASE SeesContexts \/ Deletes \/ Binds \/ Settles \/ SaveFails
  BY <1>6, <1>10 DEF SeesContexts, Deletes, Binds, Settles, SaveFails, panelVars
<1>11. CASE Prepares
  <2>1. queue # <<>> /\ Current.op \in AskOps /\ UNCHANGED <<panel, document>> BY <1>11 DEF Prepares, Begins, AskOps
  <2>2. CASE UNCHANGED doc BY <1>6, <2>1, <2>2
  <2>3. CASE Rejects(Current.document) BY <1>3, <1>9, <2>1, <2>3
  <2>4. CASE Accepts(Current.document, "confirm", Current.proof)
    <3>1. Current.proof \in Nat /\ "confirm" \in AskOps BY <1>3, <1>4, <2>1 DEF AskOps
    <3> QED BY <1>3, <1>8, <2>1, <2>4, <3>1
  <2> QED BY <1>11, <2>2, <2>3, <2>4 DEF Prepares
<1>12. CASE Confirms
  <2>1. queue # <<>> /\ Current.op \in AskOps /\ UNCHANGED <<panel, document>> BY <1>12 DEF Confirms, Begins, AskOps
  <2>2. CASE UNCHANGED doc BY <1>6, <2>1, <2>2
  <2>3. CASE Rejects(Current.document) BY <1>3, <1>9, <2>1, <2>3
  <2>4. CASE Accepts(Current.document, "admit", Current.proof)
    <3>1. Current.proof \in Nat /\ "admit" \in AskOps BY <1>3, <1>4, <2>1 DEF AskOps
    <3> QED BY <1>3, <1>8, <2>1, <2>4, <3>1
  <2> QED BY <1>12, <2>2, <2>3, <2>4 DEF Confirms
<1>13. CASE Admits
  <2>1. queue # <<>> /\ Current.op \in AskOps /\ UNCHANGED <<panel, document>> BY <1>13 DEF Admits, Begins, AskOps
  <2>2. CASE Rejects(Current.document) BY <1>3, <1>9, <2>1, <2>2
  <2>3. CASE doc' = [doc EXCEPT ![Current.document].phase = "admitted"] /\ LeaseCurrent(Current.document)
    <3>1. "admitted" \in DocPhases BY DEF DocPhases
    <3> QED BY <1>3, <1>7, <1>13, <2>1, <2>3, <3>1
  <2> QED BY <1>13, <2>2, <2>3 DEF Admits
<1>14. CASE Saves
  <2>1. UNCHANGED <<panel, document>> /\ queue # <<>> BY <1>14 DEF Saves, AsksFit
  <2>2. CASE work.answer.to = 0 BY <1>6, <1>14, <2>1, <2>2 DEF Saves
  <2>3. CASE work.answer.to # 0
    <3>1. /\ Current.op \in AskOps /\ work.answer.to = Current.document
          /\ work.answer.phase \in AskOps /\ work.answer.capability \in Nat
      BY <1>14, <2>3 DEF Saves, AsksFit, IsAsk, Current
    <3>2. Accepts(Current.document, work.answer.phase, work.answer.capability) BY <1>14, <2>3, <3>1 DEF Saves
    <3> QED BY <1>3, <1>8, <1>14, <2>1, <3>1, <3>2
  <2> QED BY <2>2, <2>3
<1>15. CASE Throws
  <2>1. queue # <<>> /\ UNCHANGED <<panel, document>> /\ DOMAIN Asks = AskOps BY <1>15 DEF Throws, Asks, AskOps
  <2>2. CASE UNCHANGED doc BY <1>6, <2>1, <2>2
  <2>3. CASE Current.op \in AskOps /\ Rejects(Current.document) BY <1>3, <1>9, <2>1, <2>3
  <2> QED BY <1>15, <2>1, <2>2, <2>3 DEF Throws
<1>16. ASSUME NEW w \in Panels, PanelOpens(w) \/ PanelCloses(w) \/ WindowRemoved(w) PROVE DocumentsMove
  <2>1. \A v \in Panels : panel'[v] = "open" => panel[v] = "open"
    BY <1>16 DEF PanelOpens, PanelCloses, WindowRemoved, AuthorityTypeOK
  <2> QED BY <1>6, <1>16, <2>1 DEF PanelOpens, PanelCloses, WindowRemoved
\* A document appears: that of its window is live no more.
<1>17. ASSUME NEW w \in Panels, NEW c \in Nat, Loads(w, c), \A v \in Panels \ {w} : panel'[v] = panel[v],
              \/ DocumentAppears(w) /\ c = NoCapability
              \/ PanelReloads(w) /\ c = doc[document[w]].stored
       PROVE  DocumentsMove
  <2>1. PICK d \in Documents \ Made :
           /\ Made' = Made \cup {d} /\ \A x \in Documents \ {d} : doc'[x] = doc[x]
           /\ doc'[d] = [window |-> w, phase |-> "prepare", stored |-> c]
           /\ document' = [document EXCEPT ![w] = d]
    BY <1>17, DocAppears
  <2>2. \A x \in Made : doc'[x] = doc[x] BY <1>1, <2>1
  <2>3. Live' \cap Made \subseteq Live
    <3> SUFFICES ASSUME NEW x \in Made, x \in Live' PROVE x \in Live OBVIOUS
    <3>1. doc'[x] = doc[x] /\ doc[x].window \in Panels /\ document \in [Panels -> Nat] BY <1>4, <2>2 DEF AuthorityTypeOK
    <3>2. panel'[doc[x].window] = "open" /\ document'[doc[x].window] = x BY <3>1 DEF Live
    <3>3. doc[x].window # w BY <2>1, <3>1, <3>2
    <3>4. panel[doc[x].window] = "open" /\ document[doc[x].window] = x BY <1>17, <2>1, <3>1, <3>2, <3>3
    <3> QED BY <1>1, <3>4 DEF Live, Made
  <2>4. \A x \in Made' \ Made : /\ doc'[x].window = w /\ doc'[x].phase = "prepare"
                                /\ \/ DocumentAppears(w) /\ doc'[x].stored = NoCapability
                                   \/ PanelReloads(w) /\ doc'[x].stored = doc[document[w]].stored
    <3> SUFFICES ASSUME NEW x \in Made' \ Made
                 PROVE  /\ doc'[x].window = w /\ doc'[x].phase = "prepare"
                        /\ \/ DocumentAppears(w) /\ doc'[x].stored = NoCapability
                           \/ PanelReloads(w) /\ doc'[x].stored = doc[document[w]].stored
      OBVIOUS
    <3>1. x = d BY <2>1
    <3>2. doc'[x].window = w /\ doc'[x].phase = "prepare" /\ doc'[x].stored = c BY <2>1, <3>1
    <3> QED BY <1>17, <3>2
  <2>5. Made \subseteq Made' BY <2>1
  <2> QED BY <2>2, <2>3, <2>4, <2>5 DEF DocumentsMove
<1>18. ASSUME NEW w \in Panels, DocumentAppears(w) PROVE DocumentsMove
  <2>1. NoCapability \in Nat /\ Loads(w, NoCapability) BY <1>18 DEF DocumentAppears, NoCapability
  <2>2. \A v \in Panels \ {w} : panel'[v] = panel[v] BY <1>18 DEF DocumentAppears, AuthorityTypeOK
  <2> QED BY <1>17, <1>18, <2>1, <2>2
<1>19. ASSUME NEW w \in Panels, PanelReloads(w) PROVE DocumentsMove
  <2>1. document[w] \in Made BY <1>19 DEF PanelReloads, AuthorityTypeOK
  <2>2. doc[document[w]].stored \in Nat /\ Loads(w, doc[document[w]].stored) BY <1>4, <1>19, <2>1 DEF PanelReloads
  <2>3. panel' = panel BY <1>19 DEF PanelReloads
  <2> QED BY <1>17, <1>19, <2>2, <2>3
<1>20. ASSUME NEW d \in Documents, DocumentAsks(d) PROVE DocumentsMove
  <2>1. d \in Made /\ doc[d].phase \in DOMAIN Asks BY <1>20 DEF DocumentAsks, Live, Made
  <2>2. Asks[doc[d].phase] \in DocPhases /\ Asks[doc[d].phase] # "admitted"
    BY <2>1 DEF Asks, DocPhases, AskPhases
  <2>3. doc' = [doc EXCEPT ![d].phase = Asks[doc[d].phase]] /\ UNCHANGED <<panel, document>> BY <1>20 DEF DocumentAsks
  <2> QED BY <1>7, <2>1, <2>2, <2>3
<1>21. ASSUME NEW d \in Documents, ProofDropped(d) PROVE DocumentsMove
  <2>1. d \in Made /\ Accepts(d, "prepare", NoCapability) /\ UNCHANGED <<panel, document>>
    BY <1>21 DEF ProofDropped, Live, Made, Accepts
  <2>2. "prepare" \in AskOps /\ NoCapability \in Nat BY DEF AskOps, NoCapability
  <2> QED BY <1>8, <2>1, <2>2
<1>22. CASE WorkerEnds
  <2>1. UNCHANGED <<panel, document>> BY <1>22 DEF WorkerEnds
  <2>2. \A d \in Documents : doc'[d] =
             CASE doc[d].phase = "preparing" -> [doc[d] EXCEPT !.phase = "prepare"]
               [] doc[d].phase = "confirming" -> [doc[d] EXCEPT !.phase = "confirm"]
               [] doc[d].phase \in {"admitting", "admitted"} -> [doc[d] EXCEPT !.phase = "admit"]
               [] OTHER -> doc[d]
    BY <1>22 DEF WorkerEnds
  <2>3. \A d \in Made : doc'[d].window = doc[d].window /\ doc'[d].stored = doc[d].stored
                        /\ doc'[d].phase \in AskOps \cup {"refused"}
    BY <1>1, <1>4, <2>2 DEF DocPhases, AskOps, AskPhases
  <2>4. \A d \in Documents \ Made : doc'[d].phase = "none" BY <2>2 DEF Made
  <2>5. "none" \notin AskOps \cup {"refused"} /\ "admitted" \notin AskOps \cup {"refused"} BY DEF AskOps
  <2>6. Made' = Made BY <1>1, <2>3, <2>4, <2>5 DEF Made
  <2> QED BY <1>5, <2>1, <2>3, <2>5, <2>6
<1>23. CASE UNCHANGED authorityVars BY <1>6, <1>23 DEF authorityVars, panelVars
<1> HIDE DEF DocumentsMove
<1> QED
  BY <1>10, <1>11, <1>12, <1>13, <1>14, <1>15, <1>16, <1>18, <1>19, <1>20, <1>21, <1>22, <1>23
     DEF AuthorityNext, Works, DocumentSteps

\* An entry of the queue that is new is what a document asks, a bind, or of a window that
\* was removed or is opened; windows that are removed stay so.
NewEntry(x) ==
  \/ x.op \notin {"revoke", "release"}
  \/ x.op = "release" /\ x.window \in Panels /\ panel'[x.window] = "removed"
  \/ x.op = "revoke" /\ x.window \in Panels /\ PanelOpens(x.window)
QueueMoves ==
  /\ \A i \in DOMAIN queue' : (\E j \in DOMAIN queue : queue[j] = queue'[i]) \/ NewEntry(queue'[i])
  /\ \A w \in Panels : panel[w] = "removed" => panel'[w] = "removed"

\* Every step moves the queue so.
LEMMA QueueStep ==
  ASSUME AuthorityTypeOK, AsksFit, [AuthorityNext]_authorityVars
  PROVE  QueueMoves
<1>1. queue \in Seq(Entries) /\ panel \in [Panels -> {"closed", "opening", "open", "removed"}] BY DEF AuthorityTypeOK
<1>2. queue # <<>> => \A i \in DOMAIN Tail(queue) : i + 1 \in DOMAIN queue /\ Tail(queue)[i] = queue[i + 1]
  BY <1>1, EntryDone
<1>3. queue # <<>> => Tail(queue) \o <<>> = Tail(queue) BY <1>1, EntryDone
<1>4. ASSUME UNCHANGED panel, queue' = queue \/ (queue # <<>> /\ Done(<<>>)) PROVE QueueMoves
  <2>1. CASE queue' = queue BY <1>4, <2>1 DEF QueueMoves
  <2>2. CASE queue # <<>> /\ Done(<<>>)
    <3>1. queue' = Tail(queue) BY <1>3, <2>2 DEF Done
    <3>2. \A i \in DOMAIN queue' : i + 1 \in DOMAIN queue /\ queue'[i] = queue[i + 1] BY <1>2, <2>2, <3>1
    <3> QED BY <1>4, <3>2 DEF QueueMoves
  <2> QED BY <1>4, <2>1, <2>2
<1>5. ASSUME NEW x \in Entries, queue' = Append(queue, x), NewEntry(x),
             \A w \in Panels : panel[w] = "removed" => panel'[w] = "removed"
      PROVE  QueueMoves
  <2>1. \A i \in DOMAIN queue' : (i \in DOMAIN queue /\ queue'[i] = queue[i]) \/ queue'[i] = x
    BY <1>1, <1>5, EntryAdded
  <2> QED BY <1>5, <2>1 DEF QueueMoves
<1>6. CASE SeesContexts BY <1>4, <1>6 DEF SeesContexts, panelVars
<1>7. CASE Deletes BY <1>4, <1>7 DEF Deletes, panelVars, Begins
<1>8. CASE Binds BY <1>4, <1>8 DEF Binds, panelVars, Begins
<1>9. CASE Prepares
  <2>1. queue # <<>> /\ UNCHANGED panel /\ (queue' = queue \/ Done(<<>>)) BY <1>9 DEF Prepares, Begins
  <2> QED BY <1>4, <2>1
<1>10. CASE Confirms
  <2>1. queue # <<>> /\ UNCHANGED panel /\ (queue' = queue \/ Done(<<>>)) BY <1>10 DEF Confirms, Begins
  <2> QED BY <1>4, <2>1
<1>11. CASE Admits BY <1>4, <1>11 DEF Admits, Begins
<1>12. CASE Saves BY <1>4, <1>12 DEF Saves, AsksFit
<1>13. CASE Throws BY <1>4, <1>13 DEF Throws
<1>14. CASE Settles
  <2>1. PICK e \in events : queue' = Append(queue, [op |-> "bind", window |-> e.window, event |-> e.id])
    BY <1>14 DEF Settles
  <2>2. [op |-> "bind", window |-> e.window, event |-> e.id] \in Entries BY DEF Entries, AuthorityTypeOK
  <2>3. NewEntry([op |-> "bind", window |-> e.window, event |-> e.id]) BY DEF NewEntry
  <2>4. UNCHANGED panel BY <1>14 DEF Settles, panelVars
  <2> QED BY <1>5, <2>1, <2>2, <2>3, <2>4
<1>15. ASSUME NEW w \in Panels, PanelOpens(w) PROVE QueueMoves
  <2> DEFINE x == [op |-> "revoke", window |-> w, event |-> openings]
  <2>1. x \in Entries /\ NewEntry(x) BY <1>15 DEF Entries, AuthorityTypeOK, NewEntry
  <2>2. queue' = Append(queue, x) /\ \A v \in Panels : panel[v] = "removed" => panel'[v] = "removed"
    BY <1>1, <1>15 DEF PanelOpens
  <2> HIDE DEF x
  <2> QED BY <1>5, <2>1, <2>2
<1>16. ASSUME NEW w \in Panels, WindowRemoved(w) PROVE QueueMoves
  <2> DEFINE x == [op |-> "release", window |-> w]
  <2>1. x \in Entries /\ NewEntry(x) BY <1>1, <1>16 DEF Entries, NewEntry, WindowRemoved
  <2>2. queue' = Append(queue, x) /\ \A v \in Panels : panel[v] = "removed" => panel'[v] = "removed"
    BY <1>1, <1>16 DEF WindowRemoved
  <2> HIDE DEF x
  <2> QED BY <1>5, <2>1, <2>2
<1>17. ASSUME NEW w \in Panels, DocumentAppears(w) \/ PanelReloads(w) \/ PanelCloses(w) PROVE QueueMoves
  <2>1. queue' = queue BY <1>17 DEF DocumentAppears, PanelReloads, PanelCloses, workerVars
  <2>2. \A v \in Panels : panel[v] = "removed" => panel'[v] = "removed"
    BY <1>1, <1>17 DEF DocumentAppears, PanelReloads, PanelCloses
  <2> QED BY <2>1, <2>2 DEF QueueMoves
<1>18. ASSUME NEW d \in Documents, DocumentAsks(d) PROVE QueueMoves
  <2> DEFINE x == [op |-> doc[d].phase, document |-> d, proof |-> doc[d].stored]
  <2>1. d \in Made /\ x.op \in AskOps BY <1>18 DEF DocumentAsks, Live, Made, Asks, AskOps
  <2>2. x \in Entries BY <2>1 DEF AuthorityTypeOK, Entries
  <2>3. NewEntry(x) BY <2>1 DEF NewEntry, AskOps
  <2>4. queue' = Append(queue, x) /\ UNCHANGED panel BY <1>18 DEF DocumentAsks
  <2> HIDE DEF x
  <2> QED BY <1>5, <2>2, <2>3, <2>4
<1>19. ASSUME NEW d \in Documents, ProofDropped(d) PROVE QueueMoves BY <1>4, <1>19 DEF ProofDropped, workerVars
<1>20. CASE SaveFails BY <1>4, <1>20 DEF SaveFails, panelVars
<1>21. CASE WorkerEnds
  <2>1. DOMAIN queue' = {} /\ UNCHANGED panel BY <1>21 DEF WorkerEnds
  <2> QED BY <2>1 DEF QueueMoves
<1>22. CASE UNCHANGED authorityVars BY <1>4, <1>22 DEF authorityVars, panelVars, workerVars
<1> QED
  BY <1>6, <1>7, <1>8, <1>9, <1>10, <1>11, <1>12, <1>13, <1>14, <1>15, <1>16, <1>17, <1>18, <1>19, <1>20, <1>21, <1>22
     DEF AuthorityNext, Works, DocumentSteps

\* Records: they stay, are stored, are read, or one of them is set.
RecordsMove ==
  \/ UNCHANGED <<windows, disk, capability>> /\ (work'.stage = "saving" => work' = work)
  \/ /\ disk' = windows' /\ capability' = capability /\ work' = Idle
     /\ windows' = windows \/ (windows' = disk /\ events' = {} /\ queue' = <<>>)
  \/ (Deletes \/ Binds \/ Prepares \/ Confirms) /\ work'.stage = "saving"

\* Every step moves records so.
LEMMA RecordsStep ==
  ASSUME AuthorityTypeOK, [AuthorityNext]_authorityVars
  PROVE  RecordsMove
<1>1. Idle.stage = "idle" BY DEF Idle
<1>2. ASSUME UNCHANGED <<windows, disk, capability>>, work' = work \/ work'.stage # "saving" PROVE RecordsMove
  BY <1>2 DEF RecordsMove
<1>3. CASE SeesContexts
  <2>1. UNCHANGED <<windows, disk, capability>> /\ work'.stage = "seen" BY <1>3 DEF SeesContexts, recordVars
  <2> QED BY <1>2, <2>1
<1>4. CASE Settles BY <1>2, <1>4 DEF Settles, recordVars
<1>5. CASE Admits
  <2>1. UNCHANGED <<windows, disk, capability>> /\ work' = Idle BY <1>5 DEF Admits, recordVars, Done
  <2> QED BY <1>1, <1>2, <2>1
<1>6. CASE Throws
  <2>1. UNCHANGED <<windows, disk, capability>> /\ work' = Idle BY <1>6 DEF Throws, recordVars, Done
  <2> QED BY <1>1, <1>2, <2>1
<1>7. CASE SaveFails
  <2>1. UNCHANGED <<windows, disk, capability>> /\ work' = Idle BY <1>7 DEF SaveFails, recordVars
  <2> QED BY <1>1, <1>2, <2>1
<1>8. CASE Saves
  <2>1. windows' = windows /\ disk' = windows /\ capability' = capability /\ work' = Idle BY <1>8 DEF Saves, Done
  <2> QED BY <2>1 DEF RecordsMove
<1>9. CASE WorkerEnds
  <2>1. /\ windows' = disk' /\ capability' = capability /\ work' = Idle /\ windows' \in {windows, disk}
        /\ events' = {} /\ queue' = <<>>
    BY <1>9 DEF WorkerEnds, Written
  <2> QED BY <2>1 DEF RecordsMove
<1>10. ASSUME work'.stage = "saving" \/ (work' = Idle /\ UNCHANGED <<windows, disk, capability>>),
              Deletes \/ Binds \/ Prepares \/ Confirms
       PROVE  RecordsMove
  BY <1>1, <1>2, <1>10 DEF RecordsMove
<1>11. CASE Deletes
  <2>1. work'.stage = "saving" \/ (work' = Idle /\ UNCHANGED <<windows, disk, capability>>)
    BY <1>11 DEF Deletes, Sets, Done
  <2> QED BY <1>10, <1>11, <2>1
<1>12. CASE Binds
  <2>0. UNCHANGED <<disk, capability>> BY <1>12 DEF Binds
  <2>1. work'.stage = "saving" \/ (work' = Idle /\ UNCHANGED <<windows, disk, capability>>)
    <3>1. CASE work' = Idle /\ UNCHANGED windows BY <2>0, <3>1
    <3>2. CASE \E d : Sets(Current.window, [stage |-> "opened", document |-> d], FALSE, [to |-> 0, bound |-> TRUE])
      BY <3>2 DEF Sets
    <3> QED BY <1>12, <3>1, <3>2 DEF Binds, Done
  <2> QED BY <1>10, <1>12, <2>1
<1>13. CASE Prepares
  <2>1. work'.stage = "saving" \/ (work' = Idle /\ UNCHANGED <<windows, disk, capability>>)
    BY <1>13 DEF Prepares, Sets, Done
  <2> QED BY <1>10, <1>13, <2>1
<1>14. CASE Confirms
  <2>1. work'.stage = "saving" \/ (work' = Idle /\ UNCHANGED <<windows, disk, capability>>)
    BY <1>14 DEF Confirms, Sets, Done
  <2> QED BY <1>10, <1>14, <2>1
<1>15. ASSUME NEW w \in Panels,
              DocumentAppears(w) \/ PanelOpens(w) \/ PanelReloads(w) \/ PanelCloses(w) \/ WindowRemoved(w)
       PROVE  RecordsMove
  BY <1>2, <1>15 DEF DocumentAppears, PanelOpens, PanelReloads, PanelCloses, WindowRemoved, recordVars, workerVars
<1>16. ASSUME NEW d \in Documents, DocumentAsks(d) \/ ProofDropped(d) PROVE RecordsMove
  BY <1>2, <1>16 DEF DocumentAsks, ProofDropped, recordVars, workerVars
<1>17. CASE UNCHANGED authorityVars BY <1>2, <1>17 DEF authorityVars, recordVars, workerVars
<1> QED
  BY <1>3, <1>4, <1>5, <1>6, <1>7, <1>8, <1>9, <1>11, <1>12, <1>13, <1>14, <1>15, <1>16, <1>17
     DEF AuthorityNext, Works, DocumentSteps

\* The record of a window changes in memory: its document is the one that asked or is bound,
\* its capability new or the one the record had, and no live document loses its record.
RecordChanges(w, record, answer) ==
  /\ windows' = [windows EXCEPT ![w] = record] /\ work' = [stage |-> "saving", answer |-> answer]
  /\ UNCHANGED <<panel, document, doc, disk, events, queue, poisoned, muddled>> /\ windows = disk /\ ~poisoned
  /\ record.stage # "none" =>
       /\ record.document \in Made
       /\ \A i \in DOMAIN queue : queue[i].op = "revoke" => queue[i].window # w
  /\ \/ ~Issued(record) /\ answer.to = 0 /\ capability' = capability
     \/ /\ Issued(record) /\ record.capability = answer.capability /\ answer.to = record.document
        /\ record.document \in Live
        /\ \/ capability' = capability + 1 /\ record.capability = capability + 1
           \/ capability' = capability /\ Issued(windows[w]) /\ windows[w].capability = record.capability
  /\ ~muddled =>
       /\ record.stage # "none" /\ record.document \in Live => doc[record.document].window = w
       /\ \A x \in Live : w \in Owners(x) =>
            record.stage # "none" /\ record.document = x /\ windows[w].stage # "active"

\* The record of a window that goes.
LEMMA DeletesChanges ==
  ASSUME AuthorityTypeOK, LeaseInv, RecordsMade, OwnersFit, Deletes, work'.stage = "saving"
  PROVE  \E w, record, answer : w \in Panels /\ RecordChanges(w, record, answer)
<1> DEFINE w == Current.window
<1>1. queue \in Seq(Entries) /\ queue # <<>> /\ Current.op \in {"revoke", "release"} /\ work = Idle /\ ~poisoned
  BY DEF AuthorityTypeOK, Deletes, Begins
<1>2. 1 \in DOMAIN queue /\ queue[1] = Current BY <1>1, EntryDone DEF Current
<1>3. w \in Panels BY <1>1, <1>2, EntryIs
<1>4. Idle.stage = "idle" /\ NoRecord.stage = "none" /\ NoAnswer.to = 0 BY DEF Idle, NoRecord, NoAnswer
<1>5. windows = disk BY <1>1, <1>4 DEF LeaseInv, OneChanges
<1>6. Sets(w, NoRecord, FALSE, NoAnswer) /\ UNCHANGED queue
  <2>1. CASE windows[w] = NoRecord
    <3>1. work' = Idle BY <2>1 DEF Deletes, Done
    <3> QED BY <1>4, <3>1
  <2>2. CASE windows[w] # NoRecord BY <2>2 DEF Deletes
  <2> QED BY <2>1, <2>2
<1>7. UNCHANGED <<panel, document, doc, disk, events, poisoned, muddled, capability>> BY DEF Deletes, panelVars
<1> HIDE DEF w
<1>8. ASSUME ~muddled, NEW x \in Live, w \in Owners(x) PROVE FALSE
  <2>1. windows[w].stage # "none" /\ windows[w].document = x BY <1>8 DEF Owners
  <2>2. CASE Current.op = "revoke" BY <1>1, <1>2, <1>8, <2>2 DEF OwnersFit, w
  <2>3. CASE Current.op = "release"
    <3>1. doc[x].window = w BY <1>3, <1>8, <2>1 DEF OwnersFit, OwnWindow
    <3>2. panel[w] = "removed" BY <1>2, <2>3 DEF RecordsMade, w
    <3> QED BY <1>8, <3>1, <3>2 DEF Live
  <2> QED BY <1>1, <2>2, <2>3
<1>9. windows' = [windows EXCEPT ![w] = NoRecord] /\ work' = [stage |-> "saving", answer |-> NoAnswer] BY <1>6 DEF Sets
<1>10. ~Issued(NoRecord) BY <1>4 DEF Issued
<1>11. RecordChanges(w, NoRecord, NoAnswer) BY <1>1, <1>4, <1>5, <1>6, <1>7, <1>8, <1>9, <1>10 DEF RecordChanges
<1> QED BY <1>3, <1>11

\* The document of an opening is bound.
LEMMA BindsChanges ==
  ASSUME AuthorityTypeOK, LeaseInv, EventsFit, OpeningsFit, OwnersFit, Binds, work'.stage = "saving"
  PROVE  \E w, record, answer : w \in Panels /\ RecordChanges(w, record, answer)
<1> DEFINE w == Current.window
           answer == [to |-> 0, bound |-> TRUE]
<1>1. queue \in Seq(Entries) /\ queue # <<>> /\ Current.op = "bind" /\ work.stage = "seen" /\ ~poisoned
  BY DEF AuthorityTypeOK, Binds, Begins
<1>2. 1 \in DOMAIN queue /\ queue[1] = Current BY <1>1, EntryDone DEF Current
<1>3. w \in Panels BY <1>1, <1>2, EntryIs
<1>4. windows = disk BY <1>1 DEF LeaseInv, OneChanges
<1>5. /\ Cardinality(events) = 1 /\ UNCHANGED <<events, queue>>
      /\ \E d \in {d \in work.contexts : InWindow(d, w) /\ Owners(d) \subseteq {w}} :
           Sets(w, [stage |-> "opened", document |-> d], FALSE, answer)
  <2>1. Idle.stage = "idle" BY DEF Idle
  <2> QED BY <2>1 DEF Binds, Done
<1>6. PICK d \in work.contexts : Owners(d) \subseteq {w} /\ Sets(w, [stage |-> "opened", document |-> d], FALSE, answer)
  BY <1>5
<1> DEFINE record == [stage |-> "opened", document |-> d]
<1>7. record.stage = "opened" /\ record.document = d /\ answer.to = 0 /\ ~Issued(record) BY DEF Issued
<1>8. windows' = [windows EXCEPT ![w] = record] /\ work' = [stage |-> "saving", answer |-> answer] BY <1>6 DEF Sets
<1>9. UNCHANGED <<panel, document, doc, disk, poisoned, muddled, capability>> BY DEF Binds, panelVars
<1> HIDE DEF w, answer, record
<1>10. d \in Made BY <1>1, <1>6 DEF AuthorityTypeOK
<1>11. /\ \E e \in events : e.id = Current.event /\ e.window = w
       /\ \A e \in events : e.id = Current.event /\ e.window = w
       /\ \A i \in DOMAIN queue : queue[i].op # "revoke"
  BY <1>1, <1>5, OneEvent DEF w
\* The record the window had was revoked.
<1>12. windows[w].stage = "none" BY <1>1, <1>11 DEF OpeningsFit
<1>13. ASSUME ~muddled, d \in Live PROVE doc[d].window = w
  <2>1. CASE Owners(d) = {} BY <1>1, <1>11, <1>13, <2>1 DEF OwnersFit
  <2>2. CASE Owners(d) # {} BY <1>6, <1>12, <2>2 DEF Owners
  <2> QED BY <2>1, <2>2
<1>14. \A x : w \notin Owners(x) BY <1>12 DEF Owners
<1>15. RecordChanges(w, record, answer)
  BY <1>1, <1>4, <1>5, <1>7, <1>8, <1>9, <1>10, <1>11, <1>13, <1>14 DEF RecordChanges
<1> QED BY <1>3, <1>15

\* A window that is not being opened has no revocation in the queue.
LEMMA NoRevocation ==
  ASSUME AuthorityTypeOK, EventsFit, ~poisoned, NEW w, ~IsWindowOpening(w)
  PROVE  \A i \in DOMAIN queue : queue[i].op = "revoke" => queue[i].window # w
<1> SUFFICES ASSUME NEW i \in DOMAIN queue, queue[i].op = "revoke", queue[i].window = w PROVE FALSE OBVIOUS
<1>1. PICK e \in events : e.window = w BY EventOf
<1> QED BY <1>1 DEF IsWindowOpening

\* A document is pended: it had the record, or proves that it is from the window of a
\* document that is gone.
LEMMA PreparesChanges ==
  ASSUME AuthorityTypeOK, AsksFit, LeaseInv, EventsFit, OwnersFit, Prepares, work'.stage = "saving"
  PROVE  \E w, record, answer : w \in Panels /\ RecordChanges(w, record, answer)
<1> DEFINE d == Current.document
           proof == Current.proof
<1>1. queue \in Seq(Entries) /\ queue # <<>> /\ Current.op = "prepare" /\ work.stage = "seen" /\ ~poisoned
  BY DEF AuthorityTypeOK, Prepares, Begins
<1>2. 1 \in DOMAIN queue /\ queue[1] = Current BY <1>1, EntryDone DEF Current
<1>3. d \in Made /\ proof = doc[d].stored BY <1>1, <1>2 DEF AsksFit, IsAsk, AskOps
<1>4. windows = disk BY <1>1 DEF LeaseInv, OneChanges
<1>5. /\ capability' = capability + 1 /\ UNCHANGED <<doc, queue>>
      /\ \E s \in Successions(d, proof, work.contexts) :
           /\ Revalidated(s.window, d, s.gone)
           /\ Sets(s.window, s.record, TRUE, Answer(d, "confirm", s.record.capability))
  <2>1. Idle.stage = "idle" BY DEF Idle
  <2> QED BY <2>1 DEF Prepares, Done
<1>6. PICK s \in Successions(d, proof, work.contexts) :
           /\ Revalidated(s.window, d, s.gone)
           /\ Sets(s.window, s.record, TRUE, Answer(d, "confirm", s.record.capability))
  BY <1>5
<1> DEFINE w == s.window
           record == s.record
           answer == Answer(d, "confirm", s.record.capability)
<1> HIDE DEF d, proof
<1>7. record.stage = "pending" /\ record.document = d /\ record.capability = capability + 1
  BY DEF Successions, Pending
<1>8. /\ w \in Panels
      /\ \/ windows[w].stage = "opened" /\ windows[w].document = d
         \/ /\ windows[w].stage \in {"active", "pending"} /\ windows[w].capability = proof
            /\ s.gone = windows[w].document
         \/ windows[w].stage = "pending" /\ windows[w].document = d
  BY DEF Successions, Owners, Proves
<1>9. answer.to = d /\ answer.capability = record.capability BY DEF Answer
<1>10. ~IsWindowOpening(w) /\ d \in Live /\ s.gone \notin Live BY <1>6 DEF Revalidated
<1>11. windows' = [windows EXCEPT ![w] = record] /\ work' = [stage |-> "saving", answer |-> answer] BY <1>6 DEF Sets
<1> HIDE DEF w, record, answer
<1>12. UNCHANGED <<panel, document, disk, events, poisoned, muddled>> BY DEF Prepares
<1>13. Issued(record) BY <1>7 DEF Issued
<1>14. \A i \in DOMAIN queue : queue[i].op = "revoke" => queue[i].window # w BY <1>1, <1>10, NoRevocation
<1>15. ASSUME ~muddled PROVE doc[d].window = w
  <2>1. CASE windows[w].stage # "none" /\ windows[w].document = d
    BY <1>8, <1>10, <1>15, <2>1 DEF OwnersFit, OwnWindow
  <2>2. CASE Issued(windows[w]) /\ windows[w].capability = doc[d].stored
    BY <1>3, <1>8, <1>15, <2>2 DEF OwnersFit, OwnWindow
  <2> QED BY <1>3, <1>8, <2>1, <2>2 DEF Issued
<1>16. \A x \in Live : w \in Owners(x) => x = d /\ windows[w].stage # "active"
  BY <1>8, <1>10 DEF Owners
<1>17. RecordChanges(w, record, answer)
  BY <1>1, <1>3, <1>4, <1>5, <1>7, <1>9, <1>10, <1>11, <1>12, <1>13, <1>14, <1>15, <1>16 DEF RecordChanges
<1> QED BY <1>8, <1>17

\* The pending record of a document is confirmed.
LEMMA ConfirmsChanges ==
  ASSUME AuthorityTypeOK, AsksFit, LeaseInv, EventsFit, OwnersFit, Confirms, work'.stage = "saving"
  PROVE  \E w, record, answer : w \in Panels /\ RecordChanges(w, record, answer)
<1> DEFINE d == Current.document
           w == CHOOSE v \in Panels : \A u \in Owners(d) : v \in Owners(d)
           record == [stage |-> "active", document |-> d, capability |-> windows[w].capability]
           answer == Answer(d, "admit", windows[w].capability)
<1>1. queue \in Seq(Entries) /\ queue # <<>> /\ Current.op = "confirm" /\ work.stage = "seen" /\ ~poisoned
  BY DEF AuthorityTypeOK, Confirms, Begins
<1>2. 1 \in DOMAIN queue /\ queue[1] = Current BY <1>1, EntryDone DEF Current
<1>3. d \in Made BY <1>1, <1>2 DEF AsksFit, IsAsk, AskOps
<1>4. windows = disk BY <1>1 DEF LeaseInv, OneChanges
<1>5. /\ Owners(d) # {} /\ windows[w].stage = "pending" /\ Revalidated(w, d, 0) /\ Sets(w, record, FALSE, answer)
      /\ UNCHANGED <<doc, queue>>
  <2>1. Idle.stage = "idle" BY DEF Idle
  <2> QED BY <2>1 DEF Confirms, Done
<1>6. w \in Owners(d)
  <2>1. \E v \in Panels : \A u \in Owners(d) : v \in Owners(d) BY <1>5 DEF Owners
  <2> QED BY <1>5, <2>1
<1>7. record.stage = "active" /\ record.document = d /\ record.capability = windows[w].capability OBVIOUS
<1>8. answer.to = d /\ answer.capability = record.capability BY DEF Answer
<1> HIDE DEF d, w, record, answer
<1>9. w \in Panels /\ windows[w].stage # "none" /\ windows[w].document = d BY <1>6 DEF Owners
<1>10. ~IsWindowOpening(w) /\ d \in Live BY <1>5 DEF Revalidated
<1>11. windows' = [windows EXCEPT ![w] = record] /\ work' = [stage |-> "saving", answer |-> answer] BY <1>5 DEF Sets
<1>12. UNCHANGED <<panel, document, disk, events, poisoned, muddled, capability>> BY DEF Confirms
<1>13. Issued(record) /\ Issued(windows[w]) BY <1>5, <1>7 DEF Issued
<1>14. \A i \in DOMAIN queue : queue[i].op = "revoke" => queue[i].window # w BY <1>1, <1>10, NoRevocation
<1>15. ~muddled => doc[d].window = w BY <1>9, <1>10 DEF OwnersFit, OwnWindow
<1>16. \A x \in Live : w \in Owners(x) => x = d /\ windows[w].stage # "active" BY <1>5, <1>9 DEF Owners
<1>17. RecordChanges(w, record, answer)
  BY <1>1, <1>3, <1>4, <1>5, <1>7, <1>8, <1>10, <1>11, <1>12, <1>13, <1>14, <1>15, <1>16 DEF RecordChanges
<1> QED BY <1>9, <1>17

\* What is set fits what asked for it, whoever asked.
LEMMA RecordIsSet ==
  ASSUME AuthorityTypeOK, AsksFit, LeaseInv, EventsFit, OpeningsFit, RecordsMade, OwnersFit,
         Deletes \/ Binds \/ Prepares \/ Confirms, work'.stage = "saving"
  PROVE  \E w, record, answer : w \in Panels /\ RecordChanges(w, record, answer)
<1>1. CASE Deletes BY <1>1, DeletesChanges
<1>2. CASE Binds BY <1>2, BindsChanges
<1>3. CASE Prepares BY <1>3, PreparesChanges
<1>4. CASE Confirms BY <1>4, ConfirmsChanges
<1> QED BY <1>1, <1>2, <1>3, <1>4

\* Events are of the windows events were of, or of one that opens; what muddles the
\* contexts, and a save that failed, are not forgotten, but for the worker's end.
LEMMA EventsMove ==
  ASSUME AuthorityTypeOK, [AuthorityNext]_authorityVars
  PROVE  /\ \A e \in events' : (\E f \in events : f.window = e.window) \/ (e.window \in Panels /\ PanelOpens(e.window))
         /\ muddled => muddled'
         /\ ~poisoned' => ~poisoned \/ (events' = {} /\ queue' = <<>>)
<1> DEFINE Goal == /\ \A e \in events' : (\E f \in events : f.window = e.window) \/ (e.window \in Panels /\ PanelOpens(e.window))
                   /\ muddled => muddled'
                   /\ ~poisoned' => ~poisoned \/ (events' = {} /\ queue' = <<>>)
<1>1. ASSUME events' \subseteq events, muddled => muddled', poisoned => poisoned' PROVE Goal BY <1>1
<1>2. ASSUME Works PROVE Goal
  <2>1. UNCHANGED <<muddled, poisoned>>
    BY <1>2 DEF Works, SeesContexts, Deletes, Binds, Prepares, Confirms, Admits, Saves, Throws
  <2>2. events' \subseteq events
    BY <1>2 DEF Works, SeesContexts, Deletes, Binds, Prepares, Confirms, Admits, Saves, Throws
  <2> HIDE DEF Goal
  <2> QED BY <1>1, <2>1, <2>2
<1>3. ASSUME Settles PROVE Goal
  <2>1. PICK e \in events : events' = (events \ {e}) \cup {[e EXCEPT !.next = "bind"]} BY <1>3 DEF Settles
  <2>2. [e EXCEPT !.next = "bind"].window = e.window BY DEF AuthorityTypeOK
  <2>3. UNCHANGED <<muddled, poisoned>> BY <1>3 DEF Settles
  <2> QED BY <2>1, <2>2, <2>3
<1>4. ASSUME NEW w \in Panels, PanelOpens(w) PROVE Goal
  <2>1. events' = events \cup {[id |-> openings, window |-> w, next |-> "settle"]} /\ UNCHANGED poisoned
        /\ (muddled => muddled')
    BY <1>4 DEF PanelOpens
  <2> QED BY <1>4, <2>1
<1>5. ASSUME NEW w \in Panels, DocumentAppears(w) \/ PanelReloads(w) \/ PanelCloses(w) \/ WindowRemoved(w) PROVE Goal
  <2>1. UNCHANGED <<events, poisoned>>
    BY <1>5 DEF DocumentAppears, PanelReloads, PanelCloses, WindowRemoved, workerVars
  <2>2. muddled => muddled' BY <1>5 DEF DocumentAppears, PanelReloads, PanelCloses, WindowRemoved
  <2> QED BY <2>1, <2>2
<1>6. ASSUME NEW d \in Documents, DocumentSteps(d) PROVE Goal
  <2>1. UNCHANGED <<events, muddled, poisoned>> BY <1>6 DEF DocumentSteps, DocumentAsks, ProofDropped, workerVars
  <2> QED BY <2>1
<1>7. ASSUME SaveFails PROVE Goal BY <1>7 DEF SaveFails
<1>8. ASSUME WorkerEnds PROVE Goal BY <1>8 DEF WorkerEnds
<1>9. ASSUME UNCHANGED authorityVars PROVE Goal BY <1>9 DEF authorityVars, workerVars
<1>10. Goal
  <2> HIDE DEF Goal
  <2> QED BY <1>2, <1>3, <1>4, <1>5, <1>6, <1>7, <1>8, <1>9 DEF AuthorityNext
<1> QED BY <1>10

\* Every step keeps records of documents there have been, and capabilities below the last one.
LEMMA RecordsMadeStep ==
  ASSUME AuthorityTypeOK, AsksFit, LeaseInv, EventsFit, OpeningsFit, RecordsMade, OwnersFit,
         [AuthorityNext]_authorityVars
  PROVE  RecordsMade'
<1>1. DocumentsMove /\ QueueMoves /\ RecordsMove BY DocumentsStep, QueueStep, RecordsStep
<1>2. /\ Made \subseteq Made' /\ capability \in Nat /\ NoCapability = 0 /\ DOMAIN windows = Panels
      /\ \A d \in Made : doc[d].stored \in Nat
  BY <1>1 DEF DocumentsMove, AuthorityTypeOK, LeaseInv, RecordsFit, NoCapability
\* Windows whose record is to be released are gone.
<1>3. \A i \in DOMAIN queue' : queue'[i].op = "release" => panel'[queue'[i].window] = "removed"
  <2> SUFFICES ASSUME NEW i \in DOMAIN queue', queue'[i].op = "release" PROVE panel'[queue'[i].window] = "removed"
    OBVIOUS
  <2>1. CASE \E j \in DOMAIN queue : queue[j] = queue'[i]
    <3>1. PICK j \in DOMAIN queue : queue[j] = queue'[i] BY <2>1
    <3>2. panel[queue[j].window] = "removed" /\ queue[j].window \in Panels BY <3>1, EntryIs DEF RecordsMade
    <3> QED BY <1>1, <3>1, <3>2 DEF QueueMoves
  <2>2. CASE NewEntry(queue'[i]) BY <2>2 DEF NewEntry
  <2> QED BY <1>1, <2>1, <2>2 DEF QueueMoves
\* What documents hold was issued.
<1>4. \A d \in Made' : doc'[d].stored <= capability
  <2> SUFFICES ASSUME NEW d \in Made' PROVE doc'[d].stored <= capability OBVIOUS
  <2>1. CASE d \in Made
    <3>1. CASE doc'[d].stored = doc[d].stored BY <2>1, <3>1 DEF RecordsMade
    <3>2. CASE doc'[d].stored = NoCapability BY <1>2, <3>2
    <3>3. CASE Saves /\ work.answer.to = d /\ doc'[d].stored = work.answer.capability
      <4>1. d # 0 BY <2>1 DEF Made, Documents
      <4> QED BY <3>3, <4>1 DEF RecordsMade, Saves
    <3> QED BY <1>1, <2>1, <3>1, <3>2, <3>3 DEF DocumentsMove
  <2>2. CASE d \notin Made
    <3>1. PICK w \in Panels : \/ doc'[d].stored = NoCapability
                              \/ PanelReloads(w) /\ doc'[d].stored = doc[document[w]].stored
      BY <1>1, <2>2 DEF DocumentsMove
    <3>2. PanelReloads(w) => document[w] \in Made BY DEF PanelReloads, AuthorityTypeOK
    <3> QED BY <1>2, <3>1, <3>2 DEF RecordsMade
  <2> QED BY <2>1, <2>2
\* Records stay, are stored or read.
<1>5. ASSUME windows' \in {windows, disk}, disk' \in {windows, disk}, capability' = capability,
             work'.stage = "saving" => work' = work
      PROVE  RecordsMade'
  <2>1. \A w \in Panels : windows'[w].stage # "none" => windows'[w].document \in Made' BY <1>2, <1>5 DEF RecordsMade
  <2>2. \A w \in Panels : disk'[w].stage # "none" => disk'[w].document \in Made' BY <1>2, <1>5 DEF RecordsMade
  <2>3. work'.stage = "saving" /\ work'.answer.to # 0 => work'.answer.capability <= capability'
    BY <1>5 DEF RecordsMade
  <2> QED BY <1>3, <1>4, <1>5, <2>1, <2>2, <2>3 DEF RecordsMade
<1>6. CASE UNCHANGED <<windows, disk, capability>> /\ (work'.stage = "saving" => work' = work) BY <1>5, <1>6
<1>7. CASE disk' = windows' /\ (windows' = windows \/ windows' = disk) /\ capability' = capability /\ work' = Idle
  BY <1>5, <1>7 DEF Idle
<1>8. CASE (Deletes \/ Binds \/ Prepares \/ Confirms) /\ work'.stage = "saving"
  <2>1. PICK w, record, answer : w \in Panels /\ RecordChanges(w, record, answer) BY <1>8, RecordIsSet
  <2>2. /\ windows' = [windows EXCEPT ![w] = record] /\ UNCHANGED <<doc, disk>>
        /\ record.stage # "none" => record.document \in Made
    BY <2>1 DEF RecordChanges
  <2>3. Issued(record) => record.capability \in Nat /\ record.capability <= capability'
    <3>1. Issued(windows[w]) => windows[w].capability \in 1..capability BY <2>1 DEF LeaseInv, RecordsFit
    <3> QED BY <1>2, <2>1, <3>1 DEF RecordChanges
  <2>4. work'.answer.to # 0 => work'.answer.capability <= capability' BY <2>1, <2>3 DEF RecordChanges
  <2>5. capability' \in {capability, capability + 1} BY <2>1 DEF RecordChanges
  <2>6. \A v \in Panels : windows'[v].stage # "none" => windows'[v].document \in Made'
    <3> SUFFICES ASSUME NEW v \in Panels, windows'[v].stage # "none" PROVE windows'[v].document \in Made' OBVIOUS
    <3>1. CASE v = w BY <1>2, <2>2, <3>1
    <3>2. CASE v # w BY <1>2, <2>2, <3>2 DEF RecordsMade
    <3> QED BY <3>1, <3>2
  <2>7. \A v \in Panels : disk'[v].stage # "none" => disk'[v].document \in Made' BY <1>2, <2>2 DEF RecordsMade
  <2>8. \A d \in Made' : doc'[d].stored <= capability'
    <3>1. Made' = Made BY <2>2 DEF Made
    <3> SUFFICES ASSUME NEW d \in Made PROVE doc'[d].stored <= capability' BY <3>1
    <3>2. doc'[d].stored \in Nat /\ doc'[d].stored <= capability BY <1>2, <1>4, <2>2, <3>1
    <3> QED BY <1>2, <2>5, <3>2
  <2> QED BY <1>3, <2>4, <2>6, <2>7, <2>8 DEF RecordsMade
<1> QED BY <1>1, <1>6, <1>7, <1>8 DEF RecordsMove

\* A record is set, and every document still has records and capabilities of its window only.
LEMMA OwnersChange ==
  ASSUME AuthorityTypeOK, LeaseInv, RecordsMade, OwnersFit, NEW w \in Panels, NEW record, NEW answer,
         RecordChanges(w, record, answer)
  PROVE  OwnersFit'
<1> SUFFICES ASSUME ~muddled' PROVE OwnersFit' BY DEF OwnersFit
<1>1. /\ windows' = [windows EXCEPT ![w] = record] /\ work' = [stage |-> "saving", answer |-> answer]
      /\ UNCHANGED <<panel, document, doc, disk, events, queue, poisoned, muddled>> /\ windows = disk /\ ~poisoned
  BY DEF RecordChanges
<1>2. /\ Made' = Made /\ Live' = Live /\ ~muddled /\ DOMAIN windows = Panels /\ capability \in Nat
      /\ OwnWindow(windows) /\ Live \subseteq Made
  BY <1>1 DEF Made, Live, LeaseInv, RecordsFit, OwnersFit
<1>3. windows'[w] = record /\ \A v \in Panels \ {w} : windows'[v] = windows[v] BY <1>1, <1>2
<1>4. \A v \in Panels : Issued(windows[v]) => windows[v].capability \in 1..capability
  BY DEF LeaseInv, RecordsFit
<1>5. \A d \in Made : doc[d].stored \in Nat /\ doc[d].stored <= capability BY DEF AuthorityTypeOK, RecordsMade
<1>6. record.stage # "none" /\ record.document \in Live => doc[record.document].window = w
  BY <1>2 DEF RecordChanges
<1>7. Issued(record) => record.capability = capability + 1 \/ (Issued(windows[w]) /\ windows[w].capability = record.capability)
  BY DEF RecordChanges
<1>8. Issued(record) => /\ record.capability = answer.capability /\ answer.to = record.document
                        /\ record.document \in Live
  BY DEF RecordChanges
<1>9. answer.to # 0 => Issued(record) BY DEF RecordChanges
\* Documents are recorded for their own window.
<1>10. \A d \in Live, v \in Panels : windows'[v].stage # "none" /\ windows'[v].document = d => doc[d].window = v
  <2> SUFFICES ASSUME NEW d \in Live, NEW v \in Panels, windows'[v].stage # "none", windows'[v].document = d
               PROVE  doc[d].window = v
    OBVIOUS
  <2>1. CASE v = w BY <1>3, <1>6, <2>1
  <2>2. CASE v # w BY <1>2, <1>3, <2>2 DEF OwnWindow
  <2> QED BY <2>1, <2>2
<1>11. \A d \in Made, v \in Panels : Issued(windows'[v]) /\ windows'[v].capability = doc[d].stored => doc[d].window = v
  <2> SUFFICES ASSUME NEW d \in Made, NEW v \in Panels, Issued(windows'[v]), windows'[v].capability = doc[d].stored
               PROVE  doc[d].window = v
    OBVIOUS
  <2>1. CASE v = w
    <3>1. record.capability # capability + 1 BY <1>2, <1>3, <1>5, <2>1
    <3> QED BY <1>2, <1>3, <1>7, <2>1, <3>1 DEF OwnWindow
  <2>2. CASE v # w BY <1>2, <1>3, <2>2 DEF OwnWindow
  <2> QED BY <2>1, <2>2
\* What is being saved is for the window of the one who asked.
<1>12. ASSUME NEW v \in Panels, answer.to # 0,
              \/ Issued(windows'[v]) /\ windows'[v].capability = answer.capability
              \/ Issued(windows[v]) /\ windows[v].capability = answer.capability
       PROVE  doc[answer.to].window = v
  <2>1. Issued(record) /\ record.capability = answer.capability /\ doc[answer.to].window = w
    BY <1>6, <1>8, <1>9, <1>12 DEF Issued
  <2>2. CASE v = w BY <2>1, <2>2
  <2>3. CASE v # w
    <3>1. Issued(windows[v]) /\ windows[v].capability = record.capability BY <1>3, <1>12, <2>1, <2>3
    <3>2. record.capability # capability + 1 BY <1>2, <1>4, <3>1
    <3>3. Issued(windows[w]) /\ windows[w].capability = windows[v].capability BY <1>7, <2>1, <3>1, <3>2
    <3> QED BY <2>3, <3>1, <3>3 DEF LeaseInv, RecordsFit
  <2> QED BY <2>2, <2>3
<1>13. work'.stage = "saving" /\ work'.answer = answer BY <1>1
<1>14. OwnWindow(windows)' BY <1>1, <1>2, <1>10, <1>11, <1>12, <1>13 DEF OwnWindow
<1>15. OwnWindow(disk)'
  <2>1. \A d \in Live, v \in Panels : windows[v].stage # "none" /\ windows[v].document = d => doc[d].window = v
    BY <1>2 DEF OwnWindow
  <2>2. \A d \in Made, v \in Panels : Issued(windows[v]) /\ windows[v].capability = doc[d].stored => doc[d].window = v
    BY <1>2 DEF OwnWindow
  <2> QED BY <1>1, <1>2, <1>12, <1>13, <2>1, <2>2 DEF OwnWindow
\* No live document loses its record.
<1>16. \A d \in Live : Owners(d) \subseteq Owners(d)'
  <2> SUFFICES ASSUME NEW d \in Live, NEW v \in Owners(d) PROVE v \in Owners(d)' OBVIOUS
  <2>1. v \in Panels /\ windows[v].stage # "none" /\ windows[v].document = d BY DEF Owners
  <2>2. CASE v = w
    <3>1. record.stage # "none" /\ record.document = d BY <1>2, <2>2 DEF RecordChanges
    <3> QED BY <1>3, <2>1, <2>2, <3>1 DEF Owners
  <2>3. CASE v # w BY <1>3, <2>1, <2>3 DEF Owners
  <2> QED BY <2>2, <2>3
<1>17. \A e \in events : \A d \in Live : Owners(d)' = {} => doc[d].window = e.window
  BY <1>1, <1>2, <1>16 DEF OwnersFit
<1>18. ASSUME NEW i \in DOMAIN queue, NEW d \in Live, queue[i].op = "revoke", queue[i].window \in Owners(d)'
       PROVE  FALSE
  <2> DEFINE v == queue[i].window
  <2>1. v \in Panels /\ windows'[v].stage # "none" /\ windows'[v].document = d BY <1>18 DEF Owners
  <2>2. v # w BY <1>3, <1>18, <2>1 DEF RecordChanges
  <2>3. v \in Owners(d) BY <1>3, <2>1, <2>2 DEF Owners
  <2> QED BY <1>1, <1>2, <1>18, <2>3 DEF OwnersFit
<1>19. \A i \in DOMAIN queue : \A d \in Live : queue[i].op = "revoke" => queue[i].window \notin Owners(d)' BY <1>18
<1> QED BY <1>1, <1>2, <1>14, <1>15, <1>17, <1>19 DEF OwnersFit

\* Every step keeps documents to their own windows, as long as nothing muddles the contexts.
LEMMA OwnersStep ==
  ASSUME AuthorityTypeOK, AsksFit, LeaseInv, EventsFit, OpeningsFit, RecordsMade, OwnersFit,
         [AuthorityNext]_authorityVars
  PROVE  OwnersFit'
<1>1. CASE (Deletes \/ Binds \/ Prepares \/ Confirms) /\ work'.stage = "saving"
  <2>1. PICK w, record, answer : w \in Panels /\ RecordChanges(w, record, answer) BY <1>1, RecordIsSet
  <2> QED BY <2>1, OwnersChange
<1>2. ASSUME windows' = windows \/ (windows' = disk /\ events' = {} /\ queue' = <<>>), disk' \in {windows, disk},
             work'.stage = "saving" => work' = work, ~muddled'
      PROVE  OwnersFit'
  <2>1. DocumentsMove /\ QueueMoves BY DocumentsStep, QueueStep
  <2>2. /\ \A e \in events' : (\E f \in events : f.window = e.window) \/ (e.window \in Panels /\ PanelOpens(e.window))
        /\ ~muddled /\ (~poisoned' => ~poisoned \/ (events' = {} /\ queue' = <<>>))
    BY <1>2, EventsMove
  <2>3. OwnWindow(windows) /\ OwnWindow(disk) BY <2>2 DEF OwnersFit
  <2>4. \A x \in Live' : x \in Made' /\ (x \in Made => x \in Live) BY <2>1 DEF DocumentsMove, Live, Made
  <2>5. Made \subseteq Made' /\ \A x \in Made : doc'[x].window = doc[x].window BY <2>1 DEF DocumentsMove
  <2>6. ASSUME NEW records \in {windows, disk}
        PROVE  /\ OwnWindow(records) /\ \A v \in Panels : records[v].stage # "none" => records[v].document \in Made
               /\ \A v \in Panels : Issued(records[v]) => records[v].capability # NoCapability
    BY <2>3, <2>6 DEF RecordsMade, LeaseInv, RecordsFit, NoCapability
  <2>7. ASSUME NEW records \in {windows, disk}, NEW d \in Live', NEW v \in Panels,
               records[v].stage # "none", records[v].document = d
        PROVE  doc'[d].window = v
    <3>1. d \in Made BY <2>6, <2>7
    <3> QED BY <2>4, <2>5, <2>6, <2>7, <3>1 DEF OwnWindow
  <2>8. ASSUME NEW records \in {windows, disk}, NEW d \in Made', NEW v \in Panels,
               Issued(records[v]), records[v].capability = doc'[d].stored
        PROVE  doc'[d].window = v
    <3>1. doc'[d].stored # NoCapability BY <2>6, <2>8
    <3>2. CASE d \in Made
      <4>1. CASE doc'[d].stored = doc[d].stored BY <2>5, <2>6, <2>8, <3>2, <4>1 DEF OwnWindow
      <4>2. CASE Saves /\ work.answer.to = d /\ doc'[d].stored = work.answer.capability
        <5>1. d # 0 /\ work.stage = "saving" BY <3>2, <4>2 DEF Made, Documents, Saves
        <5> QED BY <2>5, <2>6, <2>8, <3>2, <4>2, <5>1 DEF OwnWindow
      <4> QED BY <2>1, <3>1, <3>2, <4>1, <4>2 DEF DocumentsMove
    <3>3. CASE d \notin Made
      <4>1. PICK u \in Panels : doc'[d].window = u /\ PanelReloads(u) /\ doc'[d].stored = doc[document[u]].stored
        BY <2>1, <3>1, <3>3 DEF DocumentsMove
      <4>2. document[u] \in Made /\ doc[document[u]].window = u BY <4>1 DEF PanelReloads, AuthorityTypeOK
      <4> QED BY <2>6, <2>8, <4>1, <4>2 DEF OwnWindow
    <3> QED BY <3>2, <3>3
  <2>9. ASSUME NEW records \in {windows, disk}, NEW v \in Panels, work'.stage = "saving", work'.answer.to # 0,
               Issued(records[v]), records[v].capability = work'.answer.capability
        PROVE  doc'[work'.answer.to].window = v
    <3>1. work' = work BY <1>2, <2>9
    <3>2. queue # <<>> /\ IsAsk(Head(queue)) /\ work.answer.to = Head(queue).document BY <2>9, <3>1 DEF AsksFit
    <3>3. work.answer.to \in Made
      <4>1. queue \in Seq(Entries) BY DEF AuthorityTypeOK
      <4>2. 1 \in DOMAIN queue /\ queue[1] = Head(queue) BY <3>2, <4>1, EntryDone
      <4> QED BY <3>2, <4>2 DEF AsksFit
    <3> QED BY <2>5, <2>6, <2>9, <3>1, <3>3 DEF OwnWindow
  <2>10. windows' \in {windows, disk} BY <1>2
  <2>11. OwnWindow(windows)' BY <2>7, <2>8, <2>9, <2>10 DEF OwnWindow
  <2>12. OwnWindow(disk)' BY <1>2, <2>7, <2>8, <2>9 DEF OwnWindow
  \* Openings and documents that have no record.
  <2>13. ASSUME ~poisoned', NEW e \in events', NEW d \in Live', Owners(d)' = {} PROVE doc'[d].window = e.window
    <3>1. windows' = windows /\ ~poisoned BY <1>2, <2>2, <2>13
    <3>2. Owners(d) = {} BY <2>13, <3>1 DEF Owners
    <3>3. ASSUME NEW f \in events, f.window = e.window PROVE doc'[d].window = e.window
      <4>1. CASE d \in Made BY <2>2, <2>4, <2>5, <3>1, <3>2, <3>3, <4>1 DEF OwnersFit
      <4>2. CASE d \notin Made
        <5>1. PICK w \in Panels : doc'[d].window = w /\ (DocumentAppears(w) \/ PanelReloads(w))
          BY <2>1, <2>4, <4>2 DEF DocumentsMove
        <5>2. CASE DocumentAppears(w) BY <1>2, <3>3, <5>1, <5>2 DEF DocumentAppears
        <5>3. CASE PanelReloads(w) BY <1>2, <3>3, <5>3 DEF PanelReloads
        <5> QED BY <5>1, <5>2, <5>3
      <4> QED BY <4>1, <4>2
    <3>4. CASE PanelOpens(e.window)
      <4>1. Made' = Made BY <3>4 DEF PanelOpens, Made
      <4>2. d \in Live BY <2>4, <4>1
      <4> QED BY <1>2, <3>2, <3>4, <4>2 DEF PanelOpens
    <3> QED BY <2>2, <3>3, <3>4
  <2>14. ASSUME ~poisoned', NEW i \in DOMAIN queue', NEW d \in Live', queue'[i].op = "revoke",
                queue'[i].window \in Owners(d)'
         PROVE  FALSE
    <3>1. windows' = windows /\ ~poisoned
      <4>1. queue' # <<>> OBVIOUS
      <4> QED BY <1>2, <2>2, <2>14, <4>1
    <3> DEFINE v == queue'[i].window
    <3>2. v \in Panels /\ windows[v].stage # "none" /\ windows[v].document = d /\ v \in Owners(d)
      BY <2>14, <3>1 DEF Owners
    <3>3. d \in Live /\ d \in Made BY <2>4, <2>6, <3>2
    <3>4. CASE \E j \in DOMAIN queue : queue[j] = queue'[i] BY <2>2, <2>14, <3>1, <3>2, <3>3, <3>4 DEF OwnersFit
    <3>5. CASE PanelOpens(v)
      <4>1. doc[d].window = v BY <2>3, <3>2, <3>3 DEF OwnWindow
      <4> QED BY <3>3, <3>5, <4>1 DEF PanelOpens, Live
    <3> QED BY <2>1, <2>14, <3>4, <3>5 DEF QueueMoves, NewEntry
  <2>15. ~poisoned' =>
           /\ \A e \in events' : \A d \in Live' : Owners(d)' = {} => doc'[d].window = e.window
           /\ \A i \in DOMAIN queue' : \A d \in Live' : queue'[i].op = "revoke" => queue'[i].window \notin Owners(d)'
    BY <2>13, <2>14
  <2> QED BY <2>11, <2>12, <2>15 DEF OwnersFit
<1>3. RecordsMove BY RecordsStep
<1>4. Idle.stage # "saving" BY DEF Idle
<1>5. CASE UNCHANGED <<windows, disk, capability>> /\ (work'.stage = "saving" => work' = work)
  <2>1. ~muddled' => OwnersFit' BY <1>2, <1>5
  <2> QED BY <2>1 DEF OwnersFit
<1>6. CASE /\ disk' = windows' /\ work' = Idle
           /\ windows' = windows \/ (windows' = disk /\ events' = {} /\ queue' = <<>>)
  <2>1. ~muddled' => OwnersFit' BY <1>2, <1>4, <1>6
  <2> QED BY <2>1 DEF OwnersFit
<1> QED BY <1>1, <1>3, <1>5, <1>6 DEF RecordsMove

\* Every step leaves the leases of admitted panels where they are.
LEMMA AdmittedStep ==
  ASSUME AuthorityTypeOK, AsksFit, LeaseInv, EventsFit, OpeningsFit, RecordsMade, OwnersFit, AdmittedFit,
         [AuthorityNext]_authorityVars
  PROVE  AdmittedFit'
<1>1. DocumentsMove /\ RecordsMove BY DocumentsStep, RecordsStep
<1>2. muddled => muddled' BY EventsMove
<1>3. \A x \in Made : doc[x].window \in Panels BY DEF AuthorityTypeOK
<1> SUFFICES ASSUME ~muddled', NEW d \in Live', doc'[d].phase = "admitted"
             PROVE  HoldsLease(windows[doc[d].window], d)' /\ HoldsLease(disk[doc[d].window], d)'
  BY DEF AdmittedFit
<1> DEFINE w == doc[d].window
           Held(r) == r.stage = "active" /\ r.document = d /\ r.capability = doc[d].stored
\* It was live before, and had its lease when it was admitted.
<1>4. d \in Made
  <2>1. d \in Made' BY DEF Live, Made
  <2>2. CASE d \notin Made BY <1>1, <2>1, <2>2 DEF DocumentsMove
  <2> QED BY <2>2
<1>5. d \in Live /\ doc'[d].window = w /\ doc'[d].stored = doc[d].stored /\ w \in Panels
  BY <1>1, <1>3, <1>4 DEF DocumentsMove
<1>6. Held(windows[w]) /\ Held(disk[w])
  <2>1. CASE doc[d].phase = "admitted" BY <1>2, <1>5, <2>1 DEF AdmittedFit, HoldsLease
  <2>2. CASE Admits /\ d = Current.document /\ LeaseCurrent(d)
    <3>1. PICK v \in Panels : windows[v].stage = "active" /\ windows[v].document = d /\ windows[v].capability = doc[d].stored
      BY <2>2 DEF LeaseCurrent
    <3>2. v = w BY <1>2, <1>5, <3>1 DEF OwnersFit, OwnWindow
    <3>3. windows = disk BY <2>2 DEF Admits, Begins, Idle, LeaseInv, OneChanges
    <3> QED BY <3>1, <3>2, <3>3
  <2> QED BY <1>1, <1>4, <2>1, <2>2 DEF DocumentsMove
<1>7. ASSUME Held(windows'[w]), Held(disk'[w])
      PROVE  HoldsLease(windows[doc[d].window], d)' /\ HoldsLease(disk[doc[d].window], d)'
  BY <1>5, <1>7 DEF HoldsLease
<1>8. CASE windows' \in {windows, disk} /\ disk' \in {windows, disk} BY <1>6, <1>7, <1>8
<1>9. CASE (Deletes \/ Binds \/ Prepares \/ Confirms) /\ work'.stage = "saving"
  <2>1. PICK v, record, answer : v \in Panels /\ RecordChanges(v, record, answer) BY <1>9, RecordIsSet
  <2>2. windows' = [windows EXCEPT ![v] = record] /\ disk' = disk BY <2>1 DEF RecordChanges
  <2>3. v # w
    <3>1. w \in Owners(d) /\ windows[w].stage = "active" BY <1>5, <1>6 DEF Owners
    <3> QED BY <1>2, <1>5, <2>1, <3>1 DEF RecordChanges
  <2>4. windows'[w] = windows[w] BY <2>2, <2>3
  <2> QED BY <1>6, <1>7, <2>2, <2>4
<1> QED BY <1>1, <1>8, <1>9 DEF RecordsMove

\* The authority starts with no document and no record.
LEMMA OwnersInit == AuthorityInit => EventsFit /\ OpeningsFit /\ RecordsMade /\ OwnersFit /\ AdmittedFit
<1> SUFFICES ASSUME AuthorityInit PROVE EventsFit /\ OpeningsFit /\ RecordsMade /\ OwnersFit /\ AdmittedFit OBVIOUS
<1>1. DOMAIN queue = {} /\ events = {} /\ work.stage = "idle" BY DEF AuthorityInit, Idle
<1>2. Made = {} /\ Live = {} BY DEF AuthorityInit, Made, Live
<1>3. \A w \in Panels : windows[w].stage = "none" /\ disk[w].stage = "none" BY DEF AuthorityInit, NoRecord
<1>4. EventsFit /\ OpeningsFit BY <1>1 DEF EventsFit, OpeningsFit
<1>5. RecordsMade BY <1>1, <1>2, <1>3 DEF RecordsMade
<1>6. OwnWindow(windows) /\ OwnWindow(disk) BY <1>1, <1>2 DEF OwnWindow
<1> QED BY <1>1, <1>2, <1>4, <1>5, <1>6 DEF OwnersFit, AdmittedFit

\* A panel whose port is admitted has the lease of its own window, as the worker that
\* starts next would read it, through overlapping openings, reloads, failed saves and ends
\* of the worker, unless a document nobody was bound to was there when another opened.
THEOREM AdmittedPanelsHoldLeases == AuthoritySpec => []AdmittedHoldsLease
<1> DEFINE Inv == /\ AuthorityTypeOK /\ AsksFit /\ LeaseInv /\ EventsFit /\ OpeningsFit /\ RecordsMade
                  /\ OwnersFit /\ AdmittedFit
<1>1. AuthorityInit => Inv BY AskInit, LeaseInit, OwnersInit
<1>2. Inv /\ [AuthorityNext]_authorityVars => Inv'
  BY AskStep, LeaseStep, EventsStep, OpeningsStep, RecordsMadeStep, OwnersStep, AdmittedStep
<1>3. Inv => AdmittedHoldsLease
  <2> SUFFICES ASSUME AdmittedFit PROVE AdmittedHoldsLease OBVIOUS
  <2> QED BY DEF AdmittedFit, AdmittedHoldsLease, HoldsLease, Holder
<1> HIDE DEF Inv
<1> QED BY <1>1, <1>2, <1>3, PTL DEF AuthoritySpec
=============================================================================
