------------------------- MODULE SidepanelAuthority -------------------------
(***************************************************************************)
(* SidepanelWindowAuthority (extension/src/agent/sidepanel-window-authority.ts), *)
(* the start of the sidepanel documents that ask it for a lease              *)
(* (sidepanel.ts, sidepanel-context-identity.ts), and the admission of their    *)
(* ports (agent-runtime-coordinator.ts).                                     *)
(*                                                                         *)
(* A capability (token, transaction and lease) is a number, and so is a       *)
(* document, with its context, its id and its nonce.  Operations of the authority *)
(* run one after the other; between the contexts an operation reads and those it *)
(* checks again, and between a change and its save, documents come and go,       *)
(* panels open and the worker may end.                                       *)
(***************************************************************************)
EXTENDS Naturals, Sequences, FiniteSets, SequencesExt, FiniteSetsExt

CONSTANTS
  Panels,        \* browser windows, each with room for one side panel
  Named,         \* whether Chrome tells the window of a context, or says -1
  MaxDocuments,  \* bound: documents loaded
  MaxPanelUpsets      \* bound: panels opened, ends of the worker and failed saves

ASSUME AuthorityAssumption ==
  Named \in BOOLEAN /\ {MaxDocuments, MaxPanelUpsets} \subseteq Nat

Documents == 1..MaxDocuments
NoCapability == 0
Opened == NoCapability    \* the proof of a panel that was just opened: none
NoRecord == [stage |-> "none"]
Idle == [stage |-> "idle"]

VARIABLES
  panel,      \* of each window: "closed", "opening" (no document yet), "open" or "removed"
  document,   \* of each window, the last document of its panel, 0 if there was none
  doc,        \* of each document: its window, what it does, its capability (sessionStorage)
  windows,    \* the records of the authority, in memory
  disk,       \* and in chrome.storage.session
  pendingCreatedThisWorker,
  events,     \* onOpened events under way: number, window, and what comes next
  tainted,    \* openedEventOverlapTainted
  queue,      \* operations, the first of which runs
  work,       \* how far it is: idle, the contexts it has seen, or what it answers once saved
  capability, \* capabilities issued so far
  poisoned,
  openings, panics,
  refused,    \* history: windows whose opening was not bound, or whose answer was lost
  muddled,    \* history: a document nobody was bound to was there when another panel opened
  granted     \* history: capabilities that were active on disk

panelVars  == <<panel, document, doc, openings>>
recordVars == <<windows, disk, pendingCreatedThisWorker, capability, granted>>
workerVars == <<events, tainted, queue, work, poisoned, panics>>
authorityVars == <<panelVars, recordVars, workerVars, refused, muddled>>

AuthorityInit ==
  /\ panel = [w \in Panels |-> "closed"] /\ document = [w \in Panels |-> 0]
  /\ doc = [d \in Documents |-> [phase |-> "none"]]
  /\ windows = [w \in Panels |-> NoRecord] /\ disk = [w \in Panels |-> NoRecord]
  /\ pendingCreatedThisWorker = {} /\ events = {} /\ tainted = FALSE
  /\ queue = <<>> /\ work = Idle /\ capability = 0 /\ poisoned = FALSE
  /\ openings = 0 /\ panics = 0 /\ refused = {} /\ muddled = FALSE /\ granted = {}

Live == {d \in Documents : doc[d].phase # "none" /\ panel[doc[d].window] = "open"
                           /\ document[doc[d].window] = d}
Owners(d) == {w \in Panels : windows[w].stage # "none" /\ windows[w].document = d}
IsWindowOpening(w) == \E e \in events : e.window = w

-----------------------------------------------------------------------------
(* Panels and their documents *)

\* The bound leaves a document for every panel that has none yet.
Spare == Cardinality({d \in Documents : doc[d].phase = "none"})
           > Cardinality({w \in Panels : panel[w] = "opening"})

\* onOpened: a panel opens; its document comes later.
PanelOpens(w) ==
  /\ panel[w] = "closed" /\ openings + panics < MaxPanelUpsets /\ Spare
  /\ openings' = openings + 1
  /\ panel' = [panel EXCEPT ![w] = "opening"]
  /\ events' = events \cup {[id |-> openings, window |-> w, next |-> "settle"]}
  /\ tainted' = (tainted \/ events # {})
  /\ queue' = Append(queue, [op |-> "revoke", window |-> w, event |-> openings])
  /\ refused' = refused \ {w}
  /\ muddled' = (muddled \/ \E d \in Live : Owners(d) = {})
  /\ UNCHANGED <<document, doc, recordVars, work, poisoned, panics>>

Loads(w, stored) ==
  \E d \in Documents :
    /\ doc[d].phase = "none" /\ \A k \in 1..(d - 1) : doc[k].phase # "none"
    /\ doc' = [doc EXCEPT ![d] = [window |-> w, phase |-> "prepare", stored |-> stored]]
    /\ document' = [document EXCEPT ![w] = d]

DocumentAppears(w) ==
  /\ panel[w] = "opening"
  /\ Loads(w, NoCapability)
  /\ panel' = [panel EXCEPT ![w] = "open"]
  /\ muddled' = (muddled \/ \E e \in events : e.window # w)
  /\ UNCHANGED <<openings, recordVars, workerVars, refused>>

\* sessionStorage outlives a reload.  A panel that reloads before it holds the capability
\* of its record (its prepare was not made or not answered) cannot prove where it is from.
Succeeds(w) ==
  windows[w].stage \in {"pending", "active"} /\ windows[w].capability = doc[document[w]].stored
PanelReloads(w) ==
  /\ panel[w] = "open" /\ Spare
  /\ Loads(w, doc[document[w]].stored)
  /\ refused' = IF Succeeds(w) THEN refused ELSE refused \cup {w}
  /\ muddled' = (muddled \/ events # {})
  /\ UNCHANGED <<panel, openings, recordVars, workerVars>>

PanelCloses(w) ==
  /\ panel[w] \in {"opening", "open"}
  /\ panel' = [panel EXCEPT ![w] = "closed"]
  /\ UNCHANGED <<document, doc, openings, recordVars, workerVars, refused, muddled>>

\* windows.onRemoved: of a window that has had no panel there is nothing to release.
WindowRemoved(w) ==
  /\ panel[w] \in {"opening", "open"} \/ windows[w] # NoRecord
  /\ panel[w] # "removed"
  /\ panel' = [panel EXCEPT ![w] = "removed"]
  /\ queue' = Append(queue, [op |-> "release", window |-> w])
  /\ UNCHANGED <<document, doc, openings, recordVars, events, tainted, work, poisoned, panics, refused, muddled>>

\* initApp: prepare with what sessionStorage holds, confirm, connect the port.
Asks == [prepare |-> "preparing", confirm |-> "confirming", admit |-> "admitting"]
DocumentAsks(d) ==
  /\ d \in Live /\ doc[d].phase \in DOMAIN Asks
  /\ doc' = [doc EXCEPT ![d].phase = Asks[doc[d].phase]]
  /\ queue' = Append(queue, [op |-> doc[d].phase, document |-> d, proof |-> doc[d].stored])
  /\ UNCHANGED <<panel, document, openings, recordVars, events, tainted, work, poisoned, panics, refused, muddled>>

\* After its last attempt a document drops the capability that was refused.
ProofDropped(d) ==
  /\ d \in Live /\ doc[d].phase = "refused"
  /\ doc' = [doc EXCEPT ![d].phase = "prepare", ![d].stored = NoCapability]
  /\ UNCHANGED <<panel, document, openings, recordVars, workerVars, refused, muddled>>

-----------------------------------------------------------------------------
(* The operations of the authority *)

Current == Head(queue)
Begins(op) == queue # <<>> /\ Current.op = op /\ ~poisoned
Done(others) == queue' = Tail(queue) \o others /\ work' = Idle

\* What a document does with an answer; one that is gone does nothing.
Accepts(d, phase, c) == doc' = [doc EXCEPT ![d].phase = phase, ![d].stored = c]
Rejects(d) ==
  doc' = [doc EXCEPT ![d].phase =
    CASE doc[d].phase = "preparing" -> IF doc[d].stored = NoCapability THEN "prepare" ELSE "refused"
      [] doc[d].phase = "confirming" -> "confirm"
      [] OTHER -> "admit"]

\* liveSnapshot
SeesContexts ==
  /\ \/ Begins("prepare") \/ Begins("confirm") \/ Begins("bind")
  /\ work = Idle
  /\ work' = [stage |-> "seen", contexts |-> Live]
  /\ UNCHANGED <<panelVars, recordVars, events, tainted, queue, poisoned, panics, refused, muddled>>

\* A record is set or deleted, then saved.
Sets(w, record, created, answer) ==
  /\ windows' = [windows EXCEPT ![w] = record]
  /\ pendingCreatedThisWorker' = IF created THEN pendingCreatedThisWorker \cup {w}
                                 ELSE pendingCreatedThisWorker \ {w}
  /\ work' = [stage |-> "saving", answer |-> answer]

\* The capabilities that count in some records.
ActiveIn(records) == {records[w].capability : w \in {w \in Panels : records[w].stage = "active"}}

\* saveOrPoison, and the answer.
Saves ==
  /\ work.stage = "saving"
  /\ disk' = windows
  /\ granted' = granted \cup ActiveIn(windows)
  /\ LET a == work.answer IN
     IF a.to # 0 THEN Accepts(a.to, a.phase, a.capability) ELSE UNCHANGED doc
  /\ events' = IF work.answer.bound THEN events \ {e \in events : e.id = Current.event} ELSE events
  /\ tainted' = (tainted /\ events' # {})
  /\ Done(<<>>)
  /\ UNCHANGED <<panel, document, openings, windows, pendingCreatedThisWorker, capability, poisoned,
                 panics, refused, muddled>>

NoAnswer == [to |-> 0, bound |-> FALSE]
Answer(d, phase, c) == [to |-> d, phase |-> phase, capability |-> c, bound |-> FALSE]

\* observeOpened, first part, and releaseWindow: the record of the window goes.
Deletes ==
  LET w == Current.window IN
  /\ Begins("revoke") \/ Begins("release")
  /\ work = Idle
  /\ IF windows[w] = NoRecord
     THEN Done(<<>>) /\ UNCHANGED <<windows, pendingCreatedThisWorker>>
     ELSE Sets(w, NoRecord, FALSE, NoAnswer) /\ UNCHANGED queue
  /\ UNCHANGED <<panelVars, disk, capability, granted, events, tainted, poisoned, panics, refused, muddled>>

\* The settling delay is over, and the revocation was done before.
Settles ==
  \E e \in events :
    /\ e.next = "settle"
    /\ \A k \in 1..Len(queue) : queue[k].op = "revoke" => queue[k].event # e.id
    /\ events' = (events \ {e}) \cup {[e EXCEPT !.next = "bind"]}
    /\ queue' = Append(queue, [op |-> "bind", window |-> e.window, event |-> e.id])
    /\ UNCHANGED <<panelVars, recordVars, tainted, work, poisoned, panics, refused, muddled>>

\* The documents a record names.
Identities(r) ==
  IF r.stage = "none" THEN {} ELSE {r.document} \cup (IF r.stage = "pending" THEN {r.predecessor} ELSE {})
InWindow(d, w) == Named => doc[d].window = w

\* observeOpened, second part: the one context that can be of this opening is bound;
\* an overlap or an ambiguity is refused, and a context that is not there yet is
\* looked for again, unless the panel is gone.
Binds ==
  LET w == Current.window
      candidates == {d \in work.contexts : InWindow(d, w) /\ Owners(d) \subseteq {w}}
      comes == panel[w] = "opening" \/ \E d \in Live : doc[d].window = w
      refuses == \/ tainted \/ Cardinality(events) # 1 \/ Cardinality(candidates) > 1
                 \/ candidates = {} /\ ~comes
  IN
  /\ Begins("bind") /\ work.stage = "seen"
  /\ IF refuses
     THEN /\ events' = {e \in events : e.id # Current.event}
          /\ tainted' = (tainted /\ events' # {})
          /\ refused' = refused \cup {w}
          /\ Done(<<>>)
          /\ UNCHANGED <<windows, pendingCreatedThisWorker>>
     ELSE /\ IF candidates = {}
             THEN work' = Idle /\ UNCHANGED <<windows, pendingCreatedThisWorker>>
             ELSE \E d \in candidates :
                    Sets(w, [stage |-> "opened", document |-> d], FALSE, [to |-> 0, bound |-> TRUE])
          /\ UNCHANGED <<events, tainted, refused, queue>>
  /\ UNCHANGED <<panelVars, disk, capability, granted, poisoned, panics, muddled>>

\* revalidateCandidate
Revalidated(w, d, predecessor) ==
  /\ ~IsWindowOpening(w)
  /\ d \in Live /\ InWindow(d, w)
  /\ \A v \in Panels \ {w} : d \notin Identities(windows[v])
  /\ predecessor \notin Live

\* Mutant: a document that proves where it is from keeps its capability.
PendingKeepsProof(w, proof, predecessor, d) ==
  [stage |-> "pending", document |-> d, proof |-> proof, predecessor |-> predecessor,
   capability |-> IF proof = NoCapability THEN capability + 1 ELSE proof]

\* persistPending
Pending(w, proof, predecessor, d) ==
  [stage |-> "pending", document |-> d, proof |-> proof, predecessor |-> predecessor,
   capability |-> capability + 1]

\* The proof that a document is from a window: the capability of the window's record.
Proves(w, proof) == proof # NoCapability /\ windows[w].capability = proof

\* Mutant: only a document with a capability may ask again.
AgainProved(w, proof) == w \notin pendingCreatedThisWorker /\ Proves(w, proof)

\* The same request, of which the worker that pended it did not answer.
Again(w, proof) == w \notin pendingCreatedThisWorker /\ windows[w].proof = proof

\* The transitions prepareWindow allows a document, with the predecessor that must
\* have gone: from the opening, from its proof of the active or the pending record, or
\* again, when the worker that issued the pending one is not this one.
Successions(d, proof, contexts) ==
  {[window |-> w, record |-> Pending(w, Opened, 0, d), gone |-> 0] :
    w \in {w \in Owners(d) : windows[w].stage = "opened" /\ proof = NoCapability}}
  \cup
  {[window |-> w, record |-> Pending(w, proof, windows[w].document, d), gone |-> windows[w].document] :
    w \in {w \in Panels : /\ windows[w].stage \in {"active", "pending"}
                          /\ Proves(w, proof)
                          /\ windows[w].document \notin contexts /\ Owners(d) \subseteq {w}}}
  \cup
  {[window |-> w, record |-> Pending(w, windows[w].proof, windows[w].predecessor, d), gone |-> 0] :
    w \in {w \in Panels : windows[w].stage = "pending" /\ windows[w].document = d /\ Again(w, proof)}}

\* prepareWindow
Prepares ==
  LET d == Current.document
      proof == Current.proof
      allowed == {s \in Successions(d, proof, work.contexts) :
                    ~IsWindowOpening(s.window) /\ InWindow(d, s.window)}
      repeated == {w \in Panels : /\ windows[w].stage = "pending" /\ windows[w].document = d
                                  /\ proof # NoCapability /\ windows[w].capability = proof
                                  /\ ~IsWindowOpening(w) /\ InWindow(d, w)}
  IN
  /\ Begins("prepare") /\ work.stage = "seen"
  /\ IF d \in work.contexts /\ repeated # {}
     THEN /\ pendingCreatedThisWorker' = pendingCreatedThisWorker \cup repeated
          /\ Accepts(d, "confirm", proof) /\ Done(<<>>)
          /\ UNCHANGED <<windows, capability>>
     ELSE IF d \in work.contexts /\ \E s \in allowed : Revalidated(s.window, d, s.gone)
     THEN /\ \E s \in allowed :
               /\ Revalidated(s.window, d, s.gone)
               /\ Sets(s.window, s.record, TRUE, Answer(d, "confirm", s.record.capability))
          /\ capability' = capability + 1
          /\ UNCHANGED <<doc, queue>>
     ELSE Rejects(d) /\ Done(<<>>) /\ UNCHANGED <<windows, pendingCreatedThisWorker, capability>>
  /\ UNCHANGED <<panel, document, openings, disk, granted, events, tainted, poisoned, panics, refused, muddled>>

\* confirmWindow: the record's capability, from its document.
Confirms ==
  LET d == Current.document
      w == CHOOSE v \in Panels : \A u \in Owners(d) : v \in Owners(d)
      r == windows[w]
      confirmed == /\ d \in work.contexts /\ Owners(d) # {} /\ r.stage \in {"pending", "active"}
                   /\ r.capability = Current.proof /\ Revalidated(w, d, 0)
  IN
  /\ Begins("confirm") /\ work.stage = "seen"
  /\ IF confirmed /\ r.stage = "pending"
     THEN /\ Sets(w, [stage |-> "active", document |-> d, capability |-> r.capability], FALSE,
                  Answer(d, "admit", r.capability))
          /\ UNCHANGED <<doc, queue>>
     ELSE /\ IF confirmed THEN Accepts(d, "admit", r.capability) ELSE Rejects(d)
          /\ Done(<<>>)
          /\ UNCHANGED <<windows, pendingCreatedThisWorker>>
  /\ UNCHANGED <<panel, document, openings, disk, capability, granted, events, tainted, poisoned, panics,
                 refused, muddled>>

\* resolveActiveLease, isLeaseCurrent: a port is admitted while its lease counts.
LeaseCurrent(d) ==
  \E w \in Panels : /\ windows[w].stage = "active" /\ windows[w].document = d
                    /\ windows[w].capability = doc[d].stored /\ Revalidated(w, d, 0)
Admits ==
  LET d == Current.document IN
  /\ Begins("admit") /\ work = Idle
  /\ IF LeaseCurrent(d) THEN doc' = [doc EXCEPT ![d].phase = "admitted"] ELSE Rejects(d)
  /\ Done(<<>>)
  /\ UNCHANGED <<panel, document, openings, recordVars, events, tainted, poisoned, panics, refused, muddled>>

-----------------------------------------------------------------------------
(* Failures *)

\* A save fails: the authority is of no use until the worker starts anew.
SaveFails ==
  /\ work.stage = "saving" /\ openings + panics < MaxPanelUpsets
  /\ panics' = panics + 1 /\ poisoned' = TRUE /\ work' = Idle
  /\ refused' = Panels
  /\ UNCHANGED <<panelVars, recordVars, events, tainted, queue, muddled>>

Throws ==
  /\ poisoned /\ queue # <<>>
  /\ IF Current.op \in DOMAIN Asks THEN Rejects(Current.document) ELSE UNCHANGED doc
  /\ events' = IF Current.op \in {"revoke", "bind"} THEN {e \in events : e.id # Current.event} ELSE events
  /\ tainted' = (tainted /\ events' # {})
  /\ Done(<<>>)
  /\ UNCHANGED <<panel, document, openings, recordVars, poisoned, panics, refused, muddled>>

\* The worker ends, and another reads what was saved: a save under way was done or not.
\* Requests in flight fail and are made again; an opening being observed is forgotten.
Written == IF work.stage = "saving" THEN {disk, windows} ELSE {disk}
WorkerEnds ==
  /\ openings + panics < MaxPanelUpsets \/ poisoned
  /\ panics' = IF poisoned THEN panics ELSE panics + 1
  /\ \E written \in Written :
       windows' = written /\ disk' = written /\ granted' = granted \cup ActiveIn(written)
  /\ pendingCreatedThisWorker' = {}
  /\ events' = {} /\ tainted' = FALSE /\ queue' = <<>> /\ work' = Idle /\ poisoned' = FALSE
  /\ doc' = [d \in Documents |->
       CASE doc[d].phase = "preparing" -> [doc[d] EXCEPT !.phase = "prepare"]
         [] doc[d].phase = "confirming" -> [doc[d] EXCEPT !.phase = "confirm"]
         [] doc[d].phase \in {"admitting", "admitted"} -> [doc[d] EXCEPT !.phase = "admit"]
         [] OTHER -> doc[d]]
  /\ refused' = refused \cup {e.window : e \in events}
  /\ UNCHANGED <<panel, document, openings, capability, muddled>>

-----------------------------------------------------------------------------

\* Of the steps of the worker there is one at most, but for the end of a settling delay.
Works == SeesContexts \/ Deletes \/ Binds \/ Prepares \/ Confirms \/ Admits \/ Saves \/ Throws
DocumentSteps(d) == DocumentAsks(d) \/ ProofDropped(d)

AuthorityNext ==
  \/ Works \/ Settles
  \/ \E w \in Panels : DocumentAppears(w) \/ PanelOpens(w) \/ PanelReloads(w) \/ PanelCloses(w) \/ WindowRemoved(w)
  \/ \E d \in Documents : DocumentSteps(d)
  \/ SaveFails \/ WorkerEnds

AuthoritySpec == AuthorityInit /\ [][AuthorityNext]_authorityVars
\* Promises and timers of the worker come to pass, contexts appear, documents go on.
AuthorityFairness ==
  /\ WF_authorityVars(Works) /\ WF_authorityVars(Settles)
  /\ \A w \in Panels : WF_authorityVars(DocumentAppears(w))
  /\ \A d \in Documents : WF_authorityVars(DocumentSteps(d))

-----------------------------------------------------------------------------
(* Properties *)

\* The lease that counts: what a worker that starts now would read.
Holder(w) ==
  IF disk[w].stage = "active" THEN [lease |-> disk[w].capability, document |-> disk[w].document]
  ELSE [lease |-> NoCapability, document |-> 0]

Register == INSTANCE LeaseRegister WITH
  RegisterWindows <- Panels, RegisterDocuments <- Documents, NoLease <- NoCapability,
  Leases <- Nat,
  holder <- [w \in Panels |-> Holder(w)]

\* Through reloads, reopenings, ends of the worker and failed saves, a lease counts once,
\* for one window and one document.
LeasesCountOnce == Register!RegisterSpec

\* A panel gets its port admitted, or goes, unless its opening could not be bound or
\* the answer that carried its capability was lost.
PanelAdmitted ==
  \A d \in Documents :
    (d \in Live) ~> \/ d \notin Live \/ doc[d].phase = "admitted"
                    \/ doc[d].window \in refused \/ muddled

\* What a panel has asked and was not answered is in the queue of the authority, once.
AskedIsQueued ==
  \A d \in Documents : doc[d].phase \in {Asks[op] : op \in DOMAIN Asks} =>
    \E i \in DOMAIN queue :
      /\ queue[i].op \in DOMAIN Asks /\ Asks[queue[i].op] = doc[d].phase /\ queue[i].document = d
      /\ \A j \in DOMAIN queue \ {i} : queue[j].op \in DOMAIN Asks => queue[j].document # d

\* A panel whose port is admitted has the lease of its own window, as a worker that starts
\* now would read it; so of two panels that are admitted each has its own.
AdmittedHoldsLease ==
  ~muddled =>
    \A d \in Live : doc[d].phase = "admitted" =>
      Holder(doc[d].window) = [lease |-> doc[d].stored, document |-> d]
=============================================================================
