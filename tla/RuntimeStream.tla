---------------------------- MODULE RuntimeStream ----------------------------
(***************************************************************************)
(* What one agent session announces and what a side panel makes of it.      *)
(*                                                                         *)
(* The host (packages/extension/src/agent/offscreen-runtime-host.ts) turns   *)
(* the life of a session into a numbered stream of envelopes: messages the   *)
(* agent announces, execution states, and snapshots.  The panel reduces what *)
(* reaches it with RuntimeChannel and keeps a transcript                    *)
(* (agent/remote-session-client.ts, RemoteAgentState).                      *)
(*                                                                         *)
(* Between the two there is no route here but the weakest one: any envelope  *)
(* ever sent may reach the panel at any time, any number of times, in any    *)
(* order, or never.  SessionRoute models the real route.                    *)
(*                                                                         *)
(* A transcript is the number of its messages: messages are only appended.   *)
(***************************************************************************)
EXTENDS RuntimeChannel, Sequences, FiniteSets

CONSTANTS
  MaxEpoch,        \* bound: offscreen documents started
  MaxStream,       \* bound: envelopes of one session in one epoch
  MaxHellos,       \* bound: different hellos sent
  MaxMutations     \* bound: mutations that hold the tail across an await

ASSUME EpochAssumption == MaxEpoch \in Nat \ {0}
ASSUME StreamAssumption == MaxStream \in Nat
ASSUME HelloAssumption == MaxHellos \in Nat
ASSUME MutationAssumption == MaxMutations \in Nat

VARIABLES
  \* the host
  epoch,       \* runtimeEpoch of the offscreen document
  live,        \* the session is in host.sessions
  rev,         \* its revision
  transcript,  \* messages of its adapter's state
  held,        \* a mutation holds the session's mutationTail across an await
  queued,      \* announced messages whose emission waits behind the tail
  mutations,   \* mutations begun so far
  checkpoint,  \* the session in the last checkpoint: [live, rev, transcript]
  \* every envelope sent
  sent,        \* per epoch, the stream of the session; the position is eventSeq
  hellos,      \* the hellos sent
  \* the panel
  channel,     \* channelState
  view         \* messages of RemoteAgentState

hostVars  == <<epoch, live, rev, transcript, held, queued, mutations, checkpoint>>
panelVars == <<channel, view>>
vars == <<epoch, live, rev, transcript, held, queued, mutations, checkpoint,
          sent, hellos, channel, view>>

Epochs == 1..MaxEpoch
Types == {"message", "execution", "snapshot"}

\* `replay` is not sent: it is the transcript of a panel that applied the
\* whole stream up to here.
Entry(type, revision, messages, replay) ==
  [type |-> type, rev |-> revision, body |-> messages, replay |-> replay]

Seq0 == Len(sent[epoch])
Replayed == IF Seq0 = 0 THEN 0 ELSE sent[epoch][Seq0].replay
Room(n) == Seq0 + n <= MaxStream
TailFree == ~held /\ queued = 0

Snapshot(revision, messages) == Entry("snapshot", revision, messages, messages)
Message(revision) == Entry("message", revision, 0, Replayed + 1)
\* The body of an execution's envelope: 1 while it is not over.
Execution(revision, running) == Entry("execution", revision, running, Replayed)

\* emitSession: the next eventSeq, the current revision.
Emit(entry) == Room(1) /\ sent' = [sent EXCEPT ![epoch] = Append(@, entry)]

AsEnvelope(entry, ep, n) == Stream(entry.type, ep, entry.rev, n, entry.body)
Envelope(ep, n) == AsEnvelope(sent[ep][n], ep, n)
Cursor == IF live THEN Hello(epoch, TRUE, rev, Seq0) ELSE Hello(epoch, FALSE, 0, 0)

Init ==
  /\ epoch = 1
  /\ live = FALSE /\ rev = 0 /\ transcript = 0
  /\ held = FALSE /\ queued = 0 /\ mutations = 0
  /\ checkpoint = [live |-> FALSE, rev |-> 0, transcript |-> 0]
  /\ sent = [ep \in Epochs |-> <<>>]
  /\ hellos = {}
  /\ channel = NewChannel
  /\ view = 0

-----------------------------------------------------------------------------
(* The host *)

\* create (revision 1) or load (revision 0, whatever the durable transcript
\* had reached), and the snapshot both announce.
Open(revision) ==
  /\ ~live
  /\ live' = TRUE
  /\ rev' = revision
  /\ Emit(Snapshot(revision, transcript))
  /\ UNCHANGED <<epoch, transcript, held, queued, mutations, checkpoint, hellos, panelVars>>

\* emitHello: with the session's cursor when the host has the session.
EmitHello ==
  /\ Cardinality(hellos) < MaxHellos
  /\ hellos' = hellos \cup {Cursor}
  /\ UNCHANGED <<hostVars, sent, panelVars>>

\* The agent appends a message to its state and announces it.  onAgentEvent
\* emits in a mutation of its own: at once when the tail is free, behind the
\* tail otherwise.
Announce ==
  /\ live
  /\ transcript' = transcript + 1
  /\ \/ /\ TailFree
        /\ rev' = rev + 1
        /\ Emit(Message(rev + 1))
        /\ UNCHANGED queued
     \/ /\ ~TailFree /\ queued + Seq0 < MaxStream
        /\ queued' = queued + 1
        /\ UNCHANGED <<rev, sent>>
  /\ UNCHANGED <<epoch, live, held, mutations, checkpoint, hellos, panelVars>>

EmitQueued ==
  /\ ~held /\ queued > 0
  /\ queued' = queued - 1
  /\ rev' = rev + 1
  /\ Emit(Message(rev + 1))
  /\ UNCHANGED <<epoch, live, transcript, held, mutations, checkpoint, hellos, panelVars>>

\* set-model, set-thinking, steer, replace-or-append-message: the tail is held
\* while the adapter is awaited.
BeginMutation ==
  /\ live /\ TailFree /\ mutations < MaxMutations
  /\ held' = TRUE
  /\ mutations' = mutations + 1
  /\ UNCHANGED <<epoch, live, rev, transcript, queued, checkpoint, sent, hellos, panelVars>>

\* The adapter is done, with a message appended or not: the revision rises and
\* a snapshot goes out.
FinishMutation(appended) ==
  /\ held
  /\ held' = FALSE
  /\ transcript' = transcript + appended
  /\ rev' = rev + 1
  /\ Emit(Snapshot(rev + 1, transcript + appended))
  /\ UNCHANGED <<epoch, live, queued, mutations, checkpoint, hellos, panelVars>>

FailMutation ==
  /\ held
  /\ held' = FALSE
  /\ UNCHANGED <<epoch, live, rev, transcript, queued, mutations, checkpoint, sent, hellos, panelVars>>

\* attach, resync and the load of a live session answer behind the tail.
SendSnapshot ==
  /\ live /\ TailFree
  /\ Emit(Snapshot(rev, transcript))
  /\ UNCHANGED <<hostVars, hellos, panelVars>>

\* A prompt, repl or page operation starts or is asked to stop; or it has ended
\* before it started.
AnnounceExecution(running) ==
  /\ live
  /\ Emit(Execution(rev, running))
  /\ UNCHANGED <<hostVars, hellos, panelVars>>

\* Mutant: the snapshot shows the session of the last checkpoint.
EndExecutionAsSaved(raised) ==
  /\ live /\ Room(2)
  /\ raised = 1 => TailFree
  /\ rev' = rev + raised
  /\ sent' = [sent EXCEPT ![epoch] =
                @ \o <<Execution(rev + raised, 0), Snapshot(rev + raised, checkpoint.transcript)>>]
  /\ UNCHANGED <<epoch, live, transcript, held, queued, mutations, checkpoint, hellos, panelVars>>

\* It ends: its execution and a snapshot.  A prompt that succeeded, or one
\* that a restore found unfinished, raises the revision; the first waits for
\* the tail, a failure does not.
EndExecution(raised) ==
  /\ live /\ Room(2)
  /\ raised = 1 => TailFree
  /\ rev' = rev + raised
  /\ sent' = [sent EXCEPT ![epoch] =
                @ \o <<Execution(rev + raised, 0), Snapshot(rev + raised, transcript)>>]
  /\ UNCHANGED <<epoch, live, transcript, held, queued, mutations, checkpoint, hellos, panelVars>>

\* exportState refuses while a mutation is pending.  (The checkpoint of the
\* last epoch the bound allows is never read.)
Checkpoint ==
  /\ TailFree /\ epoch < MaxEpoch
  /\ checkpoint' = [live |-> live, rev |-> rev, transcript |-> transcript]
  /\ UNCHANGED <<epoch, live, rev, transcript, held, queued, mutations, sent, hellos, panelVars>>

\* The offscreen document is replaced: its host restores the last checkpoint,
\* with a stream that starts again, before it says hello.
Restart ==
  /\ epoch < MaxEpoch
  /\ epoch' = epoch + 1
  /\ held' = FALSE /\ queued' = 0
  /\ live' = checkpoint.live
  /\ rev' = checkpoint.rev
  /\ transcript' = IF checkpoint.live THEN checkpoint.transcript ELSE transcript
  /\ UNCHANGED <<mutations, checkpoint, sent, hellos, panelVars>>

-----------------------------------------------------------------------------
(* The panel *)

ReceiveHello(hello) ==
  /\ channel' = ReduceHello(channel, hello)
  /\ UNCHANGED <<hostVars, sent, hellos, view>>

\* RemoteSessionClient.receive with RemoteAgentState: a snapshot replaces the
\* transcript, an applied message is appended to it.
Receive(e) ==
  LET reduction == ReduceSessionStream(channel, e) IN
  /\ channel' = [channel EXCEPT !.sess = reduction.sess]
  /\ view' = IF reduction.effect \in {"snapshot-applied", "resynced"} THEN e.body
             ELSE IF reduction.effect = "event-applied" /\ e.type = "message" THEN view + 1
             ELSE view
  /\ UNCHANGED <<hostVars, sent, hellos>>

\* The panel is closed and opened again: a new client.
Reopen ==
  /\ channel' = NewChannel
  /\ view' = 0
  /\ UNCHANGED <<hostVars, sent, hellos>>

HostNext ==
  \/ \E revision \in {0, 1} : Open(revision)
  \/ EmitHello \/ Announce \/ EmitQueued
  \/ BeginMutation \/ FailMutation
  \/ \E appended \in {0, 1} : FinishMutation(appended)
  \/ SendSnapshot
  \/ \E running \in {0, 1} : AnnounceExecution(running)
  \/ \E raised \in {0, 1} : EndExecution(raised)
  \/ Checkpoint \/ Restart

PanelNext ==
  \/ \E hello \in hellos : ReceiveHello(hello)
  \/ \E ep \in Epochs : \E n \in DOMAIN sent[ep] : Receive(Envelope(ep, n))
  \/ Reopen

Next == HostNext \/ PanelNext

Spec == Init /\ [][Next]_vars

-----------------------------------------------------------------------------
(* Properties *)

SessionType == [known : BOOLEAN, rev : Nat, seq : Nat, stale : BOOLEAN,
                print : {NoPrint} \cup (Types \X Epochs \X Nat \X Nat \X Nat)]
EntryType == [type : Types, rev : Nat, body : Nat, replay : Nat]
HelloType == [type : {"hello"}, epoch : Epochs, present : BOOLEAN, rev : Nat, seq : Nat, body : {0}]

\* Types of all the variables, ghosts included.
TypeOK ==
  /\ epoch \in Epochs
  /\ live \in BOOLEAN /\ rev \in Nat /\ transcript \in Nat
  /\ held \in BOOLEAN /\ queued \in Nat /\ mutations \in Nat
  /\ checkpoint \in [live : BOOLEAN, rev : Nat, transcript : Nat]
  /\ sent \in [Epochs -> Seq(EntryType)]
  /\ hellos \in SUBSET HelloType
  /\ channel \in [epoch : Epochs \cup {NoEpoch}, sess : SessionType]
  /\ view \in Nat

\* However the stream is lost, repeated or reordered on its way, a panel that
\* is not waiting for a resync stands exactly at one position of the stream of
\* its epoch, with the revision of that position and the transcript of a panel
\* that missed nothing.  (reduceSessionStream: gaps, stale and repeated
\* envelopes; reduceHello: the cursor comparison and the reset of a new epoch.)
ViewFollowsStream ==
  LET s == channel.sess IN
  s.known /\ ~s.stale =>
    /\ s.seq \in DOMAIN sent[channel.epoch]
    /\ s.rev = sent[channel.epoch][s.seq].rev
    /\ view = sent[channel.epoch][s.seq].replay

\* A panel never goes back to an older revision of its session, not even when
\* the offscreen document is replaced by one that knows less: it resyncs
\* instead (the revision-regression branches).
RevisionNeverRegresses ==
  [][channel' # NewChannel /\ channel.sess.known => channel'.sess.rev >= channel.sess.rev]_vars

\* A panel that has applied everything the host sent shows the session's
\* transcript, each message once; until a mutation has held the tail, for what
\* is announced meanwhile is in the mutation's snapshot and announced again.
TranscriptMatches ==
  LET s == channel.sess IN
  channel.epoch = epoch /\ s.known /\ ~s.stale /\ s.seq = Seq0 /\ mutations = 0 =>
     view = transcript
=============================================================================
