------------------------ MODULE RuntimeStream_proofs ------------------------
(***************************************************************************)
(* Proofs about RuntimeStream, for any number of offscreen documents and    *)
(* any length of their streams: what reaches the panel, in whatever order,  *)
(* never leaves it at a state that is no state of the session.              *)
(***************************************************************************)
EXTENDS RuntimeStream, SequenceTheorems, TLAPS

-----------------------------------------------------------------------------
(* The inductive invariant *)

\* What an envelope does to the transcript of a panel that misses nothing.
Replays(entry, before) ==
  /\ entry.type = "snapshot" => entry.replay = entry.body
  /\ entry.type = "message" => entry.replay = before + 1
  /\ entry.type = "execution" => entry.replay = before

Before(ep, n) == IF n = 1 THEN 0 ELSE sent[ep][n - 1].replay

\* Every envelope continues the stream it is in.
StreamsReplay ==
  \A ep \in Epochs : \A n \in 1..Len(sent[ep]) : Replays(sent[ep][n], Before(ep, n))

\* A document that has not started has sent nothing, nor has one without the
\* session.
NothingBeforeOpen ==
  /\ \A ep \in Epochs : ep > epoch => sent[ep] = <<>>
  /\ ~live => sent[epoch] = <<>>

\* The stream of a document that started without the session begins with the
\* snapshot of its create or load.
OpensWithSnapshot(ep) ==
  IF sent[ep] = <<>> THEN ep = epoch => ~live ELSE sent[ep][1].type = "snapshot"

\* Only such a document says hello without a cursor.
HellosTruthful ==
  \A hello \in hellos :
    hello.epoch <= epoch /\ (~hello.present => OpensWithSnapshot(hello.epoch))

\* Only of such a document does the panel know no session.
UnknownOpens ==
  channel.epoch # NoEpoch /\ ~channel.sess.known =>
    channel.epoch <= epoch /\ OpensWithSnapshot(channel.epoch)

\* A held tail and a waiting message belong to a session.
TailNeedsSession == held \/ queued > 0 => live

\* A panel that knows a session has had a hello.
KnownHasEpoch == channel.sess.known => channel.epoch \in Epochs

StreamInv ==
  /\ TypeOK
  /\ StreamsReplay /\ NothingBeforeOpen /\ HellosTruthful
  /\ UnknownOpens /\ TailNeedsSession /\ KnownHasEpoch /\ ViewFollowsStream

-----------------------------------------------------------------------------
(* The host: streams only grow *)

\* Streams keep the envelopes they have, and each one added continues them.
Grows ==
  /\ sent' \in [Epochs -> Seq(EntryType)]
  /\ \A ep \in Epochs :
       /\ Len(sent'[ep]) >= Len(sent[ep])
       /\ \A n \in 1..Len(sent[ep]) : sent'[ep][n] = sent[ep][n]
       /\ \A n \in Len(sent[ep])+1..Len(sent'[ep]) :
            Replays(sent'[ep][n], IF n = 1 THEN 0 ELSE sent'[ep][n - 1].replay)

\* The record constructors build entries of the stream's type.
LEMMA EntriesTyped ==
  ASSUME NEW r \in Nat, NEW b \in Nat, TypeOK
  PROVE  /\ Replayed \in Nat
         /\ Snapshot(r, b) \in EntryType /\ Snapshot(r, b).type = "snapshot"
         /\ Replays(Snapshot(r, b), Replayed)
         /\ Message(r) \in EntryType /\ Replays(Message(r), Replayed)
         /\ Execution(r, b) \in EntryType /\ Replays(Execution(r, b), Replayed)
         /\ Execution(r, b).replay = Replayed
<1>1. Replayed \in Nat
  <2>1. sent[epoch] \in Seq(EntryType) BY DEF TypeOK
  <2>2. CASE Seq0 = 0 BY <2>2 DEF Replayed
  <2>3. CASE Seq0 # 0
    <3>1. sent[epoch][Seq0] \in EntryType BY <2>1, <2>3 DEF Seq0
    <3> QED BY <3>1, <2>3 DEF Replayed, EntryType
  <2> QED BY <2>2, <2>3
<1> QED BY <1>1 DEF Snapshot, Message, Execution, Entry, EntryType, Types, Replays

\* One envelope more: the stream of the epoch grows by a step that replays.
LEMMA EmitGrows ==
  ASSUME TypeOK, NEW entry \in EntryType, Replays(entry, Replayed), Emit(entry)
  PROVE  /\ Grows
         /\ sent'[epoch] = Append(sent[epoch], entry)
         /\ \A ep \in Epochs : ep # epoch => sent'[ep] = sent[ep]
<1>1. sent \in [Epochs -> Seq(EntryType)] /\ epoch \in Epochs BY DEF TypeOK
<1>2. sent' = [sent EXCEPT ![epoch] = Append(@, entry)] BY DEF Emit
<1>3. sent'[epoch] = Append(sent[epoch], entry)
      /\ \A ep \in Epochs : ep # epoch => sent'[ep] = sent[ep]
  BY <1>1, <1>2
<1>4. sent' \in [Epochs -> Seq(EntryType)]
  <2>1. Append(sent[epoch], entry) \in Seq(EntryType) BY <1>1
  <2> QED BY <1>1, <1>2, <2>1
<1>5. ASSUME NEW ep \in Epochs
      PROVE /\ Len(sent'[ep]) >= Len(sent[ep])
            /\ \A n \in 1..Len(sent[ep]) : sent'[ep][n] = sent[ep][n]
            /\ \A n \in Len(sent[ep])+1..Len(sent'[ep]) :
                 Replays(sent'[ep][n], IF n = 1 THEN 0 ELSE sent'[ep][n - 1].replay)
  <2>1. sent[ep] \in Seq(EntryType) BY <1>1
  <2>2. CASE ep # epoch BY <2>1, <2>2, <1>3
  <2>3. CASE ep = epoch
    <3>1. sent'[ep] = Append(sent[ep], entry) BY <2>3, <1>3
    <3>2. Len(sent'[ep]) = Len(sent[ep]) + 1 /\ sent'[ep][Len(sent[ep]) + 1] = entry
          /\ \A n \in 1..Len(sent[ep]) : sent'[ep][n] = sent[ep][n]
      BY <2>1, <3>1
    <3>3. ASSUME NEW n \in Len(sent[ep])+1..Len(sent'[ep])
          PROVE  Replays(sent'[ep][n], IF n = 1 THEN 0 ELSE sent'[ep][n - 1].replay)
      <4>1. n = Len(sent[ep]) + 1 /\ sent'[ep][n] = entry BY <2>1, <3>2
      <4>2. Replayed = IF n = 1 THEN 0 ELSE sent[ep][n - 1].replay
        BY <2>1, <2>3, <4>1 DEF Replayed, Seq0
      <4>3. n # 1 => sent'[ep][n - 1] = sent[ep][n - 1]
        BY <2>1, <3>2, <4>1
      <4> QED BY <4>1, <4>2, <4>3
    <3> QED BY <2>1, <3>2, <3>3
  <2> QED BY <2>2, <2>3
<1> QED BY <1>3, <1>4, <1>5 DEF Grows

\* An execution that ends sends two.
LEMMA EndGrows ==
  ASSUME TypeOK, NEW raised \in {0, 1}, EndExecution(raised)
  PROVE  /\ Grows
         /\ \A ep \in Epochs : ep # epoch => sent'[ep] = sent[ep]
<1> DEFINE first == Execution(rev + raised, 0)
           second == Snapshot(rev + raised, transcript)
<1>1. sent \in [Epochs -> Seq(EntryType)] /\ epoch \in Epochs
      /\ rev + raised \in Nat /\ transcript \in Nat
  BY DEF TypeOK
<1>2. sent' = [sent EXCEPT ![epoch] = @ \o <<first, second>>] BY DEF EndExecution
<1>3. first \in EntryType /\ second \in EntryType /\ second.type = "snapshot"
      /\ Replays(first, Replayed) /\ \A before \in Nat : Replays(second, before)
  <2>1. first \in EntryType /\ second \in EntryType /\ second.type = "snapshot"
        /\ Replays(first, Replayed) /\ Replays(second, Replayed)
    BY <1>1, EntriesTyped
  <2> QED BY <2>1 DEF Replays
<1> HIDE DEF first, second
<1>4. \A ep \in Epochs : ep # epoch => sent'[ep] = sent[ep] BY <1>1, <1>2
<1>5. sent'[epoch] = sent[epoch] \o <<first, second>> BY <1>1, <1>2
<1>6. sent[epoch] \o <<first, second>> \in Seq(EntryType)
  <2>1. <<first, second>> \in Seq(EntryType) BY <1>3
  <2>2. sent[epoch] \in Seq(EntryType) BY <1>1
  <2> QED BY <2>1, <2>2, ConcatProperties
<1>7. sent' \in [Epochs -> Seq(EntryType)] BY <1>1, <1>2, <1>6
<1>8. ASSUME NEW ep \in Epochs
      PROVE /\ Len(sent'[ep]) >= Len(sent[ep])
            /\ \A n \in 1..Len(sent[ep]) : sent'[ep][n] = sent[ep][n]
            /\ \A n \in Len(sent[ep])+1..Len(sent'[ep]) :
                 Replays(sent'[ep][n], IF n = 1 THEN 0 ELSE sent'[ep][n - 1].replay)
  <2>1. sent[ep] \in Seq(EntryType) /\ Len(sent[ep]) \in Nat BY <1>1
  <2>2. CASE ep # epoch BY <2>1, <2>2, <1>4
  <2>3. CASE ep = epoch
    <3>1. Len(sent'[ep]) = Len(sent[ep]) + 2
          /\ sent'[ep][Len(sent[ep]) + 1] = first
          /\ sent'[ep][Len(sent[ep]) + 2] = second
          /\ \A n \in 1..Len(sent[ep]) : sent'[ep][n] = sent[ep][n]
      BY <2>1, <2>3, <1>5
    <3>2. Replayed = IF Len(sent[ep]) = 0 THEN 0 ELSE sent'[ep][Len(sent[ep])].replay
      BY <2>1, <2>3, <3>1 DEF Replayed, Seq0
    <3>3. first.replay \in Nat BY <1>3 DEF EntryType
    <3>4. ASSUME NEW n \in Len(sent[ep])+1..Len(sent'[ep])
          PROVE  Replays(sent'[ep][n], IF n = 1 THEN 0 ELSE sent'[ep][n - 1].replay)
      <4>1. CASE n = Len(sent[ep]) + 1
        <5>1. Replayed = IF n = 1 THEN 0 ELSE sent'[ep][n - 1].replay
          BY <2>1, <3>2, <4>1
        <5> QED BY <3>1, <4>1, <5>1, <1>3
      <4>2. CASE n = Len(sent[ep]) + 2
        <5>1. n # 1 /\ sent'[ep][n - 1] = first BY <2>1, <3>1, <4>2
        <5> QED BY <3>1, <3>3, <4>2, <5>1, <1>3
      <4> QED BY <2>1, <3>1, <4>1, <4>2
    <3> QED BY <2>1, <3>1, <3>4
  <2> QED BY <2>2, <2>3
<1> QED BY <1>4, <1>7, <1>8 DEF Grows

\* Streams that grow keep what is true of the streams and of the panel.
LEMMA GrowthKeeps ==
  ASSUME StreamInv, Grows, UNCHANGED panelVars
  PROVE  StreamsReplay' /\ KnownHasEpoch' /\ ViewFollowsStream'
<1>1. \A ep \in Epochs : sent[ep] \in Seq(EntryType) /\ sent'[ep] \in Seq(EntryType)
  BY DEF StreamInv, TypeOK, Grows
<1>2. StreamsReplay'
  <2> SUFFICES ASSUME NEW ep \in Epochs, NEW n \in 1..Len(sent'[ep])
               PROVE  Replays(sent'[ep][n], IF n = 1 THEN 0 ELSE sent'[ep][n - 1].replay)
    BY DEF StreamsReplay, Before
  <2>1. CASE n <= Len(sent[ep])
    <3>1. Replays(sent[ep][n], IF n = 1 THEN 0 ELSE sent[ep][n - 1].replay)
      BY <1>1, <2>1 DEF StreamInv, StreamsReplay, Before
    <3>2. sent'[ep][n] = sent[ep][n] /\ (n # 1 => sent'[ep][n - 1] = sent[ep][n - 1])
      BY <1>1, <2>1 DEF Grows
    <3> QED BY <3>1, <3>2
  <2>2. CASE n > Len(sent[ep]) BY <1>1, <2>2 DEF Grows
  <2> QED BY <1>1, <2>1, <2>2
<1>3. KnownHasEpoch' BY DEF StreamInv, KnownHasEpoch, panelVars
<1>4. ViewFollowsStream'
  <2> SUFFICES ASSUME channel.sess.known, ~channel.sess.stale
               PROVE  /\ channel.sess.seq \in DOMAIN sent'[channel.epoch]
                      /\ channel.sess.rev = sent'[channel.epoch][channel.sess.seq].rev
                      /\ view = sent'[channel.epoch][channel.sess.seq].replay
    BY DEF ViewFollowsStream, panelVars
  <2>1. channel.epoch \in Epochs BY DEF StreamInv, KnownHasEpoch
  <2>2. channel.sess.seq \in 1..Len(sent[channel.epoch])
        /\ channel.sess.rev = sent[channel.epoch][channel.sess.seq].rev
        /\ view = sent[channel.epoch][channel.sess.seq].replay
    BY <1>1, <2>1 DEF StreamInv, ViewFollowsStream
  <2> QED BY <1>1, <2>1, <2>2 DEF Grows
<1> QED BY <1>2, <1>3, <1>4

\* What a step of the host does to the streams: it starts the next document,
\* it adds to the stream of a live session, or it opens the session with a
\* snapshot.
HostEffect ==
  /\ Grows
  /\ \A ep \in Epochs : ep # epoch => sent'[ep] = sent[ep]
  /\ \/ epoch' = epoch + 1 /\ epoch' \in Epochs /\ sent' = sent
     \/ epoch' = epoch /\ live' = live /\ (live \/ sent' = sent)
     \/ /\ epoch' = epoch /\ ~live /\ live'
        /\ sent'[epoch] # <<>> /\ sent'[epoch][1].type = "snapshot"

\* A step that sends nothing has the effect of one that sends something.
LEMMA QuietGrows ==
  ASSUME TypeOK, UNCHANGED sent
  PROVE  Grows /\ \A ep \in Epochs : ep # epoch => sent'[ep] = sent[ep]
<1>1. sent \in [Epochs -> Seq(EntryType)] BY DEF TypeOK
<1>2. \A ep \in Epochs : Len(sent[ep]) \in Nat BY <1>1
<1> QED BY <1>1, <1>2 DEF Grows

\* Opening a session starts its stream with a snapshot.
LEMMA OpenEffect ==
  ASSUME StreamInv, NEW revision \in {0, 1}, Open(revision)
  PROVE  HostEffect
<1>1. TypeOK /\ NothingBeforeOpen BY DEF StreamInv
<1>2. revision \in Nat /\ transcript \in Nat /\ epoch \in Epochs BY <1>1 DEF TypeOK
<1>3. Emit(Snapshot(revision, transcript)) BY DEF Open
<1>4. Snapshot(revision, transcript) \in EntryType
      /\ Replays(Snapshot(revision, transcript), Replayed)
      /\ Snapshot(revision, transcript).type = "snapshot"
  BY <1>1, <1>2, EntriesTyped
<1> HIDE DEF Snapshot
<1>5. Grows /\ sent'[epoch] = Append(sent[epoch], Snapshot(revision, transcript))
      /\ \A ep \in Epochs : ep # epoch => sent'[ep] = sent[ep]
  BY <1>1, <1>3, <1>4, EmitGrows
<1>6. sent[epoch] = <<>> /\ ~live /\ live' /\ epoch' = epoch
  BY <1>1 DEF Open, NothingBeforeOpen
<1>7. sent'[epoch] # <<>> /\ sent'[epoch][1].type = "snapshot"
  BY <1>4, <1>5, <1>6
<1> QED BY <1>5, <1>6, <1>7 DEF HostEffect

\* An envelope of a live session.
LEMMA EmitEffect ==
  ASSUME StreamInv, NEW entry \in EntryType, Replays(entry, Replayed), Emit(entry),
         live, live' = live, epoch' = epoch
  PROVE  HostEffect
BY EmitGrows DEF StreamInv, HostEffect

\* Every step of the host has one of the three effects.
LEMMA HostSteps ==
  ASSUME StreamInv, HostNext
  PROVE  HostEffect /\ UNCHANGED panelVars
<1>1. TypeOK BY DEF StreamInv
<1>2. rev \in Nat /\ rev + 1 \in Nat /\ transcript \in Nat /\ transcript + 1 \in Nat
      /\ transcript + 0 \in Nat /\ epoch \in Nat
  BY <1>1 DEF TypeOK, Epochs
<1>3. CASE \E revision \in {0, 1} : Open(revision)
  BY <1>3, OpenEffect DEF Open
<1>4. CASE EmitHello \/ BeginMutation \/ FailMutation \/ Checkpoint
  <2>1. sent' = sent /\ epoch' = epoch /\ live' = live /\ UNCHANGED panelVars
    BY <1>4 DEF EmitHello, BeginMutation, FailMutation, Checkpoint, hostVars
  <2> QED BY <1>1, <2>1, QuietGrows DEF HostEffect
<1>5. CASE Announce
  <2>1. live /\ live' = live /\ epoch' = epoch /\ UNCHANGED panelVars BY <1>5 DEF Announce
  <2>2. CASE sent' = sent BY <1>1, <2>1, <2>2, QuietGrows DEF HostEffect
  <2>3. CASE Emit(Message(rev + 1)) BY <1>1, <1>2, <2>1, <2>3, EntriesTyped, EmitEffect
  <2> QED BY <1>5, <2>1, <2>2, <2>3 DEF Announce
<1>6. CASE EmitQueued
  <2>1. live' = live /\ epoch' = epoch /\ UNCHANGED panelVars /\ Emit(Message(rev + 1))
    BY <1>6 DEF EmitQueued
  <2>2. live BY <1>6 DEF EmitQueued, StreamInv, TailNeedsSession
  <2> QED BY <1>1, <1>2, <2>1, <2>2, EntriesTyped, EmitEffect
<1>7. CASE \E appended \in {0, 1} : FinishMutation(appended)
  <2>1. PICK appended \in {0, 1} : FinishMutation(appended) BY <1>7
  <2>2. live' = live /\ epoch' = epoch /\ UNCHANGED panelVars
        /\ Emit(Snapshot(rev + 1, transcript + appended))
    BY <2>1 DEF FinishMutation
  <2>3. live BY <2>1 DEF FinishMutation, StreamInv, TailNeedsSession
  <2>4. transcript + appended \in Nat BY <1>2
  <2> QED BY <1>1, <1>2, <2>2, <2>3, <2>4, EntriesTyped, EmitEffect
<1>8. CASE SendSnapshot
  <2>1. live /\ live' = live /\ epoch' = epoch /\ UNCHANGED panelVars
        /\ Emit(Snapshot(rev, transcript))
    BY <1>8 DEF SendSnapshot, hostVars
  <2> QED BY <1>1, <1>2, <2>1, EntriesTyped, EmitEffect
<1>9. CASE \E running \in {0, 1} : AnnounceExecution(running)
  <2>1. PICK running \in {0, 1} :
          live /\ live' = live /\ epoch' = epoch /\ UNCHANGED panelVars
          /\ Emit(Execution(rev, running))
    BY <1>9 DEF AnnounceExecution, hostVars
  <2> QED BY <1>1, <1>2, <2>1, EntriesTyped, EmitEffect
<1>10. CASE \E raised \in {0, 1} : EndExecution(raised)
  <2>1. PICK raised \in {0, 1} : EndExecution(raised) BY <1>10
  <2>2. live /\ live' = live /\ epoch' = epoch /\ UNCHANGED panelVars
    BY <2>1 DEF EndExecution
  <2> QED BY <1>1, <2>1, <2>2, EndGrows DEF HostEffect
<1>11. CASE Restart
  <2>1. sent' = sent /\ epoch' = epoch + 1 /\ UNCHANGED panelVars /\ epoch < MaxEpoch
    BY <1>11 DEF Restart
  <2>2. epoch' \in Epochs BY <1>1, <2>1, EpochAssumption DEF TypeOK, Epochs
  <2> QED BY <1>1, <2>1, <2>2, QuietGrows DEF HostEffect
<1> QED BY <1>3, <1>4, <1>5, <1>6, <1>7, <1>8, <1>9, <1>10, <1>11 DEF HostNext

-----------------------------------------------------------------------------
(* The host keeps the invariant *)

\* The stream of a document that opened with a snapshot still does.
LEMMA OpensKept ==
  ASSUME StreamInv, HostEffect, NEW ep \in Epochs, ep <= epoch, OpensWithSnapshot(ep)
  PROVE  OpensWithSnapshot(ep)'
<1>1. sent[ep] \in Seq(EntryType) /\ sent'[ep] \in Seq(EntryType)
      /\ ep \in Nat /\ epoch \in Nat
  BY DEF StreamInv, TypeOK, HostEffect, Grows, Epochs
<1>2. CASE epoch' = epoch + 1 /\ sent' = sent
  BY <1>1, <1>2 DEF OpensWithSnapshot
<1>3. CASE epoch' = epoch /\ live' = live /\ (live \/ sent' = sent)
  <2>1. CASE sent[ep] = <<>>
    <3>1. ep = epoch => ~live BY <2>1 DEF OpensWithSnapshot
    <3>2. sent'[ep] = sent[ep] BY <1>3, <3>1 DEF HostEffect
    <3> QED BY <1>3, <2>1, <3>1, <3>2 DEF OpensWithSnapshot
  <2>2. CASE sent[ep] # <<>>
    <3>1. 1 \in 1..Len(sent[ep]) BY <1>1, <2>2
    <3>2. sent'[ep][1] = sent[ep][1] /\ sent'[ep] # <<>>
      BY <1>1, <3>1 DEF HostEffect, Grows
    <3> QED BY <2>2, <3>2 DEF OpensWithSnapshot
  <2> QED BY <2>1, <2>2
<1>4. CASE epoch' = epoch /\ ~live /\ live'
           /\ sent'[epoch] # <<>> /\ sent'[epoch][1].type = "snapshot"
  <2>1. CASE ep = epoch BY <1>4, <2>1 DEF OpensWithSnapshot
  <2>2. CASE ep # epoch BY <1>4, <2>2 DEF OpensWithSnapshot, HostEffect
  <2> QED BY <2>1, <2>2
<1> QED BY <1>2, <1>3, <1>4 DEF HostEffect

\* A document that has not started, or has no session, has sent nothing.
LEMMA NothingBeforeOpenKept ==
  ASSUME StreamInv, HostEffect
  PROVE  NothingBeforeOpen'
<1>1. epoch \in Epochs /\ epoch' \in Epochs BY DEF StreamInv, TypeOK, HostEffect
<1>2. \A ep \in Epochs : ep > epoch' => sent'[ep] = <<>>
  BY <1>1 DEF StreamInv, NothingBeforeOpen, HostEffect, Epochs
<1>3. ASSUME ~live' PROVE sent'[epoch'] = <<>>
  BY <1>1, <1>3 DEF StreamInv, NothingBeforeOpen, HostEffect, Epochs
<1> QED BY <1>2, <1>3 DEF NothingBeforeOpen

\* The cursor of a hello is of its type, and says the truth about the session.
LEMMA CursorTyped ==
  ASSUME TypeOK
  PROVE  Cursor \in HelloType /\ Cursor.epoch = epoch /\ Cursor.present = live
<1>1. Seq0 \in Nat BY DEF TypeOK, Seq0
<1> QED BY <1>1 DEF TypeOK, Cursor, Hello, HelloType

\* Steps of the host keep the types.
LEMMA HostTypes ==
  ASSUME TypeOK, HostNext, Grows, epoch' \in Epochs, UNCHANGED panelVars
  PROVE  TypeOK'
<1>1. sent' \in [Epochs -> Seq(EntryType)] BY DEF Grows
<1>2. channel' \in [epoch : Epochs \cup {NoEpoch}, sess : SessionType] /\ view' \in Nat
  BY DEF TypeOK, panelVars
<1>3. hellos' \in SUBSET HelloType
  BY CursorTyped DEF HostNext, Open, EmitHello, Announce, EmitQueued, BeginMutation, FailMutation,
     FinishMutation, SendSnapshot, AnnounceExecution, EndExecution, Checkpoint, Restart, TypeOK
<1>4. live' \in BOOLEAN /\ held' \in BOOLEAN
  BY DEF HostNext, Open, EmitHello, Announce, EmitQueued, BeginMutation, FailMutation,
     FinishMutation, SendSnapshot, AnnounceExecution, EndExecution, Checkpoint, Restart, TypeOK,
     hostVars
<1>5. rev' \in Nat /\ transcript' \in Nat
  BY DEF HostNext, Open, EmitHello, Announce, EmitQueued, BeginMutation, FailMutation,
     FinishMutation, SendSnapshot, AnnounceExecution, EndExecution, Checkpoint, Restart, TypeOK,
     hostVars
<1>6. queued' \in Nat /\ mutations' \in Nat
  BY DEF HostNext, Open, EmitHello, Announce, EmitQueued, BeginMutation, FailMutation,
     FinishMutation, SendSnapshot, AnnounceExecution, EndExecution, Checkpoint, Restart, TypeOK,
     hostVars
<1>7. checkpoint' \in [live : BOOLEAN, rev : Nat, transcript : Nat]
  BY DEF HostNext, Open, EmitHello, Announce, EmitQueued, BeginMutation, FailMutation,
     FinishMutation, SendSnapshot, AnnounceExecution, EndExecution, Checkpoint, Restart, TypeOK,
     hostVars
<1> QED BY <1>1, <1>2, <1>3, <1>4, <1>5, <1>6, <1>7 DEF TypeOK

\* A mutation or a queued message belongs to a session.
LEMMA TailKept ==
  ASSUME StreamInv, HostNext
  PROVE  TailNeedsSession'
BY DEF StreamInv, TypeOK, TailNeedsSession, HostNext, Open, EmitHello, Announce, EmitQueued,
   BeginMutation, FailMutation, FinishMutation, SendSnapshot, AnnounceExecution, EndExecution,
   Checkpoint, Restart, hostVars

\* A hello says the session is there, or it is the hello of a document whose
\* stream opens with a snapshot.
LEMMA HellosKept ==
  ASSUME StreamInv, HostNext, HostEffect
  PROVE  HellosTruthful'
<1>1. hellos' = hellos \/ (EmitHello /\ hellos' = hellos \cup {Cursor})
  BY DEF HostNext, Open, EmitHello, Announce, EmitQueued, BeginMutation, FailMutation,
     FinishMutation, SendSnapshot, AnnounceExecution, EndExecution, Checkpoint, Restart
<1>2. epoch \in Nat /\ epoch' \in Nat /\ epoch' >= epoch
  BY DEF StreamInv, TypeOK, HostEffect, Epochs
<1>3. ASSUME NEW hello \in hellos
      PROVE  hello.epoch <= epoch' /\ (~hello.present => OpensWithSnapshot(hello.epoch)')
  <2>1. hello.epoch \in Epochs /\ hello.epoch <= epoch
        /\ (~hello.present => OpensWithSnapshot(hello.epoch))
    BY <1>3 DEF StreamInv, TypeOK, HelloType, HellosTruthful
  <2>2. ~hello.present => OpensWithSnapshot(hello.epoch)' BY <2>1, OpensKept
  <2> QED BY <1>2, <2>1, <2>2 DEF Epochs
<1>4. ASSUME EmitHello, NEW hello, hello = Cursor
      PROVE  hello.epoch <= epoch' /\ (~hello.present => OpensWithSnapshot(hello.epoch)')
  <2>1. epoch' = epoch /\ live' = live /\ sent' = sent BY <1>4 DEF EmitHello, hostVars
  <2>2. hello.epoch = epoch /\ hello.present = live BY <1>4, CursorTyped DEF StreamInv
  <2>3. ~live => sent[epoch] = <<>> BY DEF StreamInv, NothingBeforeOpen
  <2>4. ~hello.present => OpensWithSnapshot(hello.epoch)'
    BY <2>1, <2>2, <2>3 DEF OpensWithSnapshot
  <2> QED BY <1>2, <2>1, <2>2, <2>4
<1>5. \A hello \in hellos' : hello \in hellos \/ (EmitHello /\ hello = Cursor) BY <1>1
<1> QED BY <1>3, <1>4, <1>5 DEF HellosTruthful

\* The host keeps the inductive invariant.
LEMMA HostKeepsStreamInv ==
  ASSUME StreamInv, HostNext
  PROVE  StreamInv'
<1>1. HostEffect /\ UNCHANGED panelVars BY HostSteps
<1>2. Grows /\ epoch' \in Epochs BY <1>1 DEF HostEffect, StreamInv, TypeOK
<1>3. TypeOK' BY <1>1, <1>2, HostTypes DEF StreamInv
<1>4. StreamsReplay' /\ KnownHasEpoch' /\ ViewFollowsStream' BY <1>1, <1>2, GrowthKeeps
<1>5. NothingBeforeOpen' /\ HellosTruthful' /\ TailNeedsSession'
  BY <1>1, NothingBeforeOpenKept, HellosKept, TailKept
<1>6. UnknownOpens'
  <2>1. epoch \in Nat /\ epoch' \in Nat /\ epoch' >= epoch
    BY <1>1 DEF StreamInv, TypeOK, HostEffect, Epochs
  <2> SUFFICES ASSUME channel.epoch # NoEpoch, ~channel.sess.known
               PROVE  channel.epoch <= epoch' /\ OpensWithSnapshot(channel.epoch)'
    BY <1>1 DEF UnknownOpens, panelVars
  <2>2. channel.epoch \in Epochs /\ channel.epoch <= epoch /\ OpensWithSnapshot(channel.epoch)
    BY DEF StreamInv, TypeOK, UnknownOpens
  <2>3. \A ep \in Epochs : ep <= epoch /\ OpensWithSnapshot(ep) => OpensWithSnapshot(ep)'
    BY <1>1, OpensKept
  <2> QED BY <1>1, <2>1, <2>2, <2>3 DEF Epochs, panelVars
<1> QED BY <1>3, <1>4, <1>5, <1>6 DEF StreamInv

-----------------------------------------------------------------------------
(* The panel keeps the invariant *)

\* What the panel's side of the invariant says of a channel and a view.
PanelFits(ch, messages) ==
  /\ ch \in [epoch : Epochs \cup {NoEpoch}, sess : SessionType] /\ messages \in Nat
  /\ ch.epoch # NoEpoch /\ ~ch.sess.known => ch.epoch <= epoch /\ OpensWithSnapshot(ch.epoch)
  /\ ch.sess.known => ch.epoch \in Epochs
  /\ ch.sess.known /\ ~ch.sess.stale =>
       /\ ch.sess.seq \in DOMAIN sent[ch.epoch]
       /\ ch.sess.rev = sent[ch.epoch][ch.sess.seq].rev
       /\ messages = sent[ch.epoch][ch.sess.seq].replay

\* A hello leaves the panel where it was, or stale.
LEMMA HelloFits ==
  ASSUME StreamInv, NEW hello \in hellos
  PROVE  PanelFits(ReduceHello(channel, hello), view)
<1>1. hello \in HelloType /\ hello.epoch <= epoch
      /\ (~hello.present => OpensWithSnapshot(hello.epoch))
  BY DEF StreamInv, TypeOK, HellosTruthful
<1>2. hello.epoch \in Epochs /\ hello.epoch # NoEpoch /\ hello.rev \in Nat
      /\ hello.present \in BOOLEAN
  BY <1>1 DEF HelloType, Epochs, NoEpoch
<1>3. channel \in [epoch : Epochs \cup {NoEpoch}, sess : SessionType] /\ view \in Nat
  BY DEF StreamInv, TypeOK
<1>4. PanelFits(channel, view)
  BY <1>3 DEF StreamInv, UnknownOpens, KnownHasEpoch, ViewFollowsStream, PanelFits
<1> DEFINE next == ReduceHello(channel, hello)
<1>5. next.epoch = hello.epoch /\ next \in [epoch : Epochs \cup {NoEpoch}, sess : SessionType]
  BY <1>2, <1>3 DEF ReduceHello, EmptySession, Absent, SessionType
<1>6. ~next.sess.known => ~hello.present
  BY <1>2, <1>3 DEF ReduceHello, EmptySession, Absent, SessionType
<1>7. next.sess.known /\ ~next.sess.stale =>
        /\ channel.epoch = hello.epoch /\ channel.sess.known /\ ~channel.sess.stale
        /\ next.sess.seq = channel.sess.seq /\ next.sess.rev = channel.sess.rev
  BY <1>2, <1>3 DEF ReduceHello, EmptySession, Absent, SessionType
<1> HIDE DEF next
<1>8. PanelFits(next, view)
  BY <1>1, <1>2, <1>3, <1>4, <1>5, <1>6, <1>7 DEF PanelFits
<1> QED BY <1>8 DEF next

\* An envelope of the stream is in its types.
LEMMA EnvelopeTyped ==
  ASSUME TypeOK, NEW ep \in Epochs, NEW n \in DOMAIN sent[ep]
  PROVE  /\ n \in Nat \ {0} /\ n \in 1..Len(sent[ep])
         /\ sent[ep][n] \in EntryType
         /\ Envelope(ep, n).epoch = ep /\ Envelope(ep, n).seq = n
         /\ Envelope(ep, n).type = sent[ep][n].type
         /\ Envelope(ep, n).rev = sent[ep][n].rev
         /\ Envelope(ep, n).body = sent[ep][n].body
         /\ Fingerprint(Envelope(ep, n)) \in {NoPrint} \cup (Types \X Epochs \X Nat \X Nat \X Nat)
<1>1. sent[ep] \in Seq(EntryType) BY DEF TypeOK
<1>2. n \in Nat \ {0} /\ n \in 1..Len(sent[ep]) /\ sent[ep][n] \in EntryType BY <1>1
<1>3. sent[ep][n].type \in Types /\ sent[ep][n].rev \in Nat /\ sent[ep][n].body \in Nat
  BY <1>2 DEF EntryType
<1> QED BY <1>2, <1>3 DEF Envelope, AsEnvelope, Stream, Fingerprint

\* Its three results: the session as it was, the session waiting for a resync,
\* or the session at the envelope; the last only when the envelope is a
\* snapshot or the very next one.
LEMMA ReductionCases ==
  ASSUME NEW c \in [epoch : Epochs \cup {NoEpoch}, sess : SessionType], NEW e
  PROVE  LET s == c.sess
             r == ReduceSessionStream(c, e)
             applied == r.effect \in {"snapshot-applied", "resynced", "event-applied"}
         IN  /\ ~applied => r.sess = s \/ (r.sess.known /\ r.sess.stale
                                          /\ c.epoch # NoEpoch
                                          /\ r.sess = [(IF s.known THEN s ELSE EmptySession(0, FALSE))
                                                         EXCEPT !.stale = TRUE])
             /\ applied => /\ c.epoch # NoEpoch /\ e.epoch = c.epoch
                           /\ r.sess.known /\ r.sess.seq = e.seq /\ r.sess.rev = e.rev
                           /\ ~r.sess.stale /\ r.sess.print = Fingerprint(e)
                           /\ s.known => ~(e.rev < s.rev)
             /\ r.effect \in {"snapshot-applied", "resynced"} => e.type = "snapshot"
             /\ r.effect = "event-applied" =>
                  /\ e.type # "snapshot" /\ (s.known => ~s.stale)
                  /\ e.seq = (IF s.known THEN s.seq ELSE 0) + 1
BY DEF ReduceSessionStream, ApplySnapshot, ApplyEvent, Outcome, MarkStale, Applied, EmptySession,
       Absent, SessionType

\* A session the reducer returns is a session.
LEMMA ReductionTyped ==
  ASSUME NEW c \in [epoch : Epochs \cup {NoEpoch}, sess : SessionType], NEW e,
         e.rev \in Nat, e.seq \in Nat,
         Fingerprint(e) \in {NoPrint} \cup (Types \X Epochs \X Nat \X Nat \X Nat)
  PROVE  ReduceSessionStream(c, e).sess \in SessionType
<1> DEFINE P == {NoPrint} \cup (Types \X Epochs \X Nat \X Nat \X Nat)
           print == Fingerprint(e)
<1>1. print \in P OBVIOUS
<1>2. c.sess \in [known : BOOLEAN, rev : Nat, seq : Nat, stale : BOOLEAN, print : P]
  BY DEF SessionType
<1>3. NoPrint \in P OBVIOUS
<1> HIDE DEF P
<1>4. ReduceSessionStream(c, e).sess \in [known : BOOLEAN, rev : Nat, seq : Nat, stale : BOOLEAN, print : P]
  BY <1>1, <1>2, <1>3
     DEF ReduceSessionStream, ApplySnapshot, ApplyEvent, Outcome, MarkStale, Applied,
         EmptySession, Absent
<1> QED BY <1>4 DEF P, SessionType

\* An envelope leaves the panel where it was, stale, or at the envelope's place.
LEMMA EnvelopeFits ==
  ASSUME StreamInv, NEW ep \in Epochs, NEW n \in DOMAIN sent[ep], Receive(Envelope(ep, n))
  PROVE  PanelFits(channel', view')
<1> DEFINE e == Envelope(ep, n)
           reduction == ReduceSessionStream(channel, e)
           s == channel.sess
           entry == sent[ep][n]
<1>1. channel \in [epoch : Epochs \cup {NoEpoch}, sess : SessionType] /\ view \in Nat
  BY DEF StreamInv, TypeOK
<1>2. PanelFits(channel, view)
  BY <1>1 DEF StreamInv, UnknownOpens, KnownHasEpoch, ViewFollowsStream, PanelFits
<1>3. /\ n \in Nat \ {0} /\ n \in 1..Len(sent[ep]) /\ entry \in EntryType
      /\ e.epoch = ep /\ e.seq = n /\ e.type = entry.type /\ e.rev = entry.rev
      /\ e.body = entry.body
      /\ Fingerprint(e) \in {NoPrint} \cup (Types \X Epochs \X Nat \X Nat \X Nat)
  BY EnvelopeTyped DEF StreamInv
<1>4. Replays(entry, Before(ep, n)) BY <1>3 DEF StreamInv, StreamsReplay
<1>5. entry.type \in Types /\ entry.rev \in Nat /\ entry.body \in Nat /\ entry.replay \in Nat
  BY <1>3 DEF EntryType
<1>6. channel' = [channel EXCEPT !.sess = reduction.sess]
      /\ view' = IF reduction.effect \in {"snapshot-applied", "resynced"} THEN e.body
                 ELSE IF reduction.effect = "event-applied" /\ e.type = "message" THEN view + 1
                 ELSE view
  BY DEF Receive
<1>7. reduction.sess \in SessionType
  BY <1>1, <1>3, <1>5, ReductionTyped
<1>8. channel' \in [epoch : Epochs \cup {NoEpoch}, sess : SessionType]
      /\ channel'.epoch = channel.epoch /\ channel'.sess = reduction.sess
  BY <1>1, <1>6, <1>7
<1>9. view' \in Nat BY <1>1, <1>3, <1>5, <1>6
<1> DEFINE applied == reduction.effect \in {"snapshot-applied", "resynced", "event-applied"}
<1>10. /\ ~applied => reduction.sess = s
                      \/ (reduction.sess.known /\ reduction.sess.stale /\ channel.epoch # NoEpoch)
       /\ applied => /\ channel.epoch # NoEpoch /\ e.epoch = channel.epoch
                     /\ reduction.sess.known /\ reduction.sess.seq = e.seq
                     /\ reduction.sess.rev = e.rev
       /\ reduction.effect \in {"snapshot-applied", "resynced"} => e.type = "snapshot"
       /\ reduction.effect = "event-applied" =>
            /\ e.type # "snapshot" /\ (s.known => ~s.stale)
            /\ e.seq = (IF s.known THEN s.seq ELSE 0) + 1
  BY <1>1, ReductionCases
<1> HIDE DEF e, reduction
<1>11. CASE ~applied
  <2>1. view' = view BY <1>6, <1>11
  <2> QED BY <1>1, <1>2, <1>8, <1>9, <1>10, <1>11, <2>1 DEF PanelFits
<1>12. CASE reduction.effect \in {"snapshot-applied", "resynced"}
  <2>1. view' = entry.replay BY <1>3, <1>4, <1>6, <1>10, <1>12 DEF Replays
  <2> QED BY <1>3, <1>8, <1>9, <1>10, <1>12, <2>1 DEF PanelFits
<1>13. CASE reduction.effect = "event-applied"
  <2>1. channel.epoch = ep /\ entry.type # "snapshot" BY <1>3, <1>10, <1>13
  <2>2. s.known
    <3>1. SUFFICES ASSUME ~s.known PROVE FALSE OBVIOUS
    <3>2. n = 1 BY <1>3, <1>10, <1>13, <3>1
    <3>3. OpensWithSnapshot(ep) BY <1>2, <1>10, <1>13, <2>1, <3>1 DEF PanelFits
    <3>4. sent[ep] # <<>> BY <1>3
    <3> QED BY <2>1, <3>2, <3>3, <3>4 DEF OpensWithSnapshot
  <2>3. ~s.stale /\ n = s.seq + 1 BY <1>3, <1>10, <1>13, <2>2
  <2>4. s.seq \in DOMAIN sent[ep] /\ view = sent[ep][s.seq].replay
    BY <1>2, <2>1, <2>2, <2>3 DEF PanelFits
  <2>5. s.seq \in Nat \ {0}
    <3>1. sent[ep] \in Seq(EntryType) BY DEF StreamInv, TypeOK
    <3> QED BY <2>4, <3>1
  <2>6. Before(ep, n) = view BY <2>3, <2>4, <2>5 DEF Before
  <2>7. view' = entry.replay
    BY <1>3, <1>4, <1>5, <1>6, <1>13, <2>1, <2>6 DEF Replays, Types
  <2> QED BY <1>3, <1>8, <1>9, <1>10, <1>13, <2>7 DEF PanelFits
<1> QED BY <1>11, <1>12, <1>13

\* The panel keeps the inductive invariant.
LEMMA PanelKeepsStreamInv ==
  ASSUME StreamInv, PanelNext
  PROVE  StreamInv'
<1>1. PanelFits(channel', view') /\ UNCHANGED <<hostVars, sent, hellos>>
  <2>1. CASE \E hello \in hellos : ReceiveHello(hello)
    BY <2>1, HelloFits DEF ReceiveHello, StreamInv, TypeOK
  <2>2. CASE \E ep \in Epochs : \E n \in DOMAIN sent[ep] : Receive(Envelope(ep, n))
    BY <2>2, EnvelopeFits DEF Receive
  <2>3. CASE Reopen
    BY <2>3 DEF Reopen, NewChannel, Absent, PanelFits, SessionType
  <2> QED BY <2>1, <2>2, <2>3 DEF PanelNext
<1>2. TypeOK' BY <1>1 DEF StreamInv, TypeOK, PanelFits, hostVars
<1>3. StreamsReplay' /\ NothingBeforeOpen' /\ TailNeedsSession'
  BY <1>1 DEF StreamInv, StreamsReplay, Before, NothingBeforeOpen, TailNeedsSession, hostVars
<1>4. \A ep \in Epochs : OpensWithSnapshot(ep)' <=> OpensWithSnapshot(ep)
  BY <1>1 DEF OpensWithSnapshot, hostVars
<1>5. HellosTruthful'
  BY <1>1, <1>4 DEF StreamInv, TypeOK, HelloType, HellosTruthful, hostVars
<1>6. UnknownOpens' /\ KnownHasEpoch' /\ ViewFollowsStream'
  BY <1>1 DEF PanelFits, UnknownOpens, KnownHasEpoch, ViewFollowsStream, OpensWithSnapshot, hostVars
<1> QED BY <1>2, <1>3, <1>5, <1>6 DEF StreamInv

-----------------------------------------------------------------------------
(* Theorems *)

\* Every step keeps the inductive invariant.
LEMMA StreamInvKept ==
  ASSUME StreamInv, [Next]_vars
  PROVE  StreamInv'
<1>1. CASE HostNext BY <1>1, HostKeepsStreamInv
<1>2. CASE PanelNext BY <1>2, PanelKeepsStreamInv
<1>3. CASE UNCHANGED vars
  BY <1>3 DEF vars, StreamInv, TypeOK, StreamsReplay, Before, NothingBeforeOpen, HellosTruthful,
     UnknownOpens, TailNeedsSession, KnownHasEpoch, ViewFollowsStream, OpensWithSnapshot, Cursor
<1> QED BY <1>1, <1>2, <1>3 DEF Next

\* The inductive invariant holds at the start.
LEMMA InitStreamInv == Init => StreamInv
<1> SUFFICES ASSUME Init PROVE StreamInv OBVIOUS
<1>1. epoch \in Epochs BY EpochAssumption DEF Init, Epochs
<1>2. sent \in [Epochs -> Seq(EntryType)] /\ \A ep \in Epochs : sent[ep] = <<>> BY DEF Init
<1>3. Absent \in SessionType BY DEF Absent, SessionType
<1>4. channel \in [epoch : Epochs \cup {NoEpoch}, sess : SessionType] /\ channel.epoch = NoEpoch
      /\ ~channel.sess.known
  BY <1>3 DEF Init, NewChannel, Absent
<1>5. TypeOK BY <1>1, <1>2, <1>4 DEF Init, TypeOK
<1>6. StreamsReplay /\ NothingBeforeOpen /\ HellosTruthful /\ TailNeedsSession
  BY <1>1, <1>2 DEF Init, StreamsReplay, NothingBeforeOpen, HellosTruthful, TailNeedsSession
<1> QED BY <1>4, <1>5, <1>6 DEF StreamInv, UnknownOpens, KnownHasEpoch, ViewFollowsStream

\* It holds of every behaviour.
LEMMA StreamInvHolds == Spec => []StreamInv
<1>1. StreamInv /\ [Next]_vars => StreamInv'
  BY StreamInvKept
<1> QED BY <1>1, InitStreamInv, PTL DEF Spec

\* Every variable of the stream and of the panel keeps its type
\* (RuntimeStream's TypeOK), for any bounds.
THEOREM StreamTypeCorrect == Spec => []TypeOK
<1>1. StreamInv => TypeOK BY DEF StreamInv
<1> QED BY <1>1, StreamInvHolds, PTL

\* A panel that is not waiting for a resync stands at a position of the stream
\* of its epoch and shows what a panel that missed nothing shows there, however
\* envelopes are lost, repeated and reordered and documents are replaced
\* (reduceSessionStream, reduceHello, RemoteAgentState).
THEOREM PanelFollowsStream == Spec => []ViewFollowsStream
<1>1. StreamInv => ViewFollowsStream BY DEF StreamInv
<1> QED BY <1>1, StreamInvHolds, PTL

\* The panel's revision of a session never falls, unless the panel is reopened
\* (the revision-regression branches of applySnapshot and reduceSessionStream).
THEOREM RevisionsNeverRegress == Spec => RevisionNeverRegresses
<1>1. StreamInv /\ [Next]_vars =>
        [channel' # NewChannel /\ channel.sess.known => channel'.sess.rev >= channel.sess.rev]_vars
  <2> SUFFICES ASSUME StreamInv, Next, channel' # NewChannel, channel.sess.known
               PROVE  channel'.sess.rev >= channel.sess.rev
    OBVIOUS
  <2>1. channel \in [epoch : Epochs \cup {NoEpoch}, sess : SessionType]
        /\ channel.sess.rev \in Nat /\ channel.sess \in SessionType
    BY DEF StreamInv, TypeOK, SessionType
  <2>2. CASE HostNext
    <3>1. channel' = channel BY <2>2, HostSteps DEF panelVars
    <3> QED BY <2>1, <3>1
  <2>3. CASE \E hello \in hellos : ReceiveHello(hello)
    <3>1. PICK hello \in hellos : channel' = ReduceHello(channel, hello)
      BY <2>3 DEF ReceiveHello
    <3>2. channel'.sess.rev = channel.sess.rev
      BY <2>1, <3>1 DEF ReduceHello, SessionType
    <3> QED BY <2>1, <3>2
  <2>4. CASE \E ep \in Epochs : \E n \in DOMAIN sent[ep] : Receive(Envelope(ep, n))
    <3>0. PICK ep \in Epochs : \E n \in DOMAIN sent[ep] : Receive(Envelope(ep, n)) BY <2>4
    <3>1. PICK n \in DOMAIN sent[ep] : Receive(Envelope(ep, n)) BY <3>0
    <3> DEFINE e == Envelope(ep, n)
               reduction == ReduceSessionStream(channel, e)
    <3>2. channel'.sess = reduction.sess BY <2>1, <3>1 DEF Receive
    <3>3. e.rev \in Nat BY EnvelopeTyped DEF StreamInv, EntryType
    <3>4. reduction.sess = channel.sess
          \/ reduction.sess = [channel.sess EXCEPT !.stale = TRUE]
          \/ (reduction.sess.rev = e.rev /\ ~(e.rev < channel.sess.rev))
      BY <2>1, ReductionCases
    <3> HIDE DEF e, reduction
    <3>5. reduction.sess.rev >= channel.sess.rev
      BY <2>1, <3>3, <3>4 DEF SessionType
    <3> QED BY <3>2, <3>5
  <2>5. CASE Reopen BY <2>5 DEF Reopen
  <2> QED BY <2>2, <2>3, <2>4, <2>5 DEF Next, PanelNext
<1> QED BY <1>1, StreamInvHolds, PTL DEF Spec, RevisionNeverRegresses

-----------------------------------------------------------------------------
(* What a panel that has everything shows *)

HasSnapshot(ep, upTo) == \E n \in 1..upTo : sent[ep][n].type = "snapshot"

\* A panel that waits for no resync has had a snapshot of its epoch; and what follows
\* a snapshot is the session's transcript as long as no mutation has held the tail.
\* (A document that starts with a session has sent none of its messages.)
TranscriptFollows ==
  /\ channel.sess.known /\ ~channel.sess.stale => HasSnapshot(channel.epoch, channel.sess.seq)
  /\ mutations = 0 => ~held /\ queued = 0 /\ (HasSnapshot(epoch, Seq0) => Replayed = transcript)

\* One envelope more that replays to the transcript.
LEMMA EmitFollows ==
  ASSUME TypeOK, NEW entry \in EntryType, sent'[epoch] = Append(sent[epoch], entry), epoch' = epoch,
         entry.type = "snapshot" \/ HasSnapshot(epoch, Seq0) => entry.replay = transcript'
  PROVE  HasSnapshot(epoch, Seq0)' => Replayed' = transcript'
<1>1. sent[epoch] \in Seq(EntryType) BY DEF TypeOK
<1>2. /\ Seq0 \in Nat /\ Seq0' = Seq0 + 1 /\ sent'[epoch][Seq0 + 1] = entry
      /\ \A n \in 1..Seq0 : sent'[epoch][n] = sent[epoch][n]
  BY <1>1 DEF Seq0
<1>3. Replayed' = entry.replay BY <1>2 DEF Replayed, Seq0
<1>4. ASSUME NEW n \in 1..Seq0', sent'[epoch'][n].type = "snapshot"
      PROVE  entry.type = "snapshot" \/ HasSnapshot(epoch, Seq0)
  <2>1. CASE n = Seq0 + 1 BY <1>2, <1>4, <2>1
  <2>2. CASE n # Seq0 + 1
    <3>1. n \in 1..Seq0 BY <1>2, <2>2
    <3> QED BY <1>2, <1>4, <3>1 DEF HasSnapshot
  <2> QED BY <2>1, <2>2
<1> QED BY <1>3, <1>4 DEF HasSnapshot

\* The panel's part holds on, for streams only grow.
LEMMA GrowthKeepsSnapshot ==
  ASSUME StreamInv, TranscriptFollows, Grows, UNCHANGED panelVars,
         channel.sess.known, ~channel.sess.stale
  PROVE  HasSnapshot(channel.epoch, channel.sess.seq)'
<1>1. PICK n \in 1..channel.sess.seq : sent[channel.epoch][n].type = "snapshot"
  BY DEF TranscriptFollows, HasSnapshot
<1>2. /\ channel.epoch \in Epochs /\ sent[channel.epoch] \in Seq(EntryType)
      /\ channel.sess.seq \in DOMAIN sent[channel.epoch]
  BY DEF StreamInv, TypeOK, KnownHasEpoch, ViewFollowsStream
<1>3. n \in 1..Len(sent[channel.epoch]) BY <1>1, <1>2
<1>4. sent'[channel.epoch][n] = sent[channel.epoch][n] BY <1>2, <1>3 DEF Grows
<1> QED BY <1>1, <1>4 DEF HasSnapshot, panelVars

\* The host and its stream grow together (publish); what is sent says what the host has.
LEMMA HostKeepsTranscript ==
  ASSUME StreamInv, TranscriptFollows, HostNext
  PROVE  TranscriptFollows'
<1>1. TypeOK /\ mutations \in Nat BY DEF StreamInv, TypeOK
<1>2. HostEffect /\ UNCHANGED panelVars BY HostSteps
<1>3. Grows BY <1>2 DEF HostEffect
<1>4. channel'.sess.known /\ ~channel'.sess.stale => HasSnapshot(channel.epoch, channel.sess.seq)'
  BY <1>2, <1>3, GrowthKeepsSnapshot DEF panelVars
<1>5. SUFFICES ASSUME mutations' = 0
               PROVE  ~held' /\ queued' = 0 /\ (HasSnapshot(epoch, Seq0)' => Replayed' = transcript')
  BY <1>4 DEF TranscriptFollows
<1>6. /\ mutations = 0 /\ ~BeginMutation
      /\ \A appended \in {0, 1} : ~FinishMutation(appended)
      /\ ~FailMutation /\ ~EmitQueued /\ ~held /\ queued = 0
      /\ HasSnapshot(epoch, Seq0) => Replayed = transcript
  <2>1. mutations = 0
    BY <1>1, <1>5 DEF HostNext, Open, EmitHello, Announce, EmitQueued, BeginMutation, FailMutation, FinishMutation,
       SendSnapshot, AnnounceExecution, EndExecution, Checkpoint, Restart, hostVars
  <2> QED BY <1>1, <1>5, <2>1 DEF TranscriptFollows, BeginMutation, FinishMutation, FailMutation, EmitQueued
<1>7. rev \in Nat /\ rev + 1 \in Nat /\ transcript \in Nat /\ sent[epoch] \in Seq(EntryType) /\ epoch \in Epochs
  BY <1>1 DEF TypeOK
<1>8. ASSUME NEW entry \in EntryType, Replays(entry, Replayed), Emit(entry), epoch' = epoch,
             entry.type = "snapshot" \/ HasSnapshot(epoch, Seq0) => entry.replay = transcript'
      PROVE  HasSnapshot(epoch, Seq0)' => Replayed' = transcript'
  BY <1>1, <1>8, EmitGrows, EmitFollows
<1>9. ASSUME NEW revision \in Nat, Emit(Snapshot(revision, transcript)), epoch' = epoch, transcript' = transcript
      PROVE  HasSnapshot(epoch, Seq0)' => Replayed' = transcript'
  <2>1. /\ Snapshot(revision, transcript) \in EntryType /\ Replays(Snapshot(revision, transcript), Replayed)
        /\ Snapshot(revision, transcript).replay = transcript'
    BY <1>1, <1>7, <1>9, EntriesTyped DEF Snapshot, Entry
  <2> QED BY <1>8, <1>9, <2>1
<1>10. ASSUME NEW revision \in {0, 1}, Open(revision)
       PROVE  ~held' /\ queued' = 0 /\ (HasSnapshot(epoch, Seq0)' => Replayed' = transcript')
  BY <1>6, <1>9, <1>10 DEF Open
<1>11. ASSUME EmitHello \/ Checkpoint
       PROVE  ~held' /\ queued' = 0 /\ (HasSnapshot(epoch, Seq0)' => Replayed' = transcript')
  BY <1>6, <1>11 DEF EmitHello, Checkpoint, hostVars, HasSnapshot, Seq0, Replayed
<1>12. ASSUME Announce
       PROVE  ~held' /\ queued' = 0 /\ (HasSnapshot(epoch, Seq0)' => Replayed' = transcript')
  <2>1. /\ Emit(Message(rev + 1)) /\ epoch' = epoch /\ transcript' = transcript + 1
        /\ held' = held /\ queued' = queued
    BY <1>6, <1>12 DEF Announce, TailFree
  <2>2. /\ Message(rev + 1) \in EntryType /\ Replays(Message(rev + 1), Replayed)
        /\ Message(rev + 1).type = "message" /\ Message(rev + 1).replay = Replayed + 1
    BY <1>1, <1>7, EntriesTyped DEF Message, Entry
  <2> QED BY <1>6, <1>8, <2>1, <2>2
<1>13. ASSUME SendSnapshot
       PROVE  ~held' /\ queued' = 0 /\ (HasSnapshot(epoch, Seq0)' => Replayed' = transcript')
  BY <1>6, <1>7, <1>9, <1>13 DEF SendSnapshot, hostVars
<1>14. ASSUME NEW running \in {0, 1}, AnnounceExecution(running)
       PROVE  ~held' /\ queued' = 0 /\ (HasSnapshot(epoch, Seq0)' => Replayed' = transcript')
  <2>1. Emit(Execution(rev, running)) /\ UNCHANGED <<epoch, transcript, held, queued>>
    BY <1>14 DEF AnnounceExecution, hostVars
  <2>2. /\ Execution(rev, running) \in EntryType /\ Replays(Execution(rev, running), Replayed)
        /\ Execution(rev, running).type = "execution" /\ Execution(rev, running).replay = Replayed
    BY <1>1, <1>7, EntriesTyped DEF Execution, Entry
  <2> QED BY <1>6, <1>8, <2>1, <2>2
<1>15. ASSUME NEW raised \in {0, 1}, EndExecution(raised)
       PROVE  ~held' /\ queued' = 0 /\ (HasSnapshot(epoch, Seq0)' => Replayed' = transcript')
  <2> DEFINE first == Execution(rev + raised, 0)
             second == Snapshot(rev + raised, transcript)
  <2>1. UNCHANGED <<epoch, transcript, held, queued>> BY <1>15 DEF EndExecution
  <2>2. sent'[epoch] = sent[epoch] \o <<first, second>>
    BY <1>1, <1>15 DEF EndExecution, TypeOK
  <2>3. second.replay = transcript BY DEF Snapshot, Entry
  <2> HIDE DEF first, second
  <2>4. Len(sent'[epoch]) = Len(sent[epoch]) + 2 /\ sent'[epoch][Len(sent[epoch]) + 2] = second
    BY <1>7, <2>2
  <2>5. Replayed' = transcript
    BY <1>7, <2>1, <2>3, <2>4 DEF Replayed, Seq0
  <2> QED BY <1>6, <2>1, <2>5
<1>16. ASSUME Restart
       PROVE  ~held' /\ queued' = 0 /\ (HasSnapshot(epoch, Seq0)' => Replayed' = transcript')
  <2>1. epoch' = epoch + 1 /\ sent' = sent /\ ~held' /\ queued' = 0 /\ epoch' \in Epochs /\ epoch' > epoch
    BY <1>1, <1>16, EpochAssumption DEF Restart, TypeOK, Epochs
  <2>2. sent'[epoch'] = <<>> BY <2>1 DEF StreamInv, NothingBeforeOpen
  <2> QED BY <2>1, <2>2 DEF HasSnapshot, Seq0
<1> QED BY <1>6, <1>10, <1>11, <1>12, <1>13, <1>14, <1>15, <1>16 DEF HostNext

\* The panel applies an envelope, a hello or a snapshot (applyEnvelope, hydrate), or waits.
LEMMA PanelKeepsTranscript ==
  ASSUME StreamInv, TranscriptFollows, PanelNext
  PROVE  TranscriptFollows'
<1>1. UNCHANGED <<epoch, transcript, held, queued, mutations, sent>>
  BY DEF PanelNext, ReceiveHello, Receive, Reopen, hostVars
<1>2. mutations' = 0 => ~held' /\ queued' = 0 /\ (HasSnapshot(epoch, Seq0)' => Replayed' = transcript')
  BY <1>1 DEF TranscriptFollows, HasSnapshot, Seq0, Replayed
<1>3. SUFFICES ASSUME channel'.sess.known, ~channel'.sess.stale
               PROVE  HasSnapshot(channel'.epoch, channel'.sess.seq)
  BY <1>1, <1>2 DEF TranscriptFollows, HasSnapshot
<1>4. channel \in [epoch : Epochs \cup {NoEpoch}, sess : SessionType]
  BY DEF StreamInv, TypeOK
<1>5. CASE \E hello \in hellos : ReceiveHello(hello)
  <2>1. PICK hello \in hellos : channel' = ReduceHello(channel, hello) BY <1>5 DEF ReceiveHello
  <2>2. hello.present \in BOOLEAN BY DEF StreamInv, TypeOK, HelloType
  <2>3. /\ channel.epoch = hello.epoch /\ channel.sess.known /\ ~channel.sess.stale
        /\ channel'.sess.seq = channel.sess.seq /\ channel'.epoch = hello.epoch
    BY <1>3, <1>4, <2>1, <2>2 DEF ReduceHello, EmptySession, Absent, SessionType
  <2> QED BY <2>3 DEF TranscriptFollows
<1>6. CASE \E ep \in Epochs : \E n \in DOMAIN sent[ep] : Receive(Envelope(ep, n))
  <2>1. PICK ep \in Epochs : \E n \in DOMAIN sent[ep] : Receive(Envelope(ep, n)) BY <1>6
  <2>2. PICK n \in DOMAIN sent[ep] : Receive(Envelope(ep, n)) BY <2>1
  <2> DEFINE e == Envelope(ep, n)
             reduction == ReduceSessionStream(channel, e)
             s == channel.sess
             applied == reduction.effect \in {"snapshot-applied", "resynced", "event-applied"}
  <2>3. /\ n \in Nat \ {0} /\ n \in 1..Len(sent[ep]) /\ e.epoch = ep /\ e.seq = n
        /\ e.type = sent[ep][n].type
    BY EnvelopeTyped DEF StreamInv
  <2>4. channel'.epoch = channel.epoch /\ channel'.sess = reduction.sess
    BY <1>4, <2>2 DEF Receive
  <2>5. /\ ~applied => reduction.sess = s \/ (reduction.sess.known /\ reduction.sess.stale)
        /\ applied => channel.epoch # NoEpoch /\ e.epoch = channel.epoch /\ reduction.sess.seq = e.seq
        /\ reduction.effect \in {"snapshot-applied", "resynced"} => e.type = "snapshot"
        /\ reduction.effect = "event-applied" =>
             /\ e.type # "snapshot" /\ (s.known => ~s.stale)
             /\ e.seq = (IF s.known THEN s.seq ELSE 0) + 1
    BY <1>4, ReductionCases
  <2> HIDE DEF e, reduction
  <2>6. CASE ~applied
    <3>1. channel'.sess = s BY <1>3, <2>4, <2>5, <2>6
    <3> QED BY <1>3, <2>4, <3>1 DEF TranscriptFollows
  <2>7. CASE reduction.effect \in {"snapshot-applied", "resynced"}
    <3>1. channel'.sess.seq = n /\ channel'.epoch = ep /\ sent[ep][n].type = "snapshot"
      BY <2>3, <2>4, <2>5, <2>7
    <3> QED BY <2>3, <3>1 DEF HasSnapshot
  <2>8. CASE reduction.effect = "event-applied"
    <3>1. channel.epoch = ep /\ channel.epoch # NoEpoch /\ channel'.sess.seq = n /\ e.type # "snapshot"
      BY <2>3, <2>4, <2>5, <2>8
    <3>2. s.known
      <4> SUFFICES ASSUME ~s.known PROVE FALSE OBVIOUS
      <4>1. n = 1 BY <2>3, <2>5, <2>8
      <4>2. OpensWithSnapshot(ep) BY <3>1 DEF StreamInv, UnknownOpens
      <4>3. sent[ep] # <<>> BY <2>3
      <4> QED BY <2>3, <3>1, <4>1, <4>2, <4>3 DEF OpensWithSnapshot
    <3>3. ~s.stale /\ n = s.seq + 1 /\ s.seq \in Nat
      BY <1>4, <2>3, <2>5, <2>8, <3>2 DEF SessionType
    <3>4. HasSnapshot(ep, s.seq) BY <3>1, <3>2, <3>3 DEF TranscriptFollows
    <3> QED BY <2>4, <3>1, <3>3, <3>4 DEF HasSnapshot
  <2> QED BY <2>6, <2>7, <2>8
<1>7. CASE Reopen
  BY <1>3, <1>7 DEF Reopen, NewChannel, Absent
<1> QED BY <1>5, <1>6, <1>7 DEF PanelNext

\* Every step keeps the panel's transcript a prefix of the host's.
LEMMA TranscriptKept ==
  ASSUME StreamInv, TranscriptFollows, [Next]_vars
  PROVE  TranscriptFollows'
<1>1. CASE UNCHANGED vars
  BY <1>1 DEF vars, TranscriptFollows, HasSnapshot, Seq0, Replayed
<1> QED BY <1>1, HostKeepsTranscript, PanelKeepsTranscript DEF Next

\* A panel that has all the host sent shows the session's transcript, each message once,
\* until a mutation has held the tail (RemoteAgentState, onAgentEvent), for streams of
\* any length and any number of documents.
THEOREM PanelShowsTranscript == Spec => []TranscriptMatches
<1>1. Init => TranscriptFollows
  <2> SUFFICES ASSUME Init PROVE TranscriptFollows OBVIOUS
  <2>1. ~channel.sess.known BY DEF Init, NewChannel, Absent
  <2>2. sent[epoch] = <<>> BY EpochAssumption DEF Init, Epochs
  <2> QED BY <2>1, <2>2 DEF Init, TranscriptFollows, HasSnapshot, Seq0
<1>2. StreamInv /\ TranscriptFollows /\ [Next]_vars => StreamInv' /\ TranscriptFollows'
  BY StreamInvKept, TranscriptKept
<1>3. StreamInv /\ TranscriptFollows => TranscriptMatches
  <2> SUFFICES ASSUME StreamInv, TranscriptFollows, channel.epoch = epoch, channel.sess.known, ~channel.sess.stale,
                      channel.sess.seq = Seq0, mutations = 0
               PROVE  view = transcript
    BY DEF TranscriptMatches
  <2>1. HasSnapshot(epoch, Seq0) /\ Replayed = transcript BY DEF TranscriptFollows
  <2>2. view = sent[epoch][Seq0].replay BY DEF StreamInv, ViewFollowsStream
  <2>3. Seq0 # 0 BY <2>1 DEF HasSnapshot
  <2> QED BY <2>1, <2>2, <2>3 DEF Replayed
<1> QED BY <1>1, <1>2, <1>3, InitStreamInv, PTL DEF Spec
=============================================================================
