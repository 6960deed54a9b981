--------------------------- MODULE RuntimeChannel ---------------------------
(***************************************************************************)
(* The reducer with which a side panel follows one agent session           *)
(* (packages/extension/src/agent/runtime-channel.ts, reduceRuntimeStream):  *)
(* pure operators, no state of their own.                                   *)
(*                                                                         *)
(* A channel is [epoch, sess]: the runtime epoch of the last hello and the  *)
(* session the panel follows.  An envelope is                               *)
(*   [type, epoch, present, rev, seq, body]                                 *)
(* where a hello carries the session's cursor (rev, seq) when `present`, a  *)
(* stream envelope its revision, its sequence number and its content.       *)
(* The scope (client, window, session) and the target of every envelope are *)
(* those of the channel, so the branches that reject a foreign scope or     *)
(* target are left out.                                                     *)
(***************************************************************************)
EXTENDS Naturals

NoEpoch == 0       \* runtimeEpoch undefined; epochs are numbered from 1
NoPrint == <<>>    \* lastEventFingerprint undefined

Absent == [known |-> FALSE, rev |-> 0, seq |-> 0, stale |-> FALSE, print |-> NoPrint]

EmptySession(rev, stale) == [Absent EXCEPT !.known = TRUE, !.rev = rev, !.stale = stale]

NewChannel == [epoch |-> NoEpoch, sess |-> Absent]

\* canonicalValue(envelope): equal for equal envelopes only
Fingerprint(e) == <<e.type, e.epoch, e.rev, e.seq, e.body>>

Hello(epoch, present, rev, seq) ==
  [type |-> "hello", epoch |-> epoch, present |-> present, rev |-> rev, seq |-> seq, body |-> 0]

Stream(type, epoch, rev, seq, body) ==
  [type |-> type, epoch |-> epoch, present |-> TRUE, rev |-> rev, seq |-> seq, body |-> body]

\* Mutant: a session of a new epoch is a new session.
ReduceHelloForgets(c, e) ==
  LET s == c.sess
      SameEpoch ==
        IF ~e.present THEN s
        ELSE IF ~s.known THEN EmptySession(0, TRUE)
        ELSE [s EXCEPT !.stale = @ \/ s.rev # e.rev \/ s.seq # e.seq]
  IN  [epoch |-> e.epoch,
       sess |-> IF c.epoch = e.epoch THEN SameEpoch
                ELSE IF e.present THEN EmptySession(e.rev, TRUE) ELSE Absent]

\* A hello of the known epoch only compares cursors; a hello of another epoch
\* restarts the sequence and keeps the revision the panel had seen.
ReduceHello(c, e) ==
  LET s == c.sess
      SameEpoch ==
        IF ~e.present THEN s
        ELSE IF ~s.known THEN EmptySession(0, TRUE)
        ELSE [s EXCEPT !.stale = @ \/ s.rev # e.rev \/ s.seq # e.seq]
      OtherEpoch ==
        IF s.known THEN [s EXCEPT !.seq = 0, !.stale = TRUE, !.print = NoPrint]
        ELSE IF e.present THEN EmptySession(e.rev, TRUE)
        ELSE Absent
  IN  [epoch |-> e.epoch, sess |-> IF c.epoch = e.epoch THEN SameEpoch ELSE OtherEpoch]

Applied(s, e) == [s EXCEPT !.rev = e.rev, !.seq = e.seq, !.print = Fingerprint(e)]

MarkStale(s) == [s EXCEPT !.stale = TRUE]

Outcome(s, effect) == [sess |-> s, effect |-> effect]

\* applySnapshot: its early returns, in the order of the code.
ApplySnapshot(s, e) ==
  LET current == s.known /\ ~s.stale /\ e.seq = s.seq IN
  IF current /\ s.print = Fingerprint(e)         THEN Outcome(s, "duplicate")
  ELSE IF current                          THEN Outcome(MarkStale(s), "sequence-conflict")
  ELSE IF s.known /\ e.seq < s.seq         THEN Outcome(s, "stale-sequence")
  ELSE IF s.known /\ e.rev < s.rev         THEN Outcome(MarkStale(s), "revision-regression")
  ELSE Outcome(Applied(EmptySession(0, FALSE), e),
               IF s.stale THEN "resynced" ELSE "snapshot-applied")

\* Mutant: any later envelope is taken for the next.
ApplyEventAfterGap(previous, e) ==
  LET s == IF previous.known THEN previous ELSE EmptySession(0, FALSE) IN
  IF s.stale               THEN Outcome(previous, "resync-pending")
  ELSE IF e.seq <= s.seq   THEN Outcome(previous, "stale-sequence")
  ELSE IF e.rev < s.rev    THEN Outcome(MarkStale(s), "revision-regression")
  ELSE Outcome(Applied(s, e), "event-applied")

\* reduceSessionStream after its snapshot branch: an envelope is applied only
\* when it is the very next one.  (No host sends a resync-required envelope.)
ApplyEvent(previous, e) ==
  LET s == IF previous.known THEN previous ELSE EmptySession(0, FALSE) IN
  IF s.stale                                     THEN Outcome(previous, "resync-pending")
  ELSE IF e.seq = s.seq /\ s.print = Fingerprint(e)    THEN Outcome(previous, "duplicate")
  ELSE IF e.seq = s.seq                          THEN Outcome(MarkStale(s), "sequence-conflict")
  ELSE IF e.seq < s.seq                          THEN Outcome(previous, "stale-sequence")
  ELSE IF e.seq # s.seq + 1                      THEN Outcome(MarkStale(s), "sequence-gap")
  ELSE IF e.rev < s.rev                          THEN Outcome(MarkStale(s), "revision-regression")
  ELSE Outcome(Applied(s, e), "event-applied")

ReduceSessionStream(c, e) ==
  IF c.epoch = NoEpoch          THEN Outcome(c.sess, "hello-required")
  ELSE IF e.epoch # c.epoch     THEN Outcome(c.sess, "stale-epoch")
  ELSE IF e.type = "snapshot"   THEN ApplySnapshot(c.sess, e)
  ELSE ApplyEvent(c.sess, e)

\* The effects that make RemoteSessionClient.receive ask for a resync.
RequiresResync(effect) ==
  effect \in {"sequence-gap", "sequence-conflict", "revision-regression", "resync-pending", "stale-epoch"}
=============================================================================
