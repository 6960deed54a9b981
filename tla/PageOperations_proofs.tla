------------------------ MODULE PageOperations_proofs ------------------------
(***************************************************************************)
(* Proof that no operation acts on a page unattended, for any number of        *)
(* executions, operations, snapshots and ends of the worker.                   *)
(*                                                                         *)
(* A call that was sent is attended while its caller waits and, until its       *)
(* execution is aborted, nothing on the way can make the worker forget that        *)
(* execution; an abort appends a cancellation, behind messages that are harmless   *)
(* for the same reason, so that the cancellation is still admitted when it arrives. *)
(***************************************************************************)
EXTENDS PageOperations, FiniteSetTheorems, TLAPS

-----------------------------------------------------------------------------
(* The inductive invariant *)

Messages ==
  [type : {"operation", "cancel"}, call : PageCalls]
    \cup [type : {"answer"}, execution : PageExecutions]
    \cup [type : {"snapshot"}, executions : SUBSET PageExecutions]
    \cup [type : {"released"}]
    \cup [type : {"hello", "recovered"}, worker : Nat]

PageTypeOK ==
  /\ execution \in [PageExecutions -> {"none", "runs", "stopping", "over"}]
  /\ pageCall \in [PageCalls -> [stage : {"none", "made", "sent", "dropped", "settled"},
                                 parent : 0..MaxPageExecutions]]
  /\ toWorker \in Seq(Messages)
  /\ awaiting \in Seq(Messages) /\ \A i \in 1..Len(awaiting) : IsControl(awaiting[i])
  /\ pageWorker \in {"up", "down", "starting"}
  /\ forwarding \subseteq PageExecutions /\ shown \subseteq PageExecutions
  /\ sessionKnown \in BOOLEAN /\ released \in BOOLEAN
  /\ delegate \in [PageCalls -> Acts \cup {"none", "ended", "lost"}]
  /\ signalled \subseteq PageCalls
  /\ pageEnds \in Nat /\ pageSnapshots \in Nat

\* A message that leaves the worker knowing the execution.
Harmless(e, m) ==
  /\ m # AnswerOf(e) /\ m.type # "released"
  /\ m.type = "snapshot" => e \in m.executions

\* Behind position i a cancellation comes, and before it only what is harmless.
CancelFollows(c, i) ==
  \E q \in (i + 1)..Len(toWorker) :
    /\ toWorker[q] = CancelOf(c)
    /\ \A j \in (i + 1)..(q - 1) : Harmless(pageCall[c].parent, toWorker[j])

\* The caller waits, and nothing behind position i hurts what it runs in.
Unhurt(c, i) ==
  /\ pageCall[c].stage = "sent"
  /\ execution[pageCall[c].parent] = "runs" =>
       \A j \in (i + 1)..Len(toWorker) : Harmless(pageCall[c].parent, toWorker[j])

Attended(c, i) == Unhurt(c, i) \/ CancelFollows(c, i)

QueuedAttended ==
  \A c \in PageCalls, i \in 1..Len(toWorker) : toWorker[i] = OperationOf(c) => Attended(c, i)

AwaitingAttended ==
  \A c \in PageCalls, i \in 1..Len(awaiting) : awaiting[i] = OperationOf(c) =>
    Attended(c, 0) \/ \E q \in (i + 1)..Len(awaiting) : awaiting[q] = CancelOf(c)

CancelAwaits(c) == \E q \in 1..Len(awaiting) : awaiting[q] = CancelOf(c)

ActingAttended ==
  \A c \in PageCalls : delegate[c] \in Acts /\ c \notin signalled =>
    \/ pageCall[c].stage = "sent" /\ execution[pageCall[c].parent] # "runs"
    \/ Admitted(c) /\ (Attended(c, 0) \/ CancelAwaits(c))

\* Only an initialized worker acts.
ActsOnlyUp == pageWorker # "up" => \A c \in PageCalls : delegate[c] \notin Acts

\* An execution has begun before its calls; after a release none runs.
ParentsBegun ==
  /\ \A c \in PageCalls : pageCall[c].stage # "none" =>
       pageCall[c].parent \in PageExecutions /\ execution[pageCall[c].parent] # "none"
  /\ released => \A e \in PageExecutions : execution[e] # "runs"

NotSent(c) == pageCall[c].stage \in {"none", "made", "dropped"}
Queued(c)  == \E i \in 1..Len(toWorker) : toWorker[i] = OperationOf(c)
Awaited(c) == \E i \in 1..Len(awaiting) : awaiting[i] = OperationOf(c)

\* An operation is sent once, and on its way once.
OnceOnly ==
  /\ \A c \in PageCalls : Queued(c) \/ Awaited(c) => ~NotSent(c) /\ delegate[c] = "none"
  /\ \A c \in PageCalls : ~(Queued(c) /\ Awaited(c))
  /\ \A c \in PageCalls : NotSent(c) => delegate[c] = "none"
  /\ \A c \in PageCalls, i, j \in 1..Len(toWorker) :
       toWorker[i] = OperationOf(c) /\ toWorker[j] = OperationOf(c) => i = j
  /\ \A c \in PageCalls, i, j \in 1..Len(awaiting) :
       awaiting[i] = OperationOf(c) /\ awaiting[j] = OperationOf(c) => i = j

PageInv ==
  /\ PageTypeOK /\ QueuedAttended /\ AwaitingAttended /\ ActingAttended
  /\ ActsOnlyUp /\ ParentsBegun /\ OnceOnly

-----------------------------------------------------------------------------
(* The messages *)

\* The bounds are numbers.
LEMMA BoundsNat ==
  /\ MaxPageExecutions \in Nat /\ MaxPageCalls \in Nat
  /\ MaxPageSnapshots \in Nat /\ MaxPageEnds \in Nat
BY PageAssumption

\* What the document sends are messages.
LEMMA MessagesTyped ==
  /\ \A c \in PageCalls : OperationOf(c) \in Messages /\ CancelOf(c) \in Messages
  /\ \A e \in PageExecutions : AnswerOf(e) \in Messages
  /\ \A es \in SUBSET PageExecutions : SnapshotOf(es) \in Messages
  /\ ReleasedMessage \in Messages
  /\ \A n \in Nat : HelloFor(n) \in Messages /\ RecoveredFor(n) \in Messages
BY DEF Messages, OperationOf, CancelOf, AnswerOf, SnapshotOf, ReleasedMessage, HelloFor, RecoveredFor

\* A message that asks for a call is none of the others.
LEMMA MessagesDiffer ==
  /\ \A c, d \in PageCalls : CancelOf(c) # OperationOf(d)
  /\ \A c, d \in PageCalls : OperationOf(c) = OperationOf(d) => c = d
  /\ \A c \in PageCalls, e \in PageExecutions : AnswerOf(e) # OperationOf(c)
  /\ \A c \in PageCalls : \A es : SnapshotOf(es) # OperationOf(c)
  /\ \A c \in PageCalls : ReleasedMessage # OperationOf(c)
  /\ \A c \in PageCalls : \A n : HelloFor(n) # OperationOf(c) /\ RecoveredFor(n) # OperationOf(c)
BY DEF OperationOf, CancelOf, AnswerOf, SnapshotOf, ReleasedMessage, HelloFor, RecoveredFor

\* Which messages say nothing of the end of an execution.
LEMMA MessagesHarmless ==
  /\ \A e, c : Harmless(e, CancelOf(c)) /\ Harmless(e, OperationOf(c))
  /\ \A e, d : e # d => Harmless(e, AnswerOf(d))
  /\ \A e, es : e \in es => Harmless(e, SnapshotOf(es))
  /\ \A e, n : Harmless(e, HelloFor(n)) /\ Harmless(e, RecoveredFor(n))
BY DEF Harmless, OperationOf, CancelOf, AnswerOf, SnapshotOf, ReleasedMessage, HelloFor, RecoveredFor

\* A set of cancellations, as a sequence.
LEMMA SequenceOfSet ==
  ASSUME NEW S, IsFiniteSet(S)
  PROVE  /\ SetToSeq(S) \in Seq(S)
         /\ \A x \in S : \E k \in 1..Len(SetToSeq(S)) : SetToSeq(S)[k] = x
<1> DEFINE n == Cardinality(S)
           f == SetToSeq(S)
<1>1. n \in Nat /\ ExistsBijection(1..n, S) BY FS_CardinalityType
<1>2. PICK g \in Bijection(1..n, S) : TRUE BY <1>1, SMT DEF ExistsBijection
<1>3. g \in [1..n -> S] /\ IsInjective(g) BY <1>2, SMT DEF Bijection, Injection, IsInjective
<1>4. f \in [1..n -> S] /\ IsInjective(f) BY <1>3 DEF SetToSeq
<1>5. f \in Injection(1..n, S) BY <1>4 DEF Injection
<1>6. IsFiniteSet(1..n) /\ Cardinality(1..n) = n BY <1>1, FS_Interval
<1>7. f \in Surjection(1..n, S) BY <1>5, <1>6, FS_Injection
<1>8. f \in Seq(S) /\ Len(f) = n BY <1>1, <1>4
<1> QED BY <1>7, <1>8 DEF Surjection

\* The cancellations of some calls are finitely many.
LEMMA CancellationsFinite ==
  ASSUME NEW es PROVE IsFiniteSet(Cancellations(es))
<1> DEFINE S == Cancellations(es)
           f == [m \in S |-> m.call]
<1>1. \A m \in S : m.call \in PageCalls /\ m = CancelOf(m.call) BY DEF Cancellations, CancelOf
<1>2. f \in Injection(S, PageCalls)
  <2>1. f \in [S -> PageCalls] BY <1>1
  <2>2. \A a, b \in S : f[a] = f[b] => a = b BY <1>1
  <2> QED BY <2>1, <2>2 DEF Injection, IsInjective
<1>3. IsFiniteSet(PageCalls) BY BoundsNat, FS_Interval DEF PageCalls
<1> QED BY <1>2, <1>3, FS_Injection

\* An abort sends a cancellation for every call that was sent, and nothing else.
LEMMA CancellationsSent ==
  ASSUME NEW es
  PROVE  LET ms == SetToSeq(Cancellations(es)) IN
         /\ ms \in Seq(Messages)
         /\ \A k \in 1..Len(ms) : \E c \in PageCalls : ms[k] = CancelOf(c)
         /\ \A c \in PageCalls : pageCall[c].parent \in es /\ pageCall[c].stage = "sent" =>
              \E k \in 1..Len(ms) : ms[k] = CancelOf(c)
<1> DEFINE S == Cancellations(es)
           ms == SetToSeq(S)
<1>1. ms \in Seq(S) /\ \A x \in S : \E k \in 1..Len(ms) : ms[k] = x
  BY CancellationsFinite, SequenceOfSet
<1>2. \A x \in S : x \in Messages /\ \E c \in PageCalls : x = CancelOf(c)
  BY MessagesTyped DEF Cancellations
<1>3. \A c \in PageCalls : pageCall[c].parent \in es /\ pageCall[c].stage = "sent" => CancelOf(c) \in S
  BY DEF Cancellations
<1>4. ms \in Seq(Messages)
  <2> HIDE DEF ms, S
  <2>1. Len(ms) \in Nat /\ ms \in [1..Len(ms) -> S] BY <1>1
  <2>2. ms \in [1..Len(ms) -> Messages] BY <2>1, <1>2
  <2> QED BY <2>1, <2>2
<1>5. \A k \in 1..Len(ms) : ms[k] \in S
  <2> HIDE DEF ms, S
  <2> QED BY <1>1
<1> HIDE DEF ms, S
<1>6. \A k \in 1..Len(ms) : \E c \in PageCalls : ms[k] = CancelOf(c) BY <1>2, <1>5
<1>7. \A c \in PageCalls : pageCall[c].parent \in es /\ pageCall[c].stage = "sent" =>
              \E k \in 1..Len(ms) : ms[k] = CancelOf(c) BY <1>1, <1>3
<1> QED BY <1>4, <1>6, <1>7 DEF ms, S

\* What the worker is sent comes after what it was sent.
LEMMA Appended ==
  ASSUME toWorker \in Seq(Messages), NEW ms \in Seq(Messages), toWorker' = toWorker \o ms
  PROVE  /\ toWorker' \in Seq(Messages)
         /\ Len(toWorker') = Len(toWorker) + Len(ms)
         /\ \A j \in 1..Len(toWorker) : toWorker'[j] = toWorker[j]
         /\ \A j \in 1..Len(ms) : toWorker'[Len(toWorker) + j] = ms[j]
         /\ \A j \in (Len(toWorker) + 1)..Len(toWorker') :
              j - Len(toWorker) \in 1..Len(ms) /\ toWorker'[j] = ms[j - Len(toWorker)]
OBVIOUS

\* What a step does to a call of an execution that the messages it appends do not
\* hurt, and to one that is being cancelled.
Spared(c, ms) ==
  /\ (pageCall[c].stage)' = "sent"
  /\ execution'[pageCall[c].parent] = "runs" =>
       /\ execution[pageCall[c].parent] = "runs"
       /\ \A k \in 1..Len(ms) : Harmless(pageCall[c].parent, ms[k])
BeingCancelled(c, ms) ==
  /\ execution[pageCall[c].parent] = "runs"
  /\ \E k \in 1..Len(ms) : ms[k] = CancelOf(c) /\ \A j \in 1..(k - 1) : Harmless(pageCall[c].parent, ms[j])
Idle(c) == delegate[c] \notin Acts /\ ~Queued(c) /\ ~Awaited(c)
Serves(c, ms) ==
  \/ Idle(c)
  \/ /\ pageCall'[c].parent = pageCall[c].parent
     /\ pageCall[c].stage = "sent" => Spared(c, ms) \/ BeingCancelled(c, ms)

\* A call that is attended stays so, when its cancellation is sent with what ends its execution.
LEMMA AttendedKept ==
  ASSUME toWorker \in Seq(Messages), NEW ms \in Seq(Messages), toWorker' = toWorker \o ms,
         NEW c \in PageCalls, pageCall'[c].parent = pageCall[c].parent,
         pageCall[c].stage = "sent" => Spared(c, ms) \/ BeingCancelled(c, ms),
         NEW i \in 0..Len(toWorker), Attended(c, i)
  PROVE  Attended(c, i)'
<1> DEFINE e == pageCall[c].parent
<1>1. /\ toWorker' \in Seq(Messages)
      /\ Len(toWorker') = Len(toWorker) + Len(ms)
      /\ \A j \in 1..Len(toWorker) : toWorker'[j] = toWorker[j]
      /\ \A j \in 1..Len(ms) : toWorker'[Len(toWorker) + j] = ms[j]
      /\ \A j \in (Len(toWorker) + 1)..Len(toWorker') :
              j - Len(toWorker) \in 1..Len(ms) /\ toWorker'[j] = ms[j - Len(toWorker)]
  BY Appended
<1>2. Len(toWorker) \in Nat /\ Len(ms) \in Nat OBVIOUS
<1>3. CASE CancelFollows(c, i)
  <2>1. PICK q \in (i + 1)..Len(toWorker) :
          toWorker[q] = CancelOf(c) /\ \A j \in (i + 1)..(q - 1) : Harmless(e, toWorker[j])
    BY <1>3 DEF CancelFollows
  <2>2. q \in (i + 1)..Len(toWorker') /\ toWorker'[q] = CancelOf(c) BY <1>1, <1>2, <2>1
  <2>3. \A j \in (i + 1)..(q - 1) : Harmless(e, toWorker'[j])
    <3>1. \A j \in (i + 1)..(q - 1) : j \in 1..Len(toWorker) BY <1>2, <2>1
    <3> QED BY <1>1, <2>1, <3>1
  <2>4. CancelFollows(c, i)'
    <3>1. (pageCall[c].parent)' = e OBVIOUS
    <3> QED BY <2>2, <2>3, <3>1 DEF CancelFollows, CancelOf, Harmless, AnswerOf
  <2> QED BY <2>4 DEF Attended
<1>4. CASE Unhurt(c, i) /\ Spared(c, ms)
  <2>1. SUFFICES ASSUME execution'[e] = "runs", NEW j \in (i + 1)..Len(toWorker')
                 PROVE  Harmless(e, toWorker'[j])
    BY <1>4 DEF Unhurt, Spared, Attended, Harmless, AnswerOf
  <2>2. CASE j \in (i + 1)..Len(toWorker)
    <3>1. Harmless(e, toWorker[j]) BY <1>4, <2>1, <2>2 DEF Unhurt, Spared
    <3> QED BY <1>1, <1>2, <2>2, <3>1
  <2>3. CASE j \in (Len(toWorker) + 1)..Len(toWorker')
    <3>1. j - Len(toWorker) \in 1..Len(ms) /\ toWorker'[j] = ms[j - Len(toWorker)] BY <1>1, <2>3
    <3>2. Harmless(e, ms[j - Len(toWorker)]) BY <1>4, <2>1, <3>1 DEF Spared
    <3> QED BY <3>1, <3>2
  <2> QED BY <1>1, <1>2, <2>1, <2>2, <2>3
<1>5. CASE Unhurt(c, i) /\ BeingCancelled(c, ms)
  <2>1. PICK k \in 1..Len(ms) : ms[k] = CancelOf(c) /\ \A j \in 1..(k - 1) : Harmless(e, ms[j])
    BY <1>5 DEF BeingCancelled
  <2>2. Len(toWorker) + k \in (i + 1)..Len(toWorker') /\ toWorker'[Len(toWorker) + k] = CancelOf(c)
    BY <1>1, <1>2, <2>1
  <2>3. ASSUME NEW j \in (i + 1)..(Len(toWorker) + k - 1) PROVE Harmless(e, toWorker'[j])
    <3>1. CASE j \in (i + 1)..Len(toWorker)
      <4>1. Harmless(e, toWorker[j]) BY <1>5, <3>1 DEF Unhurt, BeingCancelled
      <4> QED BY <1>1, <1>2, <3>1, <4>1
    <3>2. CASE j \in (Len(toWorker) + 1)..Len(toWorker')
      <4>1. toWorker'[j] = ms[j - Len(toWorker)] /\ j - Len(toWorker) \in 1..(k - 1) BY <1>1, <1>2, <2>1, <2>3, <3>2
      <4> QED BY <2>1, <4>1
    <3> QED BY <1>1, <1>2, <2>1, <2>3, <3>1, <3>2
  <2>4. (pageCall[c].parent)' = e OBVIOUS
  <2>5. \E q \in (i + 1)..Len(toWorker') :
          toWorker'[q] = CancelOf(c) /\ \A j \in (i + 1)..(q - 1) : Harmless(e, toWorker'[j])
    <3>1. \A j \in (i + 1)..((Len(toWorker) + k) - 1) : Harmless(e, toWorker'[j])
      <4> HIDE DEF e
      <4> QED BY <2>3
    <3> HIDE DEF e
    <3> WITNESS Len(toWorker) + k \in (i + 1)..Len(toWorker')
    <3> QED BY <2>2, <3>1
  <2>6. CancelFollows(c, i)' BY <2>4, <2>5 DEF CancelFollows, CancelOf, Harmless, AnswerOf
  <2> QED BY <2>6 DEF Attended
<1> QED BY <1>3, <1>4, <1>5 DEF Attended, Unhurt

\* Sending keeps every queued, awaiting and acting call attended.
LEMMA KeptByAppending ==
  ASSUME PageInv, NEW ms \in Seq(Messages), toWorker' = toWorker \o ms,
         UNCHANGED <<awaiting, delegate, signalled, sessionKnown, shown>>, forwarding \subseteq forwarding',
         \A c \in PageCalls : Serves(c, ms),
         \A c \in PageCalls, i \in (Len(toWorker) + 1)..Len(toWorker') :
           ms[i - Len(toWorker)] = OperationOf(c) => Attended(c, i)'
  PROVE  QueuedAttended' /\ AwaitingAttended' /\ ActingAttended'
<1>1. toWorker \in Seq(Messages) /\ awaiting \in Seq(Messages)
      /\ Len(toWorker) \in Nat /\ Len(awaiting) \in Nat /\ Len(ms) \in Nat
  BY DEF PageInv, PageTypeOK
<1>2. /\ Len(toWorker') = Len(toWorker) + Len(ms)
      /\ \A j \in 1..Len(toWorker) : toWorker'[j] = toWorker[j]
      /\ \A j \in (Len(toWorker) + 1)..Len(toWorker') :
              j - Len(toWorker) \in 1..Len(ms) /\ toWorker'[j] = ms[j - Len(toWorker)]
  BY <1>1, Appended
<1>3. ASSUME NEW c \in PageCalls, ~Idle(c), NEW i \in 0..Len(toWorker), Attended(c, i)
      PROVE  Attended(c, i)'
  BY <1>1, <1>3, AttendedKept DEF Serves
<1>4. QueuedAttended'
  <2>1. SUFFICES ASSUME NEW c \in PageCalls, NEW i \in 1..Len(toWorker'), toWorker'[i] = OperationOf(c)
                 PROVE  Attended(c, i)'
    BY DEF QueuedAttended, OperationOf
  <2>2. CASE i \in 1..Len(toWorker)
    <3>1. toWorker[i] = OperationOf(c) BY <1>2, <2>1, <2>2
    <3>2. Attended(c, i) BY <2>2, <3>1 DEF PageInv, QueuedAttended
    <3>3. ~Idle(c) BY <2>2, <3>1 DEF Idle, Queued
    <3> QED BY <1>1, <1>3, <2>2, <3>2, <3>3
  <2>3. CASE i \in (Len(toWorker) + 1)..Len(toWorker')
    <3>1. i - Len(toWorker) \in 1..Len(ms) /\ ms[i - Len(toWorker)] = OperationOf(c) BY <1>2, <2>1, <2>3
    <3> QED BY <2>3, <3>1
  <2> QED BY <1>1, <1>2, <2>2, <2>3
<1>5. AwaitingAttended'
  <2>1. SUFFICES ASSUME NEW c \in PageCalls, NEW i \in 1..Len(awaiting), awaiting[i] = OperationOf(c),
                        ~ \E q \in (i + 1)..Len(awaiting) : awaiting[q] = CancelOf(c)
                 PROVE  Attended(c, 0)'
    BY DEF AwaitingAttended, OperationOf, CancelOf
  <2>2. Attended(c, 0) BY <2>1 DEF PageInv, AwaitingAttended
  <2>3. ~Idle(c) BY <2>1 DEF Idle, Awaited
  <2> QED BY <1>1, <1>3, <2>2, <2>3
<1>6. ActingAttended'
  <2>1. SUFFICES ASSUME NEW c \in PageCalls, delegate[c] \in Acts, c \notin signalled
                 PROVE  \/ (pageCall[c].stage = "sent" /\ execution[pageCall[c].parent] # "runs")'
                        \/ Admitted(c)' /\ (Attended(c, 0)' \/ CancelAwaits(c)')
    BY DEF ActingAttended, Acts
  <2>2. ~Idle(c) BY <2>1 DEF Idle
  <2>3. \/ pageCall[c].stage = "sent" /\ execution[pageCall[c].parent] # "runs"
        \/ Admitted(c) /\ (Attended(c, 0) \/ CancelAwaits(c))
    BY <2>1 DEF PageInv, ActingAttended
  <2>4. (pageCall[c].parent)' = pageCall[c].parent BY <2>2 DEF Serves
  <2>5. CASE pageCall[c].stage = "sent" /\ execution[pageCall[c].parent] # "runs"
    <3>1. Spared(c, ms) BY <2>2, <2>5 DEF Serves, BeingCancelled
    <3> QED BY <2>4, <2>5, <3>1 DEF Spared
  <2>6. CASE Admitted(c) /\ (Attended(c, 0) \/ CancelAwaits(c))
    <3>1. Admitted(c)' BY <2>4, <2>6 DEF Admitted
    <3>2. CancelAwaits(c) => CancelAwaits(c)' BY DEF CancelAwaits, CancelOf
    <3>3. Attended(c, 0) => Attended(c, 0)' BY <1>1, <1>3, <2>2
    <3> QED BY <2>6, <3>1, <3>2, <3>3
  <2> QED BY <2>3, <2>5, <2>6
<1> QED BY <1>4, <1>5, <1>6

\* No operation among what is appended, and none that was sent is unsent.
LEMMA OnceKept ==
  ASSUME PageInv, NEW ms \in Seq(Messages), toWorker' = toWorker \o ms, UNCHANGED <<awaiting, delegate>>,
         \A c \in PageCalls, k \in 1..Len(ms) : ms[k] # OperationOf(c),
         \A c \in PageCalls : NotSent(c)' => NotSent(c)
  PROVE  OnceOnly'
<1>1. toWorker \in Seq(Messages) /\ Len(toWorker) \in Nat /\ Len(ms) \in Nat
  BY DEF PageInv, PageTypeOK
<1>2. /\ Len(toWorker') = Len(toWorker) + Len(ms)
      /\ \A j \in 1..Len(toWorker) : toWorker'[j] = toWorker[j]
      /\ \A j \in (Len(toWorker) + 1)..Len(toWorker') :
              j - Len(toWorker) \in 1..Len(ms) /\ toWorker'[j] = ms[j - Len(toWorker)]
  BY <1>1, Appended
<1>3. \A c \in PageCalls, j \in 1..Len(toWorker') : toWorker'[j] = OperationOf(c) =>
        j \in 1..Len(toWorker) /\ toWorker[j] = OperationOf(c)
  BY <1>1, <1>2
<1>4. \A c \in PageCalls : (Queued(c)' => Queued(c)) /\ (Awaited(c)' <=> Awaited(c))
  BY <1>3 DEF Queued, Awaited, OperationOf
<1>5. OnceOnly BY DEF PageInv
<1>6. \A c \in PageCalls : /\ Queued(c)' \/ Awaited(c)' => ~NotSent(c)' /\ delegate'[c] = "none"
                           /\ ~(Queued(c)' /\ Awaited(c)')
                           /\ NotSent(c)' => delegate'[c] = "none"
  BY <1>4, <1>5 DEF OnceOnly
<1>7. \A c \in PageCalls, i, j \in 1..Len(toWorker') :
       toWorker'[i] = OperationOf(c) /\ toWorker'[j] = OperationOf(c) => i = j
  BY <1>3, <1>5 DEF OnceOnly
<1>8. \A c \in PageCalls, i, j \in 1..Len(awaiting') :
       awaiting'[i] = OperationOf(c) /\ awaiting'[j] = OperationOf(c) => i = j
  BY <1>5 DEF OnceOnly
<1> QED BY <1>6, <1>7, <1>8 DEF OnceOnly, OperationOf

-----------------------------------------------------------------------------
(* The steps of the document *)

\* A call that was not sent has no operation.
LEMMA NotSentIsIdle ==
  ASSUME PageInv, NEW c \in PageCalls, NotSent(c)
  PROVE  Idle(c)
BY DEF PageInv, OnceOnly, Idle, Acts

\* A step of the document that only sends keeps the invariant.
LEMMA AppendingKeeps ==
  ASSUME PageInv, NEW ms \in Seq(Messages), toWorker' = toWorker \o ms,
         UNCHANGED <<pageWorker, awaiting, knowledge, operationSide, pageEnds>>,
         \A c \in PageCalls : Serves(c, ms),
         \A c \in PageCalls, k \in 1..Len(ms) : ms[k] # OperationOf(c),
         \A c \in PageCalls : NotSent(c)' => NotSent(c),
         execution' \in [PageExecutions -> {"none", "runs", "stopping", "over"}],
         pageCall' \in [PageCalls -> [stage : {"none", "made", "sent", "dropped", "settled"},
                                      parent : 0..MaxPageExecutions]],
         released' \in BOOLEAN, pageSnapshots' \in Nat, ParentsBegun'
  PROVE  PageInv'
<1>1. PageTypeOK'
  <2>1. toWorker' \in Seq(Messages) BY Appended DEF PageInv, PageTypeOK
  <2> QED BY <2>1 DEF PageInv, PageTypeOK, knowledge, operationSide, IsControl, Acts
<1>2. QueuedAttended' /\ AwaitingAttended' /\ ActingAttended'
  <2>1. \A c \in PageCalls, i \in (Len(toWorker) + 1)..Len(toWorker') :
           ms[i - Len(toWorker)] # OperationOf(c)
    BY Appended DEF PageInv, PageTypeOK
  <2> QED BY <2>1, KeptByAppending DEF knowledge, operationSide
<1>3. ActsOnlyUp' BY DEF PageInv, ActsOnlyUp, operationSide, Acts
<1>4. OnceOnly' BY OnceKept DEF operationSide
<1> QED BY <1>1, <1>2, <1>3, <1>4 DEF PageInv

\* Nothing is appended.
LEMMA NothingAppendedKeeps ==
  ASSUME PageInv, UNCHANGED <<execution, toWorker, released, pageSnapshots>>,
         UNCHANGED <<pageWorker, awaiting, knowledge, operationSide, pageEnds>>,
         NEW c \in PageCalls, Idle(c),
         \A d \in PageCalls : d # c => pageCall'[d] = pageCall[d],
         NotSent(c)' => NotSent(c),
         pageCall' \in [PageCalls -> [stage : {"none", "made", "sent", "dropped", "settled"},
                                      parent : 0..MaxPageExecutions]],
         ParentsBegun'
  PROVE  PageInv'
<1> DEFINE ms == << >>
<1>1. ms \in Seq(Messages) /\ Len(ms) = 0 /\ toWorker' = toWorker \o ms
  BY DEF PageInv, PageTypeOK
<1>2. 1..Len(ms) = {} BY <1>1
<1> HIDE DEF ms
<1>3. ASSUME NEW d \in PageCalls PROVE Serves(d, ms)
  <2>1. CASE d = c BY <2>1 DEF Serves
  <2>2. CASE d # c
    <3>1. pageCall'[d] = pageCall[d] BY <2>2
    <3>2. pageCall[d].stage = "sent" => Spared(d, ms) BY <1>2, <3>1 DEF Spared
    <3> QED BY <3>1, <3>2 DEF Serves
  <2> QED BY <2>1, <2>2
<1>4. \A d \in PageCalls : NotSent(d)' => NotSent(d) BY DEF NotSent
<1>5. \A d \in PageCalls, k \in 1..Len(ms) : ms[k] # OperationOf(d) BY <1>2
<1>6. /\ execution' \in [PageExecutions -> {"none", "runs", "stopping", "over"}]
      /\ released' \in BOOLEAN /\ pageSnapshots' \in Nat
  BY DEF PageInv, PageTypeOK
<1> QED BY <1>1, <1>3, <1>4, <1>5, <1>6, AppendingKeeps

\* A tool makes a call.
LEMMA CallMadeKeeps ==
  ASSUME PageInv, NEW c \in PageCalls, NEW e \in PageExecutions, CallMade(c, e),
         UNCHANGED <<pageWorker, awaiting, knowledge, operationSide, pageEnds>>
  PROVE  PageInv'
<1>1. /\ pageCall[c].stage = "none" /\ execution[e] = "runs"
      /\ pageCall' = [pageCall EXCEPT ![c] = [stage |-> "made", parent |-> e]]
      /\ UNCHANGED <<execution, toWorker, released, pageSnapshots>>
  BY DEF CallMade
<1>2. Idle(c) BY <1>1, NotSentIsIdle DEF NotSent
<1>3. e \in 0..MaxPageExecutions BY BoundsNat DEF PageExecutions
<1>4. pageCall' \in [PageCalls -> [stage : {"none", "made", "sent", "dropped", "settled"},
                                   parent : 0..MaxPageExecutions]]
  BY <1>1, <1>3 DEF PageInv, PageTypeOK
<1>5. NotSent(c)' => NotSent(c)
  BY <1>1 DEF PageInv, PageTypeOK, NotSent
<1>6. ParentsBegun'
  BY <1>1 DEF PageInv, PageTypeOK, ParentsBegun
<1>7. \A d \in PageCalls : d # c => pageCall'[d] = pageCall[d]
  BY <1>1 DEF PageInv, PageTypeOK
<1> QED BY <1>1, <1>2, <1>4, <1>5, <1>6, <1>7, NothingAppendedKeeps

\* A call is answered.
LEMMA CallAnsweredKeeps ==
  ASSUME PageInv, NEW c \in PageCalls, CallAnswered(c),
         UNCHANGED <<pageWorker, awaiting, knowledge, operationSide, pageEnds>>
  PROVE  PageInv'
<1>1. /\ pageCall[c].stage = "sent" /\ delegate[c] \in {"ended", "lost"}
      /\ pageCall' = [pageCall EXCEPT ![c].stage = "settled"]
      /\ UNCHANGED <<execution, toWorker, released, pageSnapshots>>
  BY DEF CallAnswered
<1>2. Idle(c) BY <1>1 DEF PageInv, OnceOnly, Idle, Acts
<1>4. pageCall' \in [PageCalls -> [stage : {"none", "made", "sent", "dropped", "settled"},
                                   parent : 0..MaxPageExecutions]]
  BY <1>1 DEF PageInv, PageTypeOK
<1>5. NotSent(c)' => NotSent(c)
  BY <1>1 DEF PageInv, PageTypeOK, NotSent
<1>6. ParentsBegun'
  BY <1>1 DEF PageInv, PageTypeOK, ParentsBegun
<1>7. \A d \in PageCalls : d # c => pageCall'[d] = pageCall[d]
  BY <1>1 DEF PageInv, PageTypeOK
<1> QED BY <1>1, <1>2, <1>4, <1>5, <1>6, <1>7, NothingAppendedKeeps

\* A call is sent: its execution is not over.
LEMMA CallSentKeeps ==
  ASSUME PageInv, NEW c \in PageCalls, CallSent(c),
         UNCHANGED <<pageWorker, awaiting, knowledge, operationSide, pageEnds>>
  PROVE  PageInv'
<1> DEFINE ms == <<OperationOf(c)>>
<1>1. /\ pageCall[c].stage = "made"
      /\ pageCall' = [pageCall EXCEPT ![c].stage = "sent"]
      /\ toWorker' = toWorker \o ms
      /\ UNCHANGED <<execution, released, pageSnapshots>>
  BY DEF CallSent, Sends
<1>2. ms \in Seq(Messages) /\ Len(ms) = 1 /\ ms[1] = OperationOf(c) BY MessagesTyped
<1> HIDE DEF ms
<1>3. toWorker \in Seq(Messages) /\ Len(toWorker) \in Nat BY DEF PageInv, PageTypeOK
<1>4. /\ toWorker' \in Seq(Messages) /\ Len(toWorker') = Len(toWorker) + 1
      /\ \A j \in 1..Len(toWorker) : toWorker'[j] = toWorker[j]
      /\ toWorker'[Len(toWorker) + 1] = OperationOf(c)
      /\ \A j \in 1..Len(toWorker') : j \in 1..Len(toWorker) \/ j = Len(toWorker) + 1
  <2>1. /\ toWorker' \in Seq(Messages) /\ Len(toWorker') = Len(toWorker) + Len(ms)
        /\ \A j \in 1..Len(toWorker) : toWorker'[j] = toWorker[j]
        /\ \A j \in 1..Len(ms) : toWorker'[Len(toWorker) + j] = ms[j]
    BY <1>1, <1>2, <1>3, Appended
  <2> QED BY <1>2, <1>3, <2>1
<1>5. Idle(c) /\ delegate[c] = "none"
  BY <1>1, NotSentIsIdle DEF NotSent, PageInv, OnceOnly
<1>6. /\ pageCall'[c].stage = "sent" /\ pageCall'[c].parent = pageCall[c].parent
      /\ \A d \in PageCalls : d # c => pageCall'[d] = pageCall[d]
  BY <1>1 DEF PageInv, PageTypeOK
<1>7. QueuedAttended' /\ AwaitingAttended' /\ ActingAttended'
  <2>1. ASSUME NEW d \in PageCalls PROVE Serves(d, ms)
    <3>1. CASE d = c BY <1>5, <3>1 DEF Serves
    <3>2. CASE d # c
      <4>1. pageCall'[d] = pageCall[d] BY <1>6, <3>2
      <4>2. \A e : Harmless(e, OperationOf(c)) BY MessagesHarmless
      <4>3. pageCall[d].stage = "sent" => Spared(d, ms) BY <1>1, <1>2, <4>1, <4>2 DEF Spared
      <4> QED BY <4>1, <4>3 DEF Serves
    <3> QED BY <3>1, <3>2
  <2>2. ASSUME NEW d \in PageCalls, NEW i \in (Len(toWorker) + 1)..Len(toWorker'),
               ms[i - Len(toWorker)] = OperationOf(d)
        PROVE  Attended(d, i)'
    <3>1. i = Len(toWorker') BY <1>3, <1>4
    <3>2. i - Len(toWorker) = 1 BY <1>3, <1>4, <3>1
    <3>3. d = c BY <1>2, <2>2, <3>2, MessagesDiffer
    <3>4. (i + 1)..Len(toWorker') = {} BY <1>3, <1>4, <3>1
    <3>5. Unhurt(c, i)' BY <1>6, <3>4 DEF Unhurt
    <3> QED BY <3>3, <3>5 DEF Attended
  <2> QED BY <1>1, <1>2, <2>1, <2>2, KeptByAppending DEF knowledge, operationSide
<1>8. OnceOnly'
  <2>1. \A d \in PageCalls, j \in 1..Len(toWorker') : toWorker'[j] = OperationOf(d) =>
          \/ j \in 1..Len(toWorker) /\ toWorker[j] = OperationOf(d)
          \/ j = Len(toWorker) + 1 /\ d = c
    BY <1>4, MessagesDiffer
  <2>2. \A d \in PageCalls : (Queued(d)' => Queued(d) \/ d = c) /\ (Awaited(d)' <=> Awaited(d))
    BY <2>1 DEF Queued, Awaited, OperationOf
  <2>3. \A d \in PageCalls : NotSent(d)' => NotSent(d) /\ d # c BY <1>6 DEF NotSent
  <2>4. OnceOnly /\ ~Queued(c) /\ ~Awaited(c) BY <1>5 DEF PageInv, Idle
  <2>5. \A d \in PageCalls : /\ Queued(d)' \/ Awaited(d)' => ~NotSent(d)' /\ delegate'[d] = "none"
                             /\ ~(Queued(d)' /\ Awaited(d)')
                             /\ NotSent(d)' => delegate'[d] = "none"
    BY <1>5, <2>2, <2>3, <2>4 DEF OnceOnly, operationSide
  <2>6. \A d \in PageCalls, i, j \in 1..Len(toWorker') :
         toWorker'[i] = OperationOf(d) /\ toWorker'[j] = OperationOf(d) => i = j
    BY <2>1, <2>4 DEF OnceOnly, Queued
  <2>7. \A d \in PageCalls, i, j \in 1..Len(awaiting') :
         awaiting'[i] = OperationOf(d) /\ awaiting'[j] = OperationOf(d) => i = j
    BY <2>4 DEF OnceOnly
  <2> QED BY <2>5, <2>6, <2>7 DEF OnceOnly, OperationOf
<1>9. PageTypeOK'
  <2>1. pageCall' \in [PageCalls -> [stage : {"none", "made", "sent", "dropped", "settled"},
                                     parent : 0..MaxPageExecutions]]
    BY <1>1 DEF PageInv, PageTypeOK
  <2> QED BY <1>1, <1>4, <2>1 DEF PageInv, PageTypeOK, knowledge, operationSide, IsControl, Acts
<1>10. ParentsBegun' BY <1>1 DEF PageInv, PageTypeOK, ParentsBegun
<1>11. ActsOnlyUp' BY DEF PageInv, ActsOnlyUp, operationSide, Acts
<1> QED BY <1>7, <1>8, <1>9, <1>10, <1>11 DEF PageInv

\* An abort of the executions `es`, which run, and what else it sends behind the
\* cancellations.
LEMMA StoppingKeeps ==
  ASSUME PageInv, NEW es \in SUBSET PageExecutions, \A e \in es : execution[e] = "runs",
         execution' = Stopping(es), pageCall' = Cancelled(es),
         NEW ms \in Seq(Messages), toWorker' = toWorker \o ms,
         NEW n \in 0..Len(ms),
         \A k \in 1..n : \E c \in PageCalls : ms[k] = CancelOf(c),
         \A c \in PageCalls : pageCall[c].parent \in es /\ pageCall[c].stage = "sent" =>
           \E k \in 1..n : ms[k] = CancelOf(c),
         \A k \in (n + 1)..Len(ms) :
           /\ \A c \in PageCalls : ms[k] # OperationOf(c)
           /\ \A e \in PageExecutions : execution'[e] = "runs" => Harmless(e, ms[k]),
         released' \in BOOLEAN, released' => \A e \in PageExecutions : execution'[e] # "runs",
         UNCHANGED <<pageSnapshots, pageWorker, awaiting, knowledge, operationSide, pageEnds>>
  PROVE  PageInv'
<1>1. Len(ms) \in Nat /\ n \in Nat OBVIOUS
<1>2. \A e \in PageExecutions : /\ e \in es => execution[e] = "runs" /\ execution'[e] = "stopping"
                                /\ e \notin es => execution'[e] = execution[e]
  BY DEF Stopping
<1>3. ASSUME NEW c \in PageCalls
      PROVE  /\ pageCall'[c].parent = pageCall[c].parent
             /\ pageCall'[c] \in [stage : {"none", "made", "sent", "dropped", "settled"},
                                  parent : 0..MaxPageExecutions]
             /\ pageCall[c].parent \notin es => pageCall'[c] = pageCall[c]
             /\ NotSent(c)' => NotSent(c)
             /\ pageCall'[c].stage # "none" => pageCall[c].stage # "none"
  <2>1. pageCall'[c] = IF pageCall[c].parent \notin es THEN pageCall[c]
          ELSE [pageCall[c] EXCEPT !.stage = CASE @ = "sent" -> "settled" [] @ = "made" -> "dropped" [] OTHER -> @]
    BY DEF Cancelled
  <2>2. pageCall[c] \in [stage : {"none", "made", "sent", "dropped", "settled"},
                                  parent : 0..MaxPageExecutions]
    BY DEF PageInv, PageTypeOK
  <2> QED BY <2>1, <2>2 DEF NotSent
<1>4. ASSUME NEW c \in PageCalls PROVE Serves(c, ms)
  <2> DEFINE e == pageCall[c].parent
  <2>1. SUFFICES ASSUME pageCall[c].stage = "sent" PROVE Spared(c, ms) \/ BeingCancelled(c, ms)
    BY <1>3 DEF Serves
  <2>2. e \in PageExecutions BY <2>1 DEF PageInv, ParentsBegun
  <2>3. ASSUME NEW k \in 1..n PROVE Harmless(e, ms[k])
    BY MessagesHarmless
  <2>4. CASE e \in es
    <3>1. PICK k \in 1..n : ms[k] = CancelOf(c) BY <2>1, <2>4
    <3>2. k \in 1..Len(ms) /\ ms[k] = CancelOf(c) BY <3>1
    <3>3. \A j \in 1..(k - 1) : Harmless(e, ms[j]) BY <2>3
    <3> QED BY <2>2, <2>4, <1>2, <3>2, <3>3 DEF BeingCancelled
  <2>5. CASE e \notin es
    <3>1. pageCall'[c] = pageCall[c] /\ execution'[e] = execution[e] BY <1>2, <1>3, <2>2, <2>5
    <3>2. ASSUME execution'[e] = "runs", NEW k \in 1..Len(ms) PROVE Harmless(e, ms[k])
      <4>1. CASE k \in 1..n BY <2>3, <4>1
      <4>2. CASE k \in (n + 1)..Len(ms) BY <2>2, <3>2, <4>2
      <4> QED BY <1>1, <4>1, <4>2
    <3> QED BY <2>1, <3>1, <3>2 DEF Spared
  <2> QED BY <2>4, <2>5
<1>5. ASSUME NEW c \in PageCalls, NEW k \in 1..Len(ms) PROVE ms[k] # OperationOf(c)
  <2>1. CASE k \in 1..n BY <2>1, MessagesDiffer
  <2>2. CASE k \in (n + 1)..Len(ms) BY <2>2
  <2> QED BY <1>1, <2>1, <2>2
<1>6. execution' \in [PageExecutions -> {"none", "runs", "stopping", "over"}]
  BY DEF Stopping, PageInv, PageTypeOK
<1>7. pageCall' \in [PageCalls -> [stage : {"none", "made", "sent", "dropped", "settled"},
                                   parent : 0..MaxPageExecutions]]
  <2>1. pageCall' = [c \in PageCalls |-> pageCall'[c]] BY DEF Cancelled
  <2> QED BY <1>3, <2>1
<1>8. ParentsBegun'
  <2>1. \A c \in PageCalls : pageCall'[c].stage # "none" =>
          pageCall'[c].parent \in PageExecutions /\ execution'[pageCall'[c].parent] # "none"
    BY <1>2, <1>3 DEF PageInv, ParentsBegun
  <2> QED BY <2>1 DEF ParentsBegun
<1>9. pageSnapshots' \in Nat BY DEF PageInv, PageTypeOK
<1>10. \A c \in PageCalls : NotSent(c)' => NotSent(c) BY <1>3
<1> QED BY <1>4, <1>5, <1>6, <1>7, <1>8, <1>9, <1>10, AppendingKeeps

\* An execution is aborted: its calls are cancelled (signal listeners).
LEMMA ExecutionAbortedKeeps ==
  ASSUME PageInv, NEW e \in PageExecutions, ExecutionAborted(e),
         UNCHANGED <<pageWorker, awaiting, knowledge, operationSide, pageEnds>>
  PROVE  PageInv'
<1>1. PICK ms : ms = SetToSeq(Cancellations({e})) OBVIOUS
<1>2. /\ ms \in Seq(Messages)
      /\ \A k \in 1..Len(ms) : \E c \in PageCalls : ms[k] = CancelOf(c)
      /\ \A c \in PageCalls : pageCall[c].parent \in {e} /\ pageCall[c].stage = "sent" =>
           \E k \in 1..Len(ms) : ms[k] = CancelOf(c)
  BY <1>1, CancellationsSent
<1>3. /\ execution[e] = "runs" /\ execution' = Stopping({e}) /\ pageCall' = Cancelled({e})
      /\ toWorker' = toWorker \o ms /\ UNCHANGED <<released, pageSnapshots>>
  BY <1>1 DEF ExecutionAborted, Sends
<1>4. released' => \A d \in PageExecutions : execution'[d] # "runs"
  BY <1>3 DEF PageInv, ParentsBegun
<1>5. released' \in BOOLEAN BY <1>3 DEF PageInv, PageTypeOK
<1>6. Len(ms) \in 0..Len(ms) /\ (Len(ms) + 1)..Len(ms) = {} BY <1>2
<1> QED BY <1>2, <1>3, <1>4, <1>5, <1>6, StoppingKeeps

\* The session is released: its executions stop and their calls are cancelled.
LEMMA SessionReleasedKeeps ==
  ASSUME PageInv, SessionReleased,
         UNCHANGED <<pageWorker, awaiting, knowledge, operationSide, pageEnds>>
  PROVE  PageInv'
<1> DEFINE running == {e \in PageExecutions : execution[e] = "runs"}
<1>1. PICK cs : cs = SetToSeq(Cancellations(running)) OBVIOUS
<1>2. PICK ms : ms = cs \o <<ReleasedMessage>> OBVIOUS
<1>3. /\ cs \in Seq(Messages)
      /\ \A k \in 1..Len(cs) : \E c \in PageCalls : cs[k] = CancelOf(c)
      /\ \A c \in PageCalls : pageCall[c].parent \in running /\ pageCall[c].stage = "sent" =>
           \E k \in 1..Len(cs) : cs[k] = CancelOf(c)
  BY <1>1, CancellationsSent
<1>4. /\ released' = TRUE /\ execution' = Stopping(running) /\ pageCall' = Cancelled(running)
      /\ toWorker' = toWorker \o ms /\ UNCHANGED pageSnapshots
  BY <1>1, <1>2 DEF SessionReleased, Sends
<1>5. /\ ms \in Seq(Messages) /\ Len(ms) = Len(cs) + 1 /\ Len(cs) \in Nat
      /\ \A k \in 1..Len(cs) : ms[k] = cs[k]
      /\ ms[Len(cs) + 1] = ReleasedMessage
  BY <1>2, <1>3, MessagesTyped
<1>6. \A e \in PageExecutions : execution'[e] # "runs" BY <1>4 DEF Stopping
<1>7. ASSUME NEW k \in (Len(cs) + 1)..Len(ms)
      PROVE  /\ \A c \in PageCalls : ms[k] # OperationOf(c)
             /\ \A e \in PageExecutions : execution'[e] = "runs" => Harmless(e, ms[k])
  <2>1. k = Len(cs) + 1 BY <1>5
  <2> QED BY <1>5, <1>6, <2>1, MessagesDiffer
<1>8. /\ \A k \in 1..Len(cs) : \E c \in PageCalls : ms[k] = CancelOf(c)
      /\ \A c \in PageCalls : pageCall[c].parent \in running /\ pageCall[c].stage = "sent" =>
           \E k \in 1..Len(cs) : ms[k] = CancelOf(c)
  <2> HIDE DEF running
  <2> QED BY <1>3, <1>5
<1>9. Len(cs) \in 0..Len(ms) BY <1>5
<1>10. running \in SUBSET PageExecutions /\ \A e \in running : execution[e] = "runs" OBVIOUS
<1>11. released' \in BOOLEAN BY <1>4
<1> HIDE DEF running
<1> QED BY <1>4, <1>5, <1>6, <1>7, <1>8, <1>9, <1>10, <1>11, StoppingKeeps

\* One message more, which no execution that runs is hurt by.
LEMMA MessageSentKeeps ==
  ASSUME PageInv, NEW m \in Messages, Sends(<<m>>), UNCHANGED <<pageCall, released>>,
         UNCHANGED <<pageWorker, awaiting, knowledge, operationSide, pageEnds>>,
         \A c \in PageCalls : m # OperationOf(c),
         execution' \in [PageExecutions -> {"none", "runs", "stopping", "over"}],
         \A e \in PageExecutions :
           /\ execution'[e] = "runs" => execution[e] = "runs" /\ Harmless(e, m)
           /\ execution[e] # "none" => execution'[e] # "none",
         pageSnapshots' \in Nat
  PROVE  PageInv'
<1> DEFINE ms == <<m>>
<1>1. ms \in Seq(Messages) /\ Len(ms) = 1 /\ ms[1] = m /\ toWorker' = toWorker \o ms BY DEF Sends
<1> HIDE DEF ms
<1>2. \A k \in 1..Len(ms) : ms[k] = m BY <1>1
<1>3. ASSUME NEW c \in PageCalls PROVE Serves(c, ms)
  <2>1. SUFFICES ASSUME pageCall[c].stage = "sent" PROVE Spared(c, ms)
    BY DEF Serves
  <2>2. pageCall[c].parent \in PageExecutions BY <2>1 DEF PageInv, ParentsBegun
  <2> QED BY <1>2, <2>1, <2>2 DEF Spared
<1>4. \A c \in PageCalls, k \in 1..Len(ms) : ms[k] # OperationOf(c) BY <1>2
<1>5. \A c \in PageCalls : NotSent(c)' => NotSent(c) BY DEF NotSent
<1>6. ParentsBegun' BY DEF PageInv, ParentsBegun
<1>7. /\ pageCall' \in [PageCalls -> [stage : {"none", "made", "sent", "dropped", "settled"},
                                      parent : 0..MaxPageExecutions]]
      /\ released' \in BOOLEAN
  BY DEF PageInv, PageTypeOK
<1> QED BY <1>1, <1>3, <1>4, <1>5, <1>6, <1>7, AppendingKeeps

\* An execution ends, and the cancellations of its calls are sent before its answer.
LEMMA ExecutionEndsKeeps ==
  ASSUME PageInv, NEW e \in PageExecutions, ExecutionEnds(e),
         UNCHANGED <<pageWorker, awaiting, knowledge, operationSide, pageEnds>>
  PROVE  PageInv'
<1>1. /\ execution' = [execution EXCEPT ![e] = "over"]
      /\ Sends(<<AnswerOf(e)>>) /\ UNCHANGED <<pageCall, released, pageSnapshots>>
  BY DEF ExecutionEnds
<1>2. AnswerOf(e) \in Messages /\ \A c \in PageCalls : AnswerOf(e) # OperationOf(c)
  BY MessagesTyped, MessagesDiffer
<1>3. /\ execution' \in [PageExecutions -> {"none", "runs", "stopping", "over"}]
      /\ execution'[e] = "over" /\ \A d \in PageExecutions : d # e => execution'[d] = execution[d]
      /\ pageSnapshots' \in Nat
  BY <1>1 DEF PageInv, PageTypeOK
<1>4. ASSUME NEW d \in PageExecutions
      PROVE  /\ execution'[d] = "runs" => execution[d] = "runs" /\ Harmless(d, AnswerOf(e))
             /\ execution[d] # "none" => execution'[d] # "none"
  BY <1>3, MessagesHarmless
<1> QED BY <1>1, <1>2, <1>3, <1>4, MessageSentKeeps

\* A snapshot names the executions that run.
LEMMA SnapshotSentKeeps ==
  ASSUME PageInv, SnapshotSent,
         UNCHANGED <<pageWorker, awaiting, knowledge, operationSide, pageEnds>>
  PROVE  PageInv'
<1>1. /\ Sends(<<SnapshotOf(ActiveNow)>>) /\ UNCHANGED <<execution, pageCall, released>>
      /\ pageSnapshots' = pageSnapshots + 1
  BY DEF SnapshotSent
<1>2. ActiveNow \in SUBSET PageExecutions /\ \A e \in PageExecutions : execution[e] = "runs" => e \in ActiveNow
  BY DEF ActiveNow
<1>3. /\ SnapshotOf(ActiveNow) \in Messages
      /\ \A c \in PageCalls : SnapshotOf(ActiveNow) # OperationOf(c)
      /\ \A e \in PageExecutions : execution[e] = "runs" => Harmless(e, SnapshotOf(ActiveNow))
  BY <1>2, MessagesTyped, MessagesDiffer, MessagesHarmless
<1>4. execution' \in [PageExecutions -> {"none", "runs", "stopping", "over"}] /\ pageSnapshots' \in Nat
  BY <1>1 DEF PageInv, PageTypeOK
<1> QED BY <1>1, <1>3, <1>4, MessageSentKeeps

\* What the document does keeps the invariant.
LEMMA DocumentStepsKeep ==
  ASSUME PageInv, DocumentSteps
  PROVE  PageInv'
BY CallMadeKeeps, CallAnsweredKeeps, CallSentKeeps, ExecutionAbortedKeeps, ExecutionEndsKeeps,
   SessionReleasedKeeps, SnapshotSentKeeps DEF DocumentSteps

-----------------------------------------------------------------------------
(* The steps of the worker *)

\* The worker takes the first message.
LEMMA Shifted ==
  ASSUME toWorker \in Seq(Messages), toWorker # << >>, toWorker' = Tail(toWorker)
  PROVE  /\ toWorker' \in Seq(Messages) /\ Len(toWorker') = Len(toWorker) - 1 /\ Len(toWorker) \in Nat
         /\ Head(toWorker) = toWorker[1] /\ Head(toWorker) \in Messages /\ 1 \in 1..Len(toWorker)
         /\ \A j \in 1..Len(toWorker') : j + 1 \in 1..Len(toWorker) /\ toWorker'[j] = toWorker[j + 1]
OBVIOUS

\* Behind the head, every position moves up by one.
LEMMA AttendedShifted ==
  ASSUME toWorker \in Seq(Messages), toWorker # << >>, toWorker' = Tail(toWorker),
         UNCHANGED <<execution, pageCall>>,
         NEW c \in PageCalls, NEW i \in 1..Len(toWorker), NEW n \in Nat, n = i - 1, Attended(c, i)
  PROVE  Attended(c, n)'
<1> DEFINE e == pageCall[c].parent
<1>1. /\ Len(toWorker') = Len(toWorker) - 1 /\ Len(toWorker) \in Nat
      /\ \A j \in 1..Len(toWorker') : j + 1 \in 1..Len(toWorker) /\ toWorker'[j] = toWorker[j + 1]
  BY Shifted
<1>2. CASE Unhurt(c, i)
  <2>1. ASSUME execution[e] = "runs", NEW j \in (n + 1)..Len(toWorker')
        PROVE  Harmless(e, toWorker'[j])
    <3>1. j + 1 \in (i + 1)..Len(toWorker) /\ toWorker'[j] = toWorker[j + 1] BY <1>1
    <3> QED BY <1>2, <2>1, <3>1 DEF Unhurt
  <2>2. Unhurt(c, n)' BY <1>2, <2>1 DEF Unhurt, Harmless, AnswerOf
  <2> QED BY <2>2 DEF Attended
<1>3. CASE CancelFollows(c, i)
  <2>1. PICK q \in (i + 1)..Len(toWorker) :
          toWorker[q] = CancelOf(c) /\ \A j \in (i + 1)..(q - 1) : Harmless(e, toWorker[j])
    BY <1>3 DEF CancelFollows
  <2>2. q - 1 \in (n + 1)..Len(toWorker') /\ toWorker'[q - 1] = CancelOf(c) BY <1>1, <2>1
  <2>3. ASSUME NEW j \in (n + 1)..((q - 1) - 1) PROVE Harmless(e, toWorker'[j])
    <3>1. j + 1 \in (i + 1)..(q - 1) /\ toWorker'[j] = toWorker[j + 1] BY <1>1, <2>1
    <3> QED BY <2>1, <3>1
  <2>4. CancelFollows(c, n)' BY <2>2, <2>3 DEF CancelFollows, CancelOf, Harmless, AnswerOf
  <2> QED BY <2>4 DEF Attended
<1> QED BY <1>2, <1>3 DEF Attended

\* An operation that the worker has taken stays attended while another message is taken,
\* unless that one is its cancellation.
LEMMA AttendedTaken ==
  ASSUME toWorker \in Seq(Messages), toWorker # << >>, toWorker' = Tail(toWorker),
         UNCHANGED <<execution, pageCall>>,
         NEW c \in PageCalls, Attended(c, 0), Head(toWorker) # CancelOf(c)
  PROVE  /\ Attended(c, 0)'
         /\ \/ Harmless(pageCall[c].parent, Head(toWorker))
            \/ pageCall[c].stage = "sent" /\ execution[pageCall[c].parent] # "runs"
<1> DEFINE e == pageCall[c].parent
<1>1. /\ Len(toWorker) \in Nat /\ Head(toWorker) = toWorker[1] /\ 1 \in 1..Len(toWorker)
  BY Shifted
<1>2. CASE Unhurt(c, 0)
  <2>1. Unhurt(c, 1) BY <1>1, <1>2 DEF Unhurt
  <2>2. Attended(c, 0)' BY <1>1, <2>1, AttendedShifted DEF Attended
  <2>3. execution[e] = "runs" => Harmless(e, toWorker[1]) BY <1>1, <1>2 DEF Unhurt
  <2> QED BY <1>1, <1>2, <2>2, <2>3 DEF Unhurt
<1>3. CASE CancelFollows(c, 0)
  <2>1. PICK q \in (0 + 1)..Len(toWorker) :
          toWorker[q] = CancelOf(c) /\ \A j \in (0 + 1)..(q - 1) : Harmless(e, toWorker[j])
    BY <1>3 DEF CancelFollows
  <2>2. q # 1 BY <1>1, <2>1
  <2>3. q \in (1 + 1)..Len(toWorker) /\ \A j \in (1 + 1)..(q - 1) : Harmless(e, toWorker[j])
    BY <1>1, <2>1, <2>2
  <2>4. CancelFollows(c, 1) BY <2>1, <2>3 DEF CancelFollows
  <2>5. Attended(c, 0)' BY <1>1, <2>4, AttendedShifted DEF Attended
  <2>6. Harmless(e, toWorker[1]) BY <1>1, <2>1, <2>2
  <2> QED BY <1>1, <2>5, <2>6
<1> QED BY <1>2, <1>3 DEF Attended

\* What the worker learns from a harmless message leaves the execution known.
LEMMA AdmittedKept ==
  ASSUME PageInv, NEW c \in PageCalls, NEW m \in Messages, ~IsControl(m), Learns(m), UNCHANGED pageCall,
         Admitted(c), Harmless(pageCall[c].parent, m)
  PROVE  Admitted(c)'
<1> DEFINE e == pageCall[c].parent
<1>1. m.type # "released" /\ (m.type = "snapshot" => e \in m.executions) BY DEF Harmless
<1>2. sessionKnown' BY <1>1 DEF Learns, Admitted
<1>3. CASE e \in forwarding
  <2>1. m.type = "answer" => m.execution # e BY DEF Harmless, AnswerOf, Messages
  <2> QED BY <1>1, <1>2, <1>3, <2>1 DEF Learns, Admitted
<1>4. CASE e \in shown
  BY <1>1, <1>2, <1>4 DEF Learns, Admitted
<1> QED BY <1>3, <1>4 DEF Admitted

\* Taking the head leaves the operations behind it attended, and on their way once.
LEMMA QueueTaken ==
  ASSUME PageInv, toWorker # << >>, toWorker' = Tail(toWorker), UNCHANGED <<execution, pageCall>>
  PROVE  /\ QueuedAttended'
         /\ \A c \in PageCalls : Queued(c)' => Queued(c) /\ Head(toWorker) # OperationOf(c)
         /\ \A c \in PageCalls, i, j \in 1..Len(toWorker') :
              toWorker'[i] = OperationOf(c) /\ toWorker'[j] = OperationOf(c) => i = j
<1>1. /\ toWorker \in Seq(Messages) /\ Len(toWorker') = Len(toWorker) - 1 /\ Len(toWorker) \in Nat
      /\ Head(toWorker) = toWorker[1] /\ 1 \in 1..Len(toWorker)
      /\ \A j \in 1..Len(toWorker') : j + 1 \in 1..Len(toWorker) /\ toWorker'[j] = toWorker[j + 1]
  BY Shifted DEF PageInv, PageTypeOK
<1>2. QueuedAttended'
  <2>1. SUFFICES ASSUME NEW c \in PageCalls, NEW i \in 1..Len(toWorker'), toWorker'[i] = OperationOf(c)
                 PROVE  Attended(c, i)'
    BY DEF QueuedAttended, OperationOf
  <2>2. Attended(c, i + 1) BY <1>1, <2>1 DEF PageInv, QueuedAttended
  <2> QED BY <1>1, <2>2, AttendedShifted
<1>3. \A c \in PageCalls, i, j \in 1..Len(toWorker) :
              toWorker[i] = OperationOf(c) /\ toWorker[j] = OperationOf(c) => i = j
  BY DEF PageInv, OnceOnly
<1>4. ASSUME NEW c \in PageCalls, NEW i \in 1..Len(toWorker'), toWorker'[i] = OperationOf(c)
      PROVE  Queued(c) /\ Head(toWorker) # OperationOf(c)
  <2>1. i + 1 \in 1..Len(toWorker) /\ toWorker[i + 1] = OperationOf(c) BY <1>1, <1>4
  <2>2. i + 1 # 1 BY <1>1
  <2> QED BY <1>1, <1>3, <2>1, <2>2 DEF Queued
<1>5. ASSUME NEW c \in PageCalls, NEW i \in 1..Len(toWorker'), NEW j \in 1..Len(toWorker'),
             toWorker'[i] = OperationOf(c), toWorker'[j] = OperationOf(c)
      PROVE  i = j
  <2>1. /\ i + 1 \in 1..Len(toWorker) /\ toWorker[i + 1] = OperationOf(c)
        /\ j + 1 \in 1..Len(toWorker) /\ toWorker[j + 1] = OperationOf(c)
    BY <1>1, <1>5
  <2>2. i + 1 = j + 1 BY <1>3, <2>1
  <2> QED BY <1>1, <2>2
<1> QED BY <1>2, <1>4, <1>5 DEF Queued, OperationOf

\* A message that tells the worker something.
LEMMA LearnedKeeps ==
  ASSUME PageInv, MessageTaken, ~IsControl(Head(toWorker))
  PROVE  PageInv'
<1> DEFINE m == Head(toWorker)
<1>1. /\ toWorker # << >> /\ toWorker' = Tail(toWorker) /\ toWorker \in Seq(Messages)
      /\ pageWorker # "down" /\ (pageWorker = "up" => awaiting = << >>)
      /\ Learns(m) /\ UNCHANGED <<awaiting, delegate, signalled, execution, pageCall, released, pageSnapshots, pageEnds>>
  BY DEF MessageTaken, operationSide, documentSide, PageInv, PageTypeOK
<1>2. /\ toWorker' \in Seq(Messages) /\ m \in Messages BY <1>1, Shifted
<1>3. PageTypeOK'
  <2>1. forwarding' \subseteq PageExecutions BY <1>1 DEF Learns, PageInv, PageTypeOK
  <2>2. sessionKnown' \in BOOLEAN
    <3>1. sessionKnown \in BOOLEAN BY DEF PageInv, PageTypeOK
    <3> QED BY <1>1, <3>1 DEF Learns
  <2>3. m.type = "snapshot" => m.executions \subseteq PageExecutions BY <1>2 DEF Messages
  <2>4. shown' \subseteq PageExecutions BY <1>1, <2>3 DEF Learns, PageInv, PageTypeOK
  <2>5. pageWorker' \in {"up", "down", "starting"} BY <1>1 DEF Learns, PageInv, PageTypeOK
  <2> QED BY <1>1, <1>2, <2>1, <2>2, <2>4, <2>5 DEF PageInv, PageTypeOK, IsControl, Acts
<1>4. QueuedAttended' BY <1>1, QueueTaken
<1>5. \A c \in PageCalls : m # CancelOf(c) BY <1>1 DEF IsControl, CancelOf
<1> HIDE DEF m
<1>6. AwaitingAttended'
  <2>1. SUFFICES ASSUME NEW c \in PageCalls, NEW i \in 1..Len(awaiting), awaiting[i] = OperationOf(c),
                        ~ \E q \in (i + 1)..Len(awaiting) : awaiting[q] = CancelOf(c)
                 PROVE  Attended(c, 0)'
    BY <1>1 DEF AwaitingAttended, OperationOf, CancelOf
  <2>2. Attended(c, 0) BY <2>1 DEF PageInv, AwaitingAttended
  <2> QED BY <1>1, <1>5, <2>2, AttendedTaken DEF m
<1>7. ActingAttended'
  <2>1. SUFFICES ASSUME NEW c \in PageCalls, delegate[c] \in Acts, c \notin signalled
                 PROVE  \/ (pageCall[c].stage = "sent" /\ execution[pageCall[c].parent] # "runs")'
                        \/ Admitted(c)' /\ (Attended(c, 0)' \/ CancelAwaits(c)')
    BY <1>1 DEF ActingAttended, Acts
  <2>2. \/ pageCall[c].stage = "sent" /\ execution[pageCall[c].parent] # "runs"
        \/ Admitted(c) /\ (Attended(c, 0) \/ CancelAwaits(c))
    BY <2>1 DEF PageInv, ActingAttended
  <2>3. CASE pageCall[c].stage = "sent" /\ execution[pageCall[c].parent] # "runs"
    BY <1>1, <2>3
  <2>4. CASE Admitted(c) /\ Attended(c, 0)
    <3>1. /\ Attended(c, 0)'
          /\ \/ Harmless(pageCall[c].parent, m)
             \/ pageCall[c].stage = "sent" /\ execution[pageCall[c].parent] # "runs"
      BY <1>1, <1>5, <2>4, AttendedTaken DEF m
    <3>2. Harmless(pageCall[c].parent, m) => Admitted(c)'
      BY <1>1, <1>2, <2>4, AdmittedKept DEF m
    <3> QED BY <1>1, <3>1, <3>2
  <2>5. ~CancelAwaits(c)
    <3>1. pageWorker = "up" BY <2>1 DEF PageInv, ActsOnlyUp
    <3> QED BY <1>1, <3>1 DEF CancelAwaits
  <2> QED BY <2>2, <2>3, <2>4, <2>5
<1>8. ActsOnlyUp'
  <2>1. pageWorker = "up" => pageWorker' = "up" BY <1>1 DEF Learns
  <2> QED BY <1>1, <2>1 DEF PageInv, ActsOnlyUp, Acts
<1>9. ParentsBegun' BY <1>1 DEF PageInv, ParentsBegun
<1>10. OnceOnly'
  <2>1. /\ \A c \in PageCalls : Queued(c)' => Queued(c)
        /\ \A c \in PageCalls, i, j \in 1..Len(toWorker') :
              toWorker'[i] = OperationOf(c) /\ toWorker'[j] = OperationOf(c) => i = j
    BY <1>1, QueueTaken
  <2>2. \A c \in PageCalls : (Awaited(c)' <=> Awaited(c)) /\ (NotSent(c)' <=> NotSent(c))
    BY <1>1 DEF Awaited, NotSent, OperationOf
  <2>3. OnceOnly BY DEF PageInv
  <2>4. \A c \in PageCalls : /\ Queued(c)' \/ Awaited(c)' => ~NotSent(c)' /\ delegate'[c] = "none"
                             /\ ~(Queued(c)' /\ Awaited(c)')
                             /\ NotSent(c)' => delegate'[c] = "none"
    BY <1>1, <2>1, <2>2, <2>3 DEF OnceOnly
  <2>5. \A c \in PageCalls, i, j \in 1..Len(awaiting') :
         awaiting'[i] = OperationOf(c) /\ awaiting'[j] = OperationOf(c) => i = j
    BY <1>1, <2>3 DEF OnceOnly
  <2> QED BY <2>1, <2>4, <2>5 DEF OnceOnly, OperationOf
<1> QED BY <1>3, <1>4, <1>6, <1>7, <1>8, <1>9, <1>10 DEF PageInv

\* What a control message does to the operations in the worker.
LEMMA ControlsDo ==
  ASSUME PageInv, NEW m \in Messages, IsControl(m), Controls(m)
  PROVE  /\ m.call \in PageCalls /\ m \in {OperationOf(m.call), CancelOf(m.call)}
         /\ delegate' \in [PageCalls -> Acts \cup {"none", "ended", "lost"}]
         /\ signalled' \subseteq PageCalls /\ signalled \subseteq signalled'
         /\ \A d \in PageCalls : m # OperationOf(d) => delegate'[d] = delegate[d]
         /\ \A d \in PageCalls : m = OperationOf(d) =>
              /\ delegate'[d] \in {"authorizing", "ended"}
              /\ delegate'[d] \in Acts => Admitted(d)
         /\ \A d \in PageCalls : m = CancelOf(d) /\ Admitted(d) /\ delegate[d] \in Acts => d \in signalled'
<1>1. m.call \in PageCalls /\ m \in {OperationOf(m.call), CancelOf(m.call)}
  BY DEF IsControl, Messages, OperationOf, CancelOf
<1>2. /\ delegate \in [PageCalls -> Acts \cup {"none", "ended", "lost"}] /\ signalled \subseteq PageCalls
  BY DEF PageInv, PageTypeOK
<1>3. CASE m = OperationOf(m.call)
  <2>1. m.type = "operation" /\ \A d \in PageCalls : (m = OperationOf(d) <=> d = m.call) /\ m # CancelOf(d)
    BY <1>1, <1>3 DEF OperationOf, CancelOf
  <2>2. /\ delegate' = [delegate EXCEPT ![m.call] = IF Admitted(m.call) THEN "authorizing" ELSE "ended"]
        /\ UNCHANGED signalled
    BY <2>1 DEF Controls
  <2> QED BY <1>1, <1>2, <2>1, <2>2 DEF Acts
<1>4. CASE m = CancelOf(m.call)
  <2>1. m.type = "cancel" /\ \A d \in PageCalls : (m = CancelOf(d) <=> d = m.call) /\ m # OperationOf(d)
    BY <1>1, <1>4 DEF OperationOf, CancelOf
  <2>2. UNCHANGED delegate /\ IF Admitted(m.call) THEN Signals(m.call) ELSE UNCHANGED signalled
    BY <2>1 DEF Controls
  <2>3. /\ signalled \subseteq signalled' /\ signalled' \subseteq PageCalls
        /\ Admitted(m.call) /\ delegate[m.call] \in Acts => m.call \in signalled'
    BY <1>1, <1>2, <2>2 DEF Signals
  <2> QED BY <1>1, <1>2, <2>1, <2>2, <2>3
<1> QED BY <1>1, <1>3, <1>4

\* A control message that finds the worker initialized.
LEMMA ControlTakenKeeps ==
  ASSUME PageInv, MessageTaken, IsControl(Head(toWorker)), pageWorker = "up"
  PROVE  PageInv'
<1> DEFINE m == Head(toWorker)
<1>1. /\ toWorker # << >> /\ toWorker' = Tail(toWorker) /\ toWorker \in Seq(Messages)
      /\ awaiting = << >> /\ Controls(m)
      /\ UNCHANGED <<awaiting, forwarding, sessionKnown, shown, pageWorker>>
      /\ UNCHANGED <<execution, pageCall, released, pageSnapshots, pageEnds>>
  BY DEF MessageTaken, knowledge, documentSide, PageInv, PageTypeOK
<1>2. /\ toWorker' \in Seq(Messages) /\ m \in Messages /\ m = toWorker[1] /\ 1 \in 1..Len(toWorker)
  BY <1>1, Shifted
<1> HIDE DEF m
<1>3. /\ delegate' \in [PageCalls -> Acts \cup {"none", "ended", "lost"}]
      /\ signalled' \subseteq PageCalls /\ signalled \subseteq signalled'
      /\ \A d \in PageCalls : m # OperationOf(d) => delegate'[d] = delegate[d]
      /\ \A d \in PageCalls : m = OperationOf(d) =>
           /\ delegate'[d] \in {"authorizing", "ended"}
           /\ delegate'[d] \in Acts => Admitted(d)
      /\ \A d \in PageCalls : m = CancelOf(d) /\ Admitted(d) /\ delegate[d] \in Acts => d \in signalled'
  BY <1>1, <1>2, ControlsDo DEF m
<1>4. PageTypeOK' BY <1>1, <1>2, <1>3 DEF PageInv, PageTypeOK, IsControl, Acts
<1>5. QueuedAttended' BY <1>1, QueueTaken
<1>6. 1..Len(awaiting) = {} BY <1>1
<1>7. AwaitingAttended' BY <1>1, <1>6 DEF AwaitingAttended
<1>8. ActingAttended'
  <2>1. SUFFICES ASSUME NEW c \in PageCalls, delegate'[c] \in Acts, c \notin signalled'
                 PROVE  \/ pageCall[c].stage = "sent" /\ execution[pageCall[c].parent] # "runs"
                        \/ Admitted(c) /\ Attended(c, 0)'
    BY <1>1 DEF ActingAttended, Acts, Admitted
  <2>2. CASE m = OperationOf(c)
    <3>1. Admitted(c) BY <1>3, <2>1, <2>2
    <3>2. Attended(c, 1) BY <1>2, <2>2 DEF PageInv, QueuedAttended
    <3>3. Attended(c, 0)' BY <1>1, <1>2, <3>2, AttendedShifted
    <3> QED BY <3>1, <3>3
  <2>3. CASE m # OperationOf(c)
    <3>1. delegate[c] \in Acts /\ c \notin signalled BY <1>3, <2>1, <2>3
    <3>2. \/ pageCall[c].stage = "sent" /\ execution[pageCall[c].parent] # "runs"
          \/ Admitted(c) /\ (Attended(c, 0) \/ CancelAwaits(c))
      BY <3>1 DEF PageInv, ActingAttended
    <3>3. ~CancelAwaits(c) BY <1>6 DEF CancelAwaits
    <3>4. CASE m = CancelOf(c) BY <1>3, <2>1, <3>1, <3>2, <3>4
    <3>5. CASE m # CancelOf(c)
      <4>1. Attended(c, 0) => Attended(c, 0)' BY <1>1, <3>5, AttendedTaken DEF m
      <4> QED BY <3>2, <3>3, <4>1
    <3> QED BY <3>4, <3>5
  <2> QED BY <2>2, <2>3
<1>9. ActsOnlyUp' BY <1>1 DEF ActsOnlyUp
<1>10. ParentsBegun' BY <1>1 DEF PageInv, ParentsBegun
<1>11. OnceOnly'
  <2>1. /\ \A c \in PageCalls : Queued(c)' => Queued(c) /\ m # OperationOf(c)
        /\ \A c \in PageCalls, i, j \in 1..Len(toWorker') :
              toWorker'[i] = OperationOf(c) /\ toWorker'[j] = OperationOf(c) => i = j
    BY <1>1, QueueTaken DEF m
  <2>2. \A c \in PageCalls : ~Awaited(c)' /\ (NotSent(c)' <=> NotSent(c))
    BY <1>1, <1>6 DEF Awaited, NotSent
  <2>3. \A c \in PageCalls : m = OperationOf(c) => Queued(c) BY <1>2 DEF Queued
  <2>4. OnceOnly BY DEF PageInv
  <2>5. \A c \in PageCalls : /\ Queued(c)' \/ Awaited(c)' => ~NotSent(c)' /\ delegate'[c] = "none"
                             /\ ~(Queued(c)' /\ Awaited(c)')
                             /\ NotSent(c)' => delegate'[c] = "none"
    BY <1>3, <2>1, <2>2, <2>3, <2>4 DEF OnceOnly
  <2>6. \A c \in PageCalls, i, j \in 1..Len(awaiting') :
         awaiting'[i] = OperationOf(c) /\ awaiting'[j] = OperationOf(c) => i = j
    BY <1>1, <1>6
  <2> QED BY <2>1, <2>5, <2>6 DEF OnceOnly, OperationOf
<1> QED BY <1>4, <1>5, <1>7, <1>8, <1>9, <1>10, <1>11 DEF PageInv

\* One that finds it starting waits for it.
LEMMA ControlAwaitsKeeps ==
  ASSUME PageInv, MessageTaken, IsControl(Head(toWorker)), pageWorker # "up"
  PROVE  PageInv'
<1> DEFINE m == Head(toWorker)
<1>1. /\ toWorker # << >> /\ toWorker' = Tail(toWorker) /\ toWorker \in Seq(Messages)
      /\ awaiting' = Append(awaiting, m) /\ awaiting \in Seq(Messages)
      /\ UNCHANGED <<delegate, signalled, forwarding, sessionKnown, shown, pageWorker>>
      /\ UNCHANGED <<execution, pageCall, released, pageSnapshots, pageEnds>>
  BY DEF MessageTaken, knowledge, documentSide, operationSide, PageInv, PageTypeOK
<1>2. /\ toWorker' \in Seq(Messages) /\ m \in Messages /\ m = toWorker[1] /\ 1 \in 1..Len(toWorker)
      /\ IsControl(m)
  BY <1>1, Shifted
<1> HIDE DEF m
<1>3. /\ awaiting' \in Seq(Messages) /\ Len(awaiting') = Len(awaiting) + 1 /\ Len(awaiting) \in Nat
      /\ \A i \in 1..Len(awaiting) : awaiting'[i] = awaiting[i]
      /\ awaiting'[Len(awaiting) + 1] = m
      /\ \A i \in 1..Len(awaiting') : i \in 1..Len(awaiting) \/ i = Len(awaiting) + 1
  BY <1>1, <1>2
<1>4. PageTypeOK'
  <2>1. \A i \in 1..Len(awaiting') : IsControl(awaiting'[i])
    BY <1>2, <1>3 DEF PageInv, PageTypeOK
  <2> QED BY <1>1, <1>2, <1>3, <2>1 DEF PageInv, PageTypeOK, IsControl, Acts
<1>5. QueuedAttended' BY <1>1, QueueTaken
<1>6. AwaitingAttended'
  <2>1. SUFFICES ASSUME NEW c \in PageCalls, NEW i \in 1..Len(awaiting'), awaiting'[i] = OperationOf(c),
                        ~ \E q \in (i + 1)..Len(awaiting') : awaiting'[q] = CancelOf(c)
                 PROVE  Attended(c, 0)'
    BY DEF AwaitingAttended, OperationOf, CancelOf
  <2>2. CASE i \in 1..Len(awaiting)
    <3>1. awaiting[i] = OperationOf(c) BY <1>3, <2>1, <2>2
    <3>2. m # CancelOf(c) BY <1>3, <2>1, <2>2
    <3>3. ~ \E q \in (i + 1)..Len(awaiting) : awaiting[q] = CancelOf(c) BY <1>3, <2>1, <2>2
    <3>4. Attended(c, 0) BY <2>2, <3>1, <3>3 DEF PageInv, AwaitingAttended
    <3> QED BY <1>1, <3>2, <3>4, AttendedTaken DEF m
  <2>3. CASE i = Len(awaiting) + 1
    <3>1. m = OperationOf(c) BY <1>3, <2>1, <2>3
    <3>2. Attended(c, 1) BY <1>2, <3>1 DEF PageInv, QueuedAttended
    <3> QED BY <1>1, <1>2, <3>2, AttendedShifted
  <2> QED BY <1>3, <2>2, <2>3
<1>7. ActingAttended' /\ ActsOnlyUp'
  BY <1>1 DEF PageInv, ActsOnlyUp, ActingAttended, Acts
<1>8. ParentsBegun' BY <1>1 DEF PageInv, ParentsBegun
<1>9. OnceOnly'
  <2>1. /\ \A c \in PageCalls : Queued(c)' => Queued(c) /\ m # OperationOf(c)
        /\ \A c \in PageCalls, i, j \in 1..Len(toWorker') :
              toWorker'[i] = OperationOf(c) /\ toWorker'[j] = OperationOf(c) => i = j
    BY <1>1, QueueTaken DEF m
  <2>2. \A c \in PageCalls : m = OperationOf(c) => Queued(c) BY <1>2 DEF Queued
  <2>3. \A c \in PageCalls : (Awaited(c)' => Awaited(c) \/ m = OperationOf(c)) /\ (NotSent(c)' <=> NotSent(c))
    BY <1>1, <1>3 DEF Awaited, NotSent, OperationOf
  <2>4. OnceOnly BY DEF PageInv
  <2>5. \A c \in PageCalls : /\ Queued(c)' \/ Awaited(c)' => ~NotSent(c)' /\ delegate'[c] = "none"
                             /\ ~(Queued(c)' /\ Awaited(c)')
                             /\ NotSent(c)' => delegate'[c] = "none"
    BY <1>1, <2>1, <2>2, <2>3, <2>4 DEF OnceOnly
  <2>6. \A c \in PageCalls, i, j \in 1..Len(awaiting') :
         awaiting'[i] = OperationOf(c) /\ awaiting'[j] = OperationOf(c) => i = j
    BY <1>3, <2>2, <2>4 DEF OnceOnly, Awaited
  <2> QED BY <2>1, <2>5, <2>6 DEF OnceOnly, OperationOf
<1> QED BY <1>4, <1>5, <1>6, <1>7, <1>8, <1>9 DEF PageInv

\* It is handled when the worker has initialized.
LEMMA AwaitingHandledKeeps ==
  ASSUME PageInv, AwaitingHandled
  PROVE  PageInv'
<1> DEFINE m == Head(awaiting)
<1>1. /\ pageWorker = "up" /\ awaiting # << >> /\ awaiting' = Tail(awaiting) /\ awaiting \in Seq(Messages)
      /\ Controls(m)
      /\ UNCHANGED <<toWorker, forwarding, sessionKnown, shown, pageWorker>>
      /\ UNCHANGED <<execution, pageCall, released, pageSnapshots, pageEnds>>
  BY DEF AwaitingHandled, knowledge, documentSide, PageInv, PageTypeOK
<1>2. /\ awaiting' \in Seq(Messages) /\ Len(awaiting') = Len(awaiting) - 1 /\ Len(awaiting) \in Nat
      /\ m = awaiting[1] /\ m \in Messages /\ 1 \in 1..Len(awaiting)
      /\ \A j \in 1..Len(awaiting') : j + 1 \in 1..Len(awaiting) /\ awaiting'[j] = awaiting[j + 1]
  BY <1>1
<1>3. IsControl(m) BY <1>2 DEF PageInv, PageTypeOK
<1> HIDE DEF m
<1>4. /\ delegate' \in [PageCalls -> Acts \cup {"none", "ended", "lost"}]
      /\ signalled' \subseteq PageCalls /\ signalled \subseteq signalled'
      /\ \A d \in PageCalls : m # OperationOf(d) => delegate'[d] = delegate[d]
      /\ \A d \in PageCalls : m = OperationOf(d) =>
           /\ delegate'[d] \in {"authorizing", "ended"}
           /\ delegate'[d] \in Acts => Admitted(d)
      /\ \A d \in PageCalls : m = CancelOf(d) /\ Admitted(d) /\ delegate[d] \in Acts => d \in signalled'
  BY <1>1, <1>2, <1>3, ControlsDo DEF m
<1>5. PageTypeOK'
  <2>1. \A i \in 1..Len(awaiting') : IsControl(awaiting'[i]) BY <1>2 DEF PageInv, PageTypeOK
  <2> QED BY <1>1, <1>2, <1>4, <2>1 DEF PageInv, PageTypeOK, IsControl, Acts
<1>6. \A c \in PageCalls, i \in Nat : Attended(c, i)' <=> Attended(c, i)
  BY <1>1 DEF Attended, Unhurt, CancelFollows, Harmless, CancelOf, AnswerOf
<1>7. QueuedAttended' BY <1>1, <1>6 DEF PageInv, PageTypeOK, QueuedAttended, OperationOf
\* A cancellation that is not taken waits still.
<1>8. ASSUME NEW c \in PageCalls, NEW i \in 0..Len(awaiting'), NEW q \in (i + 2)..Len(awaiting),
             awaiting[q] = CancelOf(c)
      PROVE  \E p \in (i + 1)..Len(awaiting') : awaiting'[p] = CancelOf(c)
  <2>1. q - 1 \in (i + 1)..Len(awaiting') /\ q - 1 \in 1..Len(awaiting') /\ (q - 1) + 1 = q BY <1>2
  <2> QED BY <1>2, <1>8, <2>1
<1>9. AwaitingAttended'
  <2>1. SUFFICES ASSUME NEW c \in PageCalls, NEW i \in 1..Len(awaiting'), awaiting'[i] = OperationOf(c),
                        ~ \E q \in (i + 1)..Len(awaiting') : awaiting'[q] = CancelOf(c)
                 PROVE  Attended(c, 0)'
    BY DEF AwaitingAttended, OperationOf, CancelOf
  <2>2. i + 1 \in 1..Len(awaiting) /\ awaiting[i + 1] = OperationOf(c) BY <1>2, <2>1
  <2>3. ~ \E q \in ((i + 1) + 1)..Len(awaiting) : awaiting[q] = CancelOf(c)
    BY <1>2, <1>8, <2>1
  <2>4. Attended(c, 0) BY <2>2, <2>3 DEF PageInv, AwaitingAttended
  <2> QED BY <1>6, <2>4
<1>10. ActingAttended'
  <2>1. SUFFICES ASSUME NEW c \in PageCalls, delegate'[c] \in Acts, c \notin signalled'
                 PROVE  \/ pageCall[c].stage = "sent" /\ execution[pageCall[c].parent] # "runs"
                        \/ Admitted(c) /\ (Attended(c, 0)' \/ CancelAwaits(c)')
    BY <1>1 DEF ActingAttended, Acts, Admitted
  <2>2. ASSUME NEW q \in 1..Len(awaiting), awaiting[q] = CancelOf(c), q # 1 PROVE CancelAwaits(c)'
    <3>1. q \in (0 + 2)..Len(awaiting) /\ 0 \in 0..Len(awaiting') BY <1>2, <2>2
    <3>2. \E p \in (0 + 1)..Len(awaiting') : awaiting'[p] = CancelOf(c) BY <1>8, <2>2, <3>1
    <3> QED BY <3>2 DEF CancelAwaits, CancelOf
  <2>3. CASE m = OperationOf(c)
    <3>1. Admitted(c) BY <1>4, <2>1, <2>3
    <3>2. Attended(c, 0) \/ \E q \in (1 + 1)..Len(awaiting) : awaiting[q] = CancelOf(c)
      BY <1>2, <2>3 DEF PageInv, AwaitingAttended
    <3>3. Attended(c, 0) => Attended(c, 0)' BY <1>6
    <3>4. (\E q \in (1 + 1)..Len(awaiting) : awaiting[q] = CancelOf(c)) => CancelAwaits(c)'
      BY <1>2, <2>2
    <3> QED BY <3>1, <3>2, <3>3, <3>4
  <2>4. CASE m # OperationOf(c)
    <3>1. delegate[c] \in Acts /\ c \notin signalled BY <1>4, <2>1, <2>4
    <3>2. \/ pageCall[c].stage = "sent" /\ execution[pageCall[c].parent] # "runs"
          \/ Admitted(c) /\ (Attended(c, 0) \/ CancelAwaits(c))
      BY <3>1 DEF PageInv, ActingAttended
    <3>3. CASE m = CancelOf(c) BY <1>4, <2>1, <3>1, <3>2, <3>3
    <3>4. CASE m # CancelOf(c)
      <4>1. Attended(c, 0) => Attended(c, 0)' BY <1>6
      <4>2. CancelAwaits(c) => CancelAwaits(c)' BY <1>2, <2>2, <3>4 DEF CancelAwaits
      <4> QED BY <3>2, <4>1, <4>2
    <3> QED BY <3>3, <3>4
  <2> QED BY <2>3, <2>4
<1>11. ActsOnlyUp' BY <1>1 DEF ActsOnlyUp
<1>12. ParentsBegun' BY <1>1 DEF PageInv, ParentsBegun
<1>13. OnceOnly'
  <2>1. OnceOnly BY DEF PageInv
  <2>2. \A c \in PageCalls : m = OperationOf(c) => Awaited(c) BY <1>2 DEF Awaited
  <2>3. \A c \in PageCalls : (Queued(c)' <=> Queued(c)) /\ (NotSent(c)' <=> NotSent(c))
    BY <1>1 DEF Queued, NotSent, OperationOf
  <2>4. ASSUME NEW c \in PageCalls, NEW i \in 1..Len(awaiting'), awaiting'[i] = OperationOf(c)
        PROVE  Awaited(c) /\ m # OperationOf(c)
    <3>1. i + 1 \in 1..Len(awaiting) /\ awaiting[i + 1] = OperationOf(c) /\ i + 1 # 1 BY <1>2, <2>4
    <3> QED BY <1>2, <2>1, <3>1 DEF OnceOnly, Awaited
  <2>5. \A c \in PageCalls : Awaited(c)' => Awaited(c) /\ m # OperationOf(c)
    BY <2>4 DEF Awaited, OperationOf
  <2>6. \A c \in PageCalls : /\ Queued(c)' \/ Awaited(c)' => ~NotSent(c)' /\ delegate'[c] = "none"
                             /\ ~(Queued(c)' /\ Awaited(c)')
                             /\ NotSent(c)' => delegate'[c] = "none"
    BY <1>4, <2>1, <2>2, <2>3, <2>5 DEF OnceOnly
  <2>7. ASSUME NEW c \in PageCalls, NEW i \in 1..Len(awaiting'), NEW j \in 1..Len(awaiting'),
               awaiting'[i] = OperationOf(c), awaiting'[j] = OperationOf(c)
        PROVE  i = j
    <3>1. /\ i + 1 \in 1..Len(awaiting) /\ awaiting[i + 1] = OperationOf(c)
          /\ j + 1 \in 1..Len(awaiting) /\ awaiting[j + 1] = OperationOf(c)
      BY <1>2, <2>7
    <3>2. i + 1 = j + 1 BY <2>1, <3>1 DEF OnceOnly
    <3> QED BY <1>2, <3>2
  <2>8. \A c \in PageCalls, i, j \in 1..Len(toWorker') :
              toWorker'[i] = OperationOf(c) /\ toWorker'[j] = OperationOf(c) => i = j
    BY <1>1, <2>1 DEF OnceOnly
  <2> QED BY <2>6, <2>7, <2>8 DEF OnceOnly, OperationOf
<1> QED BY <1>5, <1>7, <1>9, <1>10, <1>11, <1>12, <1>13 DEF PageInv

\* A worker that starts is greeted with messages that hurt nothing.
LEMMA WorkerWakesKeeps ==
  ASSUME PageInv, WorkerWakes
  PROVE  PageInv'
<1>1. /\ pageWorker = "down" /\ pageWorker' = "starting"
      /\ UNCHANGED <<awaiting, delegate, signalled, forwarding, sessionKnown, shown>>
      /\ UNCHANGED <<execution, pageCall, released, pageSnapshots, pageEnds>>
  BY DEF WorkerWakes, knowledge, documentSide, operationSide
<1>2. PICK greeting \in {<<>>, <<HelloFor(pageEnds)>>, <<HelloFor(pageEnds), SnapshotOf(ActiveNow)>>} :
        Sends((IF released THEN <<>> ELSE greeting) \o <<RecoveredFor(pageEnds)>>)
  BY DEF WorkerWakes
<1>3. PICK ms : ms = (IF released THEN <<>> ELSE greeting) \o <<RecoveredFor(pageEnds)>> OBVIOUS
<1>4. ActiveNow \in SUBSET PageExecutions /\ \A e \in PageExecutions : execution[e] = "runs" => e \in ActiveNow
  BY DEF ActiveNow
<1>5. pageEnds \in Nat BY DEF PageInv, PageTypeOK
<1>6. /\ HelloFor(pageEnds) \in Messages /\ RecoveredFor(pageEnds) \in Messages
      /\ SnapshotOf(ActiveNow) \in Messages
  BY <1>4, <1>5, MessagesTyped
<1>7. /\ ms \in Seq(Messages) /\ Len(ms) \in Nat
      /\ \A k \in 1..Len(ms) : ms[k] \in {HelloFor(pageEnds), SnapshotOf(ActiveNow), RecoveredFor(pageEnds)}
  <2> DEFINE S == {HelloFor(pageEnds), SnapshotOf(ActiveNow), RecoveredFor(pageEnds)}
             first == IF released THEN <<>> ELSE greeting
  <2>1. first \in Seq(S) /\ <<RecoveredFor(pageEnds)>> \in Seq(S)
    <3>1. /\ << >> \in Seq(S) /\ <<HelloFor(pageEnds)>> \in Seq(S)
          /\ <<HelloFor(pageEnds), SnapshotOf(ActiveNow)>> \in Seq(S)
          /\ <<RecoveredFor(pageEnds)>> \in Seq(S)
      OBVIOUS
    <3> HIDE DEF S
    <3> QED BY <1>2, <3>1
  <2>2. S \subseteq Messages BY <1>6
  <2>3. ms = first \o <<RecoveredFor(pageEnds)>> BY <1>3
  <2> HIDE DEF S, first
  <2>4. ms \in Seq(S) BY <2>1, <2>3
  <2>5. Len(ms) \in Nat /\ ms \in [1..Len(ms) -> S] BY <2>4
  <2>6. ms \in [1..Len(ms) -> Messages] BY <2>2, <2>5
  <2>7. ms \in Seq(Messages) BY <2>5, <2>6
  <2> QED BY <2>5, <2>7 DEF S
<1>8. toWorker' = toWorker \o ms BY <1>2, <1>3 DEF Sends
<1>9. \A c \in PageCalls, k \in 1..Len(ms) : ms[k] # OperationOf(c) BY <1>7, MessagesDiffer
<1>10. ASSUME NEW c \in PageCalls PROVE Serves(c, ms)
  <2>1. SUFFICES ASSUME pageCall[c].stage = "sent" PROVE Spared(c, ms)
    BY <1>1 DEF Serves
  <2>2. pageCall[c].parent \in PageExecutions BY <2>1 DEF PageInv, ParentsBegun
  <2>3. ASSUME NEW k \in 1..Len(ms), execution[pageCall[c].parent] = "runs"
        PROVE  Harmless(pageCall[c].parent, ms[k])
    BY <1>4, <1>7, <2>2, <2>3, MessagesHarmless
  <2> QED BY <1>1, <2>1, <2>3 DEF Spared
<1>11. QueuedAttended' /\ AwaitingAttended' /\ ActingAttended'
  <2>1. toWorker \in Seq(Messages) BY DEF PageInv, PageTypeOK
  <2>2. \A i \in (Len(toWorker) + 1)..Len(toWorker') : i - Len(toWorker) \in 1..Len(ms)
    BY <1>7, <1>8, <2>1, Appended
  <2>3. \A c \in PageCalls, i \in (Len(toWorker) + 1)..Len(toWorker') : ms[i - Len(toWorker)] # OperationOf(c)
    BY <1>9, <2>2
  <2>4. forwarding \subseteq forwarding' BY <1>1
  <2> QED BY <1>1, <1>7, <1>8, <1>10, <2>3, <2>4, KeptByAppending
<1>12. OnceOnly' BY <1>1, <1>7, <1>8, <1>9, OnceKept DEF NotSent
<1>13. PageTypeOK'
  <2>1. toWorker' \in Seq(Messages) BY <1>7, <1>8 DEF PageInv, PageTypeOK
  <2> QED BY <1>1, <2>1 DEF PageInv, PageTypeOK, IsControl, Acts
<1>14. ActsOnlyUp' BY <1>1 DEF PageInv, ActsOnlyUp, Acts
<1>15. ParentsBegun' BY <1>1 DEF PageInv, ParentsBegun
<1> QED BY <1>11, <1>12, <1>13, <1>14, <1>15 DEF PageInv

\* The worker dies with its operations and what it was sent.
LEMMA WorkerDiesKeeps ==
  ASSUME PageInv, WorkerDies
  PROVE  PageInv'
<1>1. /\ pageWorker' = "down" /\ pageEnds' = pageEnds + 1
      /\ forwarding' = {} /\ shown' = {} /\ sessionKnown' = FALSE /\ awaiting' = << >>
      /\ delegate' = [c \in PageCalls |->
           IF delegate[c] \in Acts \/ OperationOf(c) \in ToSet(awaiting) THEN "lost" ELSE delegate[c]]
      /\ UNCHANGED <<execution, pageCall, released, pageSnapshots, toWorker, signalled>>
  BY DEF WorkerDies, documentSide
<1>2. << >> \in Seq(Messages) /\ Len(<< >>) = 0 /\ 1..0 = {} OBVIOUS
<1>3. 1..Len(awaiting') = {} /\ awaiting' \in Seq(Messages) BY <1>1, <1>2
<1>4. \A c \in PageCalls : OperationOf(c) \in ToSet(awaiting) => Awaited(c)
  BY DEF ToSet, Awaited, PageInv, PageTypeOK
<1>5. ASSUME NEW c \in PageCalls
      PROVE  /\ delegate'[c] \notin Acts
             /\ delegate'[c] \in {"none", "ended", "lost"}
             /\ delegate[c] = "none" /\ ~Awaited(c) => delegate'[c] = "none"
  <2>1. delegate[c] \in Acts \cup {"none", "ended", "lost"} BY DEF PageInv, PageTypeOK
  <2> QED BY <1>1, <1>4, <2>1 DEF Acts
<1>6. PageTypeOK'
  <2>1. delegate' \in [PageCalls -> Acts \cup {"none", "ended", "lost"}] BY <1>1, <1>5
  <2>2. /\ awaiting' \in Seq(Messages) /\ \A i \in 1..Len(awaiting') : IsControl(awaiting'[i])
        /\ sessionKnown' \in BOOLEAN /\ released' \in BOOLEAN
        /\ pageEnds' \in Nat /\ pageSnapshots' \in Nat
    <3>1. released \in BOOLEAN /\ pageEnds \in Nat /\ pageSnapshots \in Nat BY DEF PageInv, PageTypeOK
    <3>2. sessionKnown' \in BOOLEAN BY <1>1
    <3>3. released' \in BOOLEAN BY <1>1, <3>1
    <3> QED BY <1>1, <1>3, <3>1, <3>2, <3>3
  <2>3. /\ execution' = execution /\ pageCall' = pageCall /\ toWorker' = toWorker /\ signalled' = signalled
        /\ forwarding' \subseteq PageExecutions /\ shown' \subseteq PageExecutions
        /\ pageWorker' \in {"up", "down", "starting"}
    BY <1>1
  <2> QED BY <2>1, <2>2, <2>3 DEF PageInv, PageTypeOK, IsControl, Acts
<1>7. QueuedAttended'
  <2>1. \A c \in PageCalls, i \in Nat : Attended(c, i)' <=> Attended(c, i)
    BY <1>1 DEF Attended, Unhurt, CancelFollows, Harmless, CancelOf, AnswerOf
  <2> QED BY <1>1, <2>1 DEF PageInv, PageTypeOK, QueuedAttended, OperationOf
<1>8. AwaitingAttended' BY <1>3 DEF AwaitingAttended
<1>9. ActingAttended' /\ ActsOnlyUp' BY <1>5 DEF ActingAttended, ActsOnlyUp, Acts
<1>10. ParentsBegun' BY <1>1 DEF PageInv, ParentsBegun
<1>11. OnceOnly'
  <2>1. OnceOnly BY DEF PageInv
  <2>2. \A c \in PageCalls : /\ Queued(c)' <=> Queued(c)
                             /\ NotSent(c)' <=> NotSent(c)
                             /\ ~Awaited(c)'
    BY <1>1, <1>3 DEF Queued, NotSent, Awaited, OperationOf
  <2>3. \A c \in PageCalls : /\ Queued(c)' \/ Awaited(c)' => ~NotSent(c)' /\ delegate'[c] = "none"
                             /\ ~(Queued(c)' /\ Awaited(c)')
                             /\ NotSent(c)' => delegate'[c] = "none"
    BY <1>5, <2>1, <2>2 DEF OnceOnly
  <2>4. \A c \in PageCalls, i, j \in 1..Len(toWorker') :
              toWorker'[i] = OperationOf(c) /\ toWorker'[j] = OperationOf(c) => i = j
    BY <1>1, <2>1 DEF OnceOnly
  <2>5. \A c \in PageCalls, i, j \in 1..Len(awaiting') :
         awaiting'[i] = OperationOf(c) /\ awaiting'[j] = OperationOf(c) => i = j
    BY <1>3
  <2> QED BY <2>3, <2>4, <2>5 DEF OnceOnly, OperationOf
<1> QED BY <1>6, <1>7, <1>8, <1>9, <1>10, <1>11 DEF PageInv

\* No operation belongs to an execution that has not begun.
LEMMA ExecutionBeginsKeeps ==
  ASSUME PageInv, NEW e \in PageExecutions, ExecutionBegins(e)
  PROVE  PageInv'
<1>1. /\ execution[e] = "none" /\ execution' = [execution EXCEPT ![e] = "runs"]
      /\ released = FALSE /\ forwarding' = forwarding \cup {e}
      /\ UNCHANGED <<pageCall, toWorker, pageWorker, awaiting, sessionKnown, shown, released>>
      /\ UNCHANGED <<delegate, signalled, pageSnapshots, pageEnds>>
  BY DEF ExecutionBegins, PageInv, PageTypeOK, operationSide
<1>2. execution' \in [PageExecutions -> {"none", "runs", "stopping", "over"}]
      /\ execution'[e] = "runs" /\ \A d \in PageExecutions : d # e => execution'[d] = execution[d]
  BY <1>1 DEF PageInv, PageTypeOK
<1> DEFINE ms == << >>
<1>3. ms \in Seq(Messages) /\ 1..Len(ms) = {} /\ toWorker' = toWorker \o ms
  BY <1>1 DEF PageInv, PageTypeOK
<1> HIDE DEF ms
<1>4. ASSUME NEW c \in PageCalls PROVE Serves(c, ms)
  <2>1. CASE pageCall[c].stage = "none" BY <2>1, NotSentIsIdle DEF NotSent, Serves
  <2>2. CASE pageCall[c].stage # "none"
    <3>1. pageCall[c].parent \in PageExecutions /\ pageCall[c].parent # e
      BY <1>1, <2>2 DEF PageInv, ParentsBegun
    <3> QED BY <1>1, <1>2, <1>3, <3>1 DEF Serves, Spared
  <2> QED BY <2>1, <2>2
<1>5. QueuedAttended' /\ AwaitingAttended' /\ ActingAttended'
  <2>1. (Len(toWorker) + 1)..Len(toWorker') = {} BY <1>1 DEF PageInv, PageTypeOK
  <2>2. forwarding \subseteq forwarding' BY <1>1
  <2> QED BY <1>1, <1>3, <1>4, <2>1, <2>2, KeptByAppending
<1>6. OnceOnly' BY <1>1, <1>3, OnceKept DEF NotSent
<1>7. PageTypeOK' BY <1>1, <1>2 DEF PageInv, PageTypeOK, IsControl, Acts
<1>8. ActsOnlyUp' BY <1>1 DEF PageInv, ActsOnlyUp, Acts
<1>9. ParentsBegun' BY <1>1, <1>2 DEF PageInv, ParentsBegun
<1> QED BY <1>5, <1>6, <1>7, <1>8, <1>9 DEF PageInv

\* What the delegate of an operation does keeps the invariant.
LEMMA DelegateStepsKeep ==
  ASSUME PageInv, NEW c \in PageCalls, DelegateSteps(c)
  PROVE  PageInv'
<1>1. /\ delegate[c] \in Acts /\ delegate \in [PageCalls -> Acts \cup {"none", "ended", "lost"}]
      /\ \E s \in {"creating", "acting", "ended"} : delegate' = [delegate EXCEPT ![c] = s]
      /\ UNCHANGED <<execution, pageCall, released, pageSnapshots, toWorker, pageWorker, awaiting>>
      /\ UNCHANGED <<forwarding, sessionKnown, shown, signalled, pageEnds>>
  <2>1. /\ delegate[c] \in Acts /\ delegate \in [PageCalls -> Acts \cup {"none", "ended", "lost"}]
        /\ UNCHANGED <<execution, pageCall, released, pageSnapshots, toWorker, pageWorker, awaiting>>
        /\ UNCHANGED <<forwarding, sessionKnown, shown, signalled, pageEnds>>
    BY DEF DelegateSteps, DelegateGoesOn, DelegateEnds, Acts, documentSide, knowledge, PageInv, PageTypeOK
  <2>2. DelegateGoesOn(c) => delegate' \in {[delegate EXCEPT ![c] = "creating"], [delegate EXCEPT ![c] = "acting"]}
    BY DEF DelegateGoesOn
  <2>3. DelegateEnds(c) => delegate' = [delegate EXCEPT ![c] = "ended"]
    BY DEF DelegateEnds
  <2> QED BY <2>1, <2>2, <2>3 DEF DelegateSteps
<1>2. /\ delegate' \in [PageCalls -> Acts \cup {"none", "ended", "lost"}]
      /\ \A d \in PageCalls : /\ delegate'[d] \in Acts => delegate[d] \in Acts
                              /\ delegate[d] = "none" => delegate'[d] = "none"
  BY <1>1 DEF Acts
<1>3. \A d \in PageCalls, i \in Nat : Attended(d, i)' <=> Attended(d, i)
  BY <1>1 DEF Attended, Unhurt, CancelFollows, Harmless, CancelOf, AnswerOf
<1>4. QueuedAttended' /\ AwaitingAttended'
  <2>1. QueuedAttended' BY <1>1, <1>3 DEF PageInv, PageTypeOK, QueuedAttended, OperationOf
  <2>2. \A d \in PageCalls : Attended(d, 0)' <=> Attended(d, 0) BY <1>3
  <2>3. AwaitingAttended' BY <1>1, <2>2 DEF PageInv, AwaitingAttended, OperationOf, CancelOf
  <2> QED BY <2>1, <2>3
<1>5. ActingAttended'
  <2>1. \A d \in PageCalls : (Admitted(d)' <=> Admitted(d)) /\ (CancelAwaits(d)' <=> CancelAwaits(d))
    BY <1>1 DEF Admitted, CancelAwaits, CancelOf
  <2> QED BY <1>1, <1>2, <1>3, <2>1 DEF PageInv, ActingAttended, Acts
<1>6. PageTypeOK' BY <1>1, <1>2 DEF PageInv, PageTypeOK, IsControl, Acts
<1>7. ActsOnlyUp' BY <1>1, <1>2 DEF PageInv, ActsOnlyUp, Acts
<1>8. ParentsBegun' BY <1>1 DEF PageInv, ParentsBegun
<1>9. OnceOnly' BY <1>1, <1>2 DEF PageInv, OnceOnly, Queued, Awaited, NotSent, OperationOf
<1> QED BY <1>4, <1>5, <1>6, <1>7, <1>8, <1>9 DEF PageInv

-----------------------------------------------------------------------------
(* The specification *)

\* At the start there is no call.
LEMMA PageInvInitially == PageInit => PageInv
<1> SUFFICES ASSUME PageInit PROVE PageInv
  OBVIOUS
<1>1. << >> \in Seq(Messages) /\ 1..Len(<< >>) = {} OBVIOUS
<1>2. 1..Len(toWorker) = {} /\ 1..Len(awaiting) = {} BY <1>1 DEF PageInit
<1>3. PageTypeOK
  <2>1. toWorker \in Seq(Messages) /\ awaiting \in Seq(Messages) BY <1>1 DEF PageInit
  <2>2. 0 \in 0..MaxPageExecutions BY BoundsNat
  <2>3. pageCall \in [PageCalls -> [stage : {"none", "made", "sent", "dropped", "settled"},
                                    parent : 0..MaxPageExecutions]]
    BY <2>2 DEF PageInit
  <2> QED BY <1>2, <2>1, <2>3 DEF PageInit, PageTypeOK, Acts
<1>4. QueuedAttended /\ AwaitingAttended BY <1>2 DEF QueuedAttended, AwaitingAttended
<1>5. ActingAttended /\ ActsOnlyUp BY DEF PageInit, ActingAttended, ActsOnlyUp, Acts
<1>6. ParentsBegun BY DEF PageInit, ParentsBegun
<1>7. OnceOnly BY <1>2 DEF PageInit, OnceOnly, Queued, Awaited
<1> QED BY <1>3, <1>4, <1>5, <1>6, <1>7 DEF PageInv

\* A step of something else keeps the invariant.
LEMMA StutterKeeps ==
  ASSUME PageInv, UNCHANGED pageVars
  PROVE  PageInv'
<1>1. /\ UNCHANGED <<execution, pageCall, toWorker, pageWorker, awaiting, forwarding, sessionKnown, shown>>
      /\ UNCHANGED <<released, delegate, signalled, pageSnapshots, pageEnds>>
  BY DEF pageVars
<1>2. \A c \in PageCalls, i \in Nat : Attended(c, i)' <=> Attended(c, i)
  BY <1>1 DEF Attended, Unhurt, CancelFollows, Harmless, CancelOf, AnswerOf
<1>3. QueuedAttended' BY <1>1, <1>2 DEF PageInv, PageTypeOK, QueuedAttended, OperationOf
<1>4. \A c \in PageCalls : Attended(c, 0)' <=> Attended(c, 0) BY <1>2
<1>5. AwaitingAttended' BY <1>1, <1>4 DEF PageInv, AwaitingAttended, OperationOf, CancelOf
<1>6. ActingAttended'
  <2>1. \A c \in PageCalls : (Admitted(c)' <=> Admitted(c)) /\ (CancelAwaits(c)' <=> CancelAwaits(c))
    BY <1>1 DEF Admitted, CancelAwaits, CancelOf
  <2> QED BY <1>1, <1>4, <2>1 DEF PageInv, ActingAttended, Acts
<1>7. PageTypeOK' BY <1>1 DEF PageInv, PageTypeOK, IsControl, Acts
<1>8. ActsOnlyUp' /\ ParentsBegun' BY <1>1 DEF PageInv, ActsOnlyUp, ParentsBegun, Acts
<1>9. OnceOnly' BY <1>1 DEF PageInv, OnceOnly, Queued, Awaited, NotSent, OperationOf
<1> QED BY <1>3, <1>5, <1>6, <1>7, <1>8, <1>9 DEF PageInv

\* Every step keeps the invariant.
LEMMA PageInvStep == PageInv /\ [PageNext]_pageVars => PageInv'
<1> SUFFICES ASSUME PageInv, [PageNext]_pageVars PROVE PageInv'
  OBVIOUS
<1>1. CASE DocumentSteps BY <1>1, DocumentStepsKeep
<1>2. CASE MessageTaken BY <1>2, LearnedKeeps, ControlTakenKeeps, ControlAwaitsKeeps
<1>3. CASE AwaitingHandled BY <1>3, AwaitingHandledKeeps
<1>4. CASE WorkerWakes BY <1>4, WorkerWakesKeeps
<1>5. CASE WorkerDies BY <1>5, WorkerDiesKeeps
<1>6. ASSUME NEW e \in PageExecutions, ExecutionBegins(e) PROVE PageInv'
  BY <1>6, ExecutionBeginsKeeps
<1>7. ASSUME NEW c \in PageCalls, DelegateSteps(c) PROVE PageInv'
  BY <1>7, DelegateStepsKeep
<1>8. CASE UNCHANGED pageVars BY <1>8, StutterKeeps
<1> QED BY <1>1, <1>2, <1>3, <1>4, <1>5, <1>6, <1>7, <1>8 DEF PageNext

\* An operation that acts has a caller that waits, or a cancellation on its way.
LEMMA PageInvSuffices == PageInv => ActsForSomebody
<1> SUFFICES ASSUME PageInv, NEW c \in PageCalls, delegate[c] \in Acts, c \notin signalled
             PROVE  pageCall[c].stage = "sent" \/ CancelOf(c) \in ToSet(awaiting \o toWorker)
  BY DEF ActsForSomebody
<1>1. toWorker \in Seq(Messages) /\ awaiting \in Seq(Messages) BY DEF PageInv, PageTypeOK
<1>2. /\ \A q \in 1..Len(awaiting) : awaiting[q] \in ToSet(awaiting \o toWorker)
      /\ \A q \in 1..Len(toWorker) : toWorker[q] \in ToSet(awaiting \o toWorker)
  <2>1. /\ Len(awaiting \o toWorker) = Len(awaiting) + Len(toWorker)
        /\ \A q \in 1..Len(awaiting) : (awaiting \o toWorker)[q] = awaiting[q]
        /\ \A q \in 1..Len(toWorker) : (awaiting \o toWorker)[Len(awaiting) + q] = toWorker[q]
        /\ Len(awaiting) \in Nat /\ Len(toWorker) \in Nat
    BY <1>1
  <2>2. DOMAIN (awaiting \o toWorker) = 1..(Len(awaiting) + Len(toWorker)) BY <1>1
  <2>3. \A q \in 1..(Len(awaiting) + Len(toWorker)) : (awaiting \o toWorker)[q] \in ToSet(awaiting \o toWorker)
    BY <2>2 DEF ToSet
  <2>4. \A q \in 1..Len(toWorker) : Len(awaiting) + q \in 1..(Len(awaiting) + Len(toWorker)) BY <2>1
  <2> QED BY <2>1, <2>3, <2>4
<1>3. CASE Attended(c, 0) BY <1>1, <1>2, <1>3 DEF Attended, Unhurt, CancelFollows
<1>4. CASE CancelAwaits(c) BY <1>2, <1>4 DEF CancelAwaits
<1> QED BY <1>3, <1>4 DEF PageInv, ActingAttended

\* The invariant holds in every behaviour.
THEOREM PageInvariant == PageSpec => []PageInv
BY PageInvInitially, PageInvStep, PTL DEF PageSpec

\* What an operation does to a page, somebody wants.
THEOREM NothingActsUnattended == PageSpec => []ActsForSomebody
BY PageInvariant, PageInvSuffices, PTL
=============================================================================
