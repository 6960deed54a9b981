--------------------------- MODULE Bridge_proofs ----------------------------
(***************************************************************************)
(* The bridge keeps the writes of CLIs apart and gives every request its   *)
(* own answer, for any CLIs, windows, requests, connections and restarts.  *)
(*                                                                         *)
(* Nobody holds a lock until a write is done: the lock is free when its    *)
(* CLI is gone, and the window may still run, or still have to read, what  *)
(* that CLI had written.  What keeps the next writer apart is the order of *)
(* the connection: the abort of the first write is in the queue before the *)
(* second is put there, and a write that nobody waits for has its abort in *)
(* the queue.  A lock that a change of session frees has no such abort     *)
(* behind it: what was under way then is written down as outlived, and     *)
(* counts as a write no longer.                                            *)
(*                                                                         *)
(* An answer finds its request by a number, and a number is in one place:  *)
(* in the queue, with the command that runs for it, or in its answer.      *)
(***************************************************************************)
EXTENDS Bridge, FiniteSetTheorems, TLAPS

-----------------------------------------------------------------------------
(* Messages, connections and queues *)

\* What travels on a connection, what a connection, a waiting request and a running command are.
ToExtension == [type : {"request"}, relay : Nat, request : Requests] \cup [type : {"abort"}, relay : Nat]
               \cup [type : {"stop"}]
FromExtension == [type : {"register"}] \cup [type : {"response"}, relay : Nat, request : Requests, ok : BOOLEAN]
                 \cup [type : {"final"}, recording : Requests] \cup [type : {"changed"}, session : WindowSessions]
Sides == {"open", "registered", "closing", "closed"}
SocketStates == [window : {None}, side : {None}, open : {FALSE}] \cup [window : Windows, side : Sides, open : BOOLEAN]
Waiters == [relay : Nat, request : Requests, window : Windows, conn : Sockets]
Commands == [relay : Nat, request : Requests, conn : Sockets, aborted : BOOLEAN, abortable : BOOLEAN, begun : BOOLEAN]

\* What a queue asks for or answers, and an abort in it between two places.
AskedIn(s) == {s[i] : i \in {i \in DOMAIN s : s[i].type = "request"}}
AnsweredIn(s) == {s[i] : i \in {i \in DOMAIN s : s[i].type = "response"}}
AskAt(s, i) == i \in DOMAIN s /\ s[i].type = "request"
AbortBetween(s, k, j, relay) ==
  \E i \in DOMAIN s : k < i /\ i < j /\ s[i].type = "abort" /\ s[i].relay = relay

\* What may become of a connection (handleRegistration, handleDisconnect): it stays one.
LEMMA SocketState ==
  ASSUME NEW x \in SocketStates
  PROVE  /\ [x EXCEPT !.open = FALSE] \in SocketStates
         /\ x.side # None => /\ x.window \in Windows /\ x.side \in Sides
                            /\ \A side \in Sides : /\ [x EXCEPT !.side = side] \in SocketStates
                                                  /\ [x EXCEPT !.side = side, !.open = FALSE] \in SocketStates
         /\ x.side = None => x.window = None /\ ~x.open
         /\ x.open \in BOOLEAN /\ None \notin Sides
<1>1. None \notin Sides BY DEF Sides, None
<1>2. CASE x \in [window : {None}, side : {None}, open : {FALSE}]
  <2>1. [x EXCEPT !.open = FALSE] \in [window : {None}, side : {None}, open : {FALSE}] BY <1>2
  <2> QED BY <1>1, <1>2, <2>1 DEF SocketStates
<1>3. CASE x \in [window : Windows, side : Sides, open : BOOLEAN]
  <2>1. [x EXCEPT !.open = FALSE] \in [window : Windows, side : Sides, open : BOOLEAN] BY <1>3
  <2>2. \A side \in Sides : /\ [x EXCEPT !.side = side] \in [window : Windows, side : Sides, open : BOOLEAN]
                           /\ [x EXCEPT !.side = side, !.open = FALSE] \in [window : Windows, side : Sides, open : BOOLEAN]
    BY <1>3
  <2> QED BY <1>1, <1>3, <2>1, <2>2 DEF SocketStates
<1> QED BY <1>2, <1>3 DEF SocketStates

\* The messages to several, in whatever order a Map gives them: each is there.
LEMMA SetToSeqHas ==
  ASSUME NEW S, IsFiniteSet(S)
  PROVE  SetToSeq(S) \in Seq(S) /\ \A x \in S : \E i \in DOMAIN SetToSeq(S) : SetToSeq(S)[i] = x
<1> DEFINE n == Cardinality(S)
           s == SetToSeq(S)
<1>1. n \in Nat /\ ExistsBijection(1..n, S)
  BY FS_CardinalityType
<1>2. \E f \in [1..n -> S] : IsInjective(f)
  BY <1>1 DEF ExistsBijection, Bijection, Injection
<1>3. s \in [1..n -> S] /\ IsInjective(s)
  BY <1>2 DEF SetToSeq
<1>4. s \in Injection(1..n, S) BY <1>3 DEF Injection
<1>5. IsFiniteSet(1..n) /\ Cardinality(1..n) = n BY <1>1, FS_Interval
<1> HIDE DEF s
<1>6. s \in Surjection(1..n, S)
  BY <1>4, <1>5, FS_Injection
<1>7. \A x \in S : \E i \in 1..n : s[i] = x
  BY <1>6 DEF Surjection
<1> QED BY <1>1, <1>3, <1>7 DEF s

\* What is taken from a queue, put into it, or put after it.
LEMMA QueueTaken ==
  ASSUME NEW M, NEW s \in Seq(M), s # <<>>
  PROVE  /\ Tail(s) \in Seq(M) /\ Head(s) \in M /\ Len(s) \in Nat /\ Len(Tail(s)) = Len(s) - 1
         /\ AskedIn(Tail(s)) \subseteq AskedIn(s) /\ AnsweredIn(Tail(s)) \subseteq AnsweredIn(s)
         /\ \A i \in DOMAIN Tail(s) : Tail(s)[i] = s[i + 1] /\ i + 1 \in DOMAIN s /\ i \in Nat /\ i >= 1
         /\ Head(s).type = "request" => Head(s) \in AskedIn(s)
         /\ Head(s).type = "response" => Head(s) \in AnsweredIn(s)
<1>1. /\ Tail(s) \in Seq(M) /\ Head(s) \in M /\ Len(s) \in Nat /\ Len(Tail(s)) = Len(s) - 1
      /\ DOMAIN s = 1..Len(s) /\ DOMAIN Tail(s) = 1..Len(Tail(s)) /\ Len(s) >= 1 /\ Head(s) = s[1]
  OBVIOUS
<1>2. \A i \in DOMAIN Tail(s) : Tail(s)[i] = s[i + 1] /\ i + 1 \in DOMAIN s /\ i \in Nat /\ i >= 1
  BY <1>1
<1> QED BY <1>1, <1>2 DEF AskedIn, AnsweredIn

\* When the first message is taken (handleMessage), an abort was it, or is there one place sooner.
LEMMA AbortTaken ==
  ASSUME NEW M, NEW s \in Seq(M), s # <<>>, NEW k \in Nat, NEW j \in Nat, NEW relay, AbortBetween(s, k, j, relay)
  PROVE  \/ Head(s).type = "abort" /\ Head(s).relay = relay /\ k = 0
         \/ k = 0 /\ AbortBetween(Tail(s), 0, j - 1, relay)
         \/ k # 0 /\ AbortBetween(Tail(s), k - 1, j - 1, relay)
<1>1. PICK i \in DOMAIN s : k < i /\ i < j /\ s[i].type = "abort" /\ s[i].relay = relay
  BY DEF AbortBetween
<1>2. DOMAIN s = 1..Len(s) /\ DOMAIN Tail(s) = 1..(Len(s) - 1) /\ Len(s) \in Nat /\ Head(s) = s[1]
  OBVIOUS
<1>3. CASE i = 1 BY <1>1, <1>2, <1>3
<1>4. CASE i # 1
  <2>1. i - 1 \in DOMAIN Tail(s) /\ Tail(s)[i - 1] = s[i] BY <1>2, <1>4
  <2>2. i \in Nat /\ 0 < i - 1 /\ (k # 0 => k - 1 < i - 1) /\ i - 1 < j - 1 BY <1>1, <1>2, <1>4
  <2> QED BY <1>1, <2>1, <2>2 DEF AbortBetween
<1> QED BY <1>3, <1>4

\* An abort before a place is before every later one.
LEMMA AbortSooner ==
  ASSUME NEW M, NEW s \in Seq(M), NEW k \in Nat, NEW i \in Nat, NEW j \in Nat, i <= j, NEW relay, AbortBetween(s, k, i, relay)
  PROVE  AbortBetween(s, k, j, relay)
<1>1. PICK x \in DOMAIN s : k < x /\ x < i /\ s[x].type = "abort" /\ s[x].relay = relay BY DEF AbortBetween
<1>2. x \in Nat OBVIOUS
<1>3. x < j BY <1>1, <1>2
<1> QED BY <1>1, <1>3 DEF AbortBetween

\* What is put after a queue (sendJson) leaves what was there at its place.
LEMMA QueueGrows ==
  ASSUME NEW M, NEW s \in Seq(M), NEW t \in Seq(M)
  PROVE  /\ s \o t \in Seq(M) /\ Len(s \o t) = Len(s) + Len(t) /\ Len(s) \in Nat /\ Len(t) \in Nat
         /\ AskedIn(s \o t) \subseteq AskedIn(s) \cup AskedIn(t)
         /\ AnsweredIn(s \o t) \subseteq AnsweredIn(s) \cup AnsweredIn(t)
         /\ \A i \in DOMAIN s : i \in DOMAIN (s \o t) /\ (s \o t)[i] = s[i] /\ i \in Nat /\ i >= 1 /\ i <= Len(s)
         /\ \A i \in DOMAIN t : Len(s) + i \in DOMAIN (s \o t) /\ (s \o t)[Len(s) + i] = t[i]
         /\ \A i \in DOMAIN (s \o t) : i \in DOMAIN s \/ (i - Len(s) \in DOMAIN t /\ (s \o t)[i] = t[i - Len(s)])
         /\ \A k, j, relay : AbortBetween(s, k, j, relay) => AbortBetween(s \o t, k, j, relay)
<1>1. /\ s \o t \in Seq(M) /\ Len(s \o t) = Len(s) + Len(t) /\ Len(s) \in Nat /\ Len(t) \in Nat
      /\ DOMAIN s = 1..Len(s) /\ DOMAIN t = 1..Len(t) /\ DOMAIN (s \o t) = 1..(Len(s) + Len(t))
      /\ \A i \in DOMAIN (s \o t) : (s \o t)[i] = IF i <= Len(s) THEN s[i] ELSE t[i - Len(s)]
  OBVIOUS
<1>2. \A i \in DOMAIN s : i \in DOMAIN (s \o t) /\ (s \o t)[i] = s[i] /\ i \in Nat /\ i >= 1 /\ i <= Len(s)
  BY <1>1
<1>3. \A i \in DOMAIN t : Len(s) + i \in DOMAIN (s \o t) /\ (s \o t)[Len(s) + i] = t[i]
  BY <1>1
<1>4. \A i \in DOMAIN (s \o t) : i \in DOMAIN s \/ (i - Len(s) \in DOMAIN t /\ (s \o t)[i] = t[i - Len(s)])
  BY <1>1
<1>5. \A i \in DOMAIN (s \o t) : (i \in DOMAIN s /\ (s \o t)[i] = s[i]) \/ \E j \in DOMAIN t : (s \o t)[i] = t[j]
  BY <1>2, <1>4
<1> QED BY <1>1, <1>2, <1>3, <1>4, <1>5 DEF AskedIn, AnsweredIn, AbortBetween

-----------------------------------------------------------------------------
(* The inductive invariant *)

\* What a step may do to the requests in a queue: take the first messages.
KeepsAsks(s, t) == \E d \in Nat : \A i \in Nat : AskAt(t, i) => AskAt(s, i + d) /\ t[i] = s[i + d]

BridgeTypeOK ==
  /\ sock \in [Sockets -> SocketStates]
  /\ toExt \in [Sockets -> Seq(ToExtension)] /\ toServer \in [Sockets -> Seq(FromExtension)]
  /\ handle \in [Windows -> Sockets \cup {0}] /\ handleOrder \in Seq(Windows) /\ activeKey \in Windows \cup {None}
  /\ lock \in [Windows -> Clis \cup {None}]
  /\ pending \subseteq Waiters /\ IsFiniteSet(pending) /\ nextRelay \in Nat
  /\ leases \subseteq [recording : Requests, cli : Clis, window : Windows] /\ IsFiniteSet(leases)
  /\ serverLives \in Nat \ {0}
  /\ answer \in [Requests -> Requests \cup {None, "waiting", "failed"}]
  /\ client \in [Windows -> Sockets \cup {0}]
  /\ running \in [Windows -> SUBSET Commands]
  /\ recordings \in [Windows -> SUBSET Requests] /\ \A w \in Windows : IsFiniteSet(recordings[w])

\* A window's connections are its own; what was sent on one, or runs for one, came after
\* it registered, which it does once; what came on the open one can be aborted.
HandlesFit == \A w \in Windows : handle[w] # 0 =>
  sock[handle[w]].window = w /\ sock[handle[w]].side \in {"registered", "closing"}
ClientsFit == \A w \in Windows : client[w] # 0 => sock[client[w]].window = w
Unregistered(n) == sock[n].side \in {None, "open"}
QuietBefore == \A n \in Sockets : Unregistered(n) =>
  /\ toExt[n] = <<>> /\ \A p \in pending : p.conn # n
  /\ \A w \in Windows : \A r \in running[w] : r.conn # n
RegistersOnce == \A n \in Sockets : \A i \in DOMAIN toServer[n] :
  toServer[n][i].type = "register" => i = 1 /\ sock[n].side = "open"
ConnsFit ==
  /\ \A p \in pending : sock[p.conn].window = p.window
  /\ \A w \in Windows : \A r \in running[w] :
       /\ sock[r.conn].window = w
       /\ r.conn = client[w] /\ sock[r.conn].open => r.abortable
SocketsFit == HandlesFit /\ ClientsFit /\ QuietBefore /\ RegistersOnce /\ ConnsFit

\* The number of a request is in one place: in the queue of the connection it was sent on,
\* with the command that runs for it, or with its answers.
AskedFit(m, n) ==
  /\ m.relay < nextRelay
  /\ \A p \in pending : p.relay = m.relay => p.request = m.request /\ p.conn = n
  /\ \A w \in Windows : \A r \in running[w] : r.relay # m.relay
  /\ \A k \in Sockets : \A a \in AnsweredIn(toServer[k]) : a.relay # m.relay
RunFits(r) ==
  /\ r.relay < nextRelay
  /\ \A p \in pending : p.relay = r.relay => p.request = r.request /\ p.conn = r.conn
  /\ \A k \in Sockets : \A a \in AnsweredIn(toServer[k]) : a.relay # r.relay
AnswerFits(a) == a.relay < nextRelay /\ \A p \in pending : p.relay = a.relay => p.request = a.request
RelaysFit ==
  /\ \A p \in pending : p.relay < nextRelay
  /\ \A n \in Sockets : \A m \in AskedIn(toExt[n]) : AskedFit(m, n)
  /\ \A w \in Windows : \A r \in running[w] : RunFits(r)
  /\ \A k \in Sockets : \A a \in AnsweredIn(toServer[k]) : AnswerFits(a)
AskedOnce ==
  \A n, k \in Sockets : \A i, j \in Nat :
    AskAt(toExt[n], i) /\ AskAt(toExt[k], j) /\ toExt[n][i].relay = toExt[k][j].relay => n = k /\ i = j
RunOnce ==
  \A v, w \in Windows : \A r \in running[v], s \in running[w] : r.relay = s.relay => v = w /\ r = s

\* A write that has its lock still, or was aborted with it: no change of session took it away.
Writes(q) == Kind[q] = "write" /\ q \notin outlived
Acts(r, n) == Writes(r.request) /\ ~r.aborted /\ r.conn = n
WriteAt(n, i) == AskAt(toExt[n], i) /\ Writes(toExt[n][i].request)
Waits(relay) == \E p \in pending : p.relay = relay
Stands(n) == sock[n].side = "registered" /\ sock[n].open /\ handle[sock[n].window] = n

\* The writer that waits on a window's connection holds its lock.
WritersHoldLocks ==
  \A p \in pending : Writes(p.request) /\ p.conn = handle[p.window] => lock[p.window] = Issuer[p.request]

\* A write that nobody waits for will be aborted.
AbortsOwed ==
  \A n \in Sockets : Stands(n) =>
    /\ \A w \in Windows : \A r \in running[w] : Acts(r, n) =>
         Waits(r.relay) \/ AbortBetween(toExt[n], 0, Len(toExt[n]) + 1, r.relay)
    /\ \A j \in Nat : WriteAt(n, j) =>
         Waits(toExt[n][j].relay) \/ AbortBetween(toExt[n], j, Len(toExt[n]) + 1, toExt[n][j].relay)

\* Between the write of one CLI and that of another is the abort of the first.
WritersApart ==
  \A n \in Sockets : \A j \in Nat : WriteAt(n, j) =>
    /\ \A w \in Windows : \A r \in running[w] :
         Acts(r, n) /\ Issuer[r.request] # Issuer[toExt[n][j].request] => AbortBetween(toExt[n], 0, j, r.relay)
    /\ \A k \in Nat : WriteAt(n, k) /\ k < j /\ Issuer[toExt[n][k].request] # Issuer[toExt[n][j].request] =>
         AbortBetween(toExt[n], k, j, toExt[n][k].relay)
OneWriterActs ==
  \A w \in Windows : \A r, s \in running[w] :
    Writes(r.request) /\ Writes(s.request) /\ ~r.aborted /\ ~s.aborted /\ r.conn = s.conn
    => Issuer[r.request] = Issuer[s.request]
WritesFit == WritersHoldLocks /\ AbortsOwed /\ WritersApart /\ OneWriterActs

BridgeLive == SocketsFit /\ RelaysFit /\ AskedOnce /\ RunOnce /\ WritesFit /\ OwnAnswers
BridgeInv == BridgeTypeOK /\ (serverLives = 1 => BridgeLive)

-----------------------------------------------------------------------------
(* What is sent *)

\* A queue of some messages is a queue of messages.
LEMMA WiderSeq ==
  ASSUME NEW S, NEW M, S \subseteq M, NEW s \in Seq(S)
  PROVE  s \in Seq(M) /\ \A i \in DOMAIN s : s[i] \in S
<1>1. s \in [1..Len(s) -> S] /\ Len(s) \in Nat OBVIOUS
<1>2. s \in [1..Len(s) -> M] BY <1>1
<1> QED BY <1>1, <1>2

\* What a window sends when its recordings end is neither a registration nor an answer.
LEMMA FinalsAre ==
  ASSUME BridgeTypeOK, NEW w \in Windows
  PROVE  Finals(w) \in Seq(FromExtension) /\ AnsweredIn(Finals(w)) = {}
         /\ \A i \in DOMAIN Finals(w) : Finals(w)[i].type # "register"
<1> DEFINE M == [type : {"final"}, recording : Requests]
           f == [q \in recordings[w] |-> [type |-> "final", recording |-> q]]
           S == {[type |-> "final", recording |-> q] : q \in recordings[w]}
<1>1. IsFiniteSet(recordings[w]) /\ recordings[w] \subseteq Requests
  BY DEF BridgeTypeOK
<1>2. f \in Surjection(recordings[w], S)
  BY DEF Surjection
<1>3. IsFiniteSet(S) BY <1>1, <1>2, FS_Surjection
<1>4. S \subseteq M BY <1>1
<1>5. Finals(w) = SetToSeq(S) BY DEF Finals
<1> HIDE DEF S, M
<1>6. Finals(w) \in Seq(S) BY <1>3, <1>5, SetToSeqHas
<1>7. Finals(w) \in Seq(M) /\ \A i \in DOMAIN Finals(w) : Finals(w)[i] \in M
  BY <1>4, <1>6, WiderSeq
<1>8. \A x \in M : x.type = "final" BY DEF M
<1>9. M \subseteq FromExtension BY DEF M, FromExtension
<1>10. Finals(w) \in Seq(FromExtension) BY <1>7, <1>9, WiderSeq
<1> QED BY <1>7, <1>8, <1>10 DEF AnsweredIn

\* What a window sends when it tells a change of session is one message, and that says only this.
LEMMA ChangesAre ==
  ASSUME NEW w \in Windows, SessionChanges(w)
  PROVE  \E messages \in Seq(FromExtension) :
           /\ Sent(w, messages) /\ AnsweredIn(messages) = {}
           /\ \A i \in DOMAIN messages : messages[i].type = "changed"
<1>1. PICK s \in WindowSessions : Sent(w, <<[type |-> "changed", session |-> s]>>)
  BY DEF SessionChanges
<1> DEFINE m == [type |-> "changed", session |-> s]
<1>2. m \in FromExtension /\ m.type = "changed" BY DEF FromExtension
<1> HIDE DEF m
<1>3. <<m>> \in Seq(FromExtension) /\ \A i \in DOMAIN <<m>> : <<m>>[i].type = "changed"
  BY <1>2
<1>4. AnsweredIn(<<m>>) = {} BY <1>3 DEF AnsweredIn
<1>5. Sent(w, <<m>>) BY <1>1 DEF m
<1> QED BY <1>3, <1>4, <1>5

\* What the server sends to a window for a CLI that is gone (handleDisconnect): an abort for each
\* request of that CLI that waits there.
LEMMA AbortsAre ==
  ASSUME BridgeTypeOK, NEW c, NEW n \in Sockets
  PROVE  /\ AbortsTo(c, n) \in Seq(ToExtension)
         /\ \A i \in DOMAIN AbortsTo(c, n) : AbortsTo(c, n)[i].type = "abort"
         /\ \A p \in pending : Issuer[p.request] = c /\ Resolve(p.window) # None /\ handle[Resolve(p.window)] = n =>
              \E i \in DOMAIN AbortsTo(c, n) : AbortsTo(c, n)[i].relay = p.relay
<1> DEFINE M == [type : {"abort"}, relay : Nat]
           P == {p \in pending : Issuer[p.request] = c /\ Resolve(p.window) # None /\ handle[Resolve(p.window)] = n}
           f == [p \in P |-> [type |-> "abort", relay |-> p.relay]]
           S == {[type |-> "abort", relay |-> p.relay] : p \in P}
<1>1. IsFiniteSet(pending) /\ P \in SUBSET pending /\ pending \subseteq Waiters
  BY DEF BridgeTypeOK
<1>2. IsFiniteSet(P) BY <1>1, FS_Subset
<1>3. f \in Surjection(P, S) BY DEF Surjection
<1>4. IsFiniteSet(S) BY <1>2, <1>3, FS_Surjection
<1>5. S \subseteq M BY <1>1 DEF Waiters
<1>6. AbortsTo(c, n) = SetToSeq(S) BY DEF AbortsTo
<1>7. \A p \in P : \E x \in S : x.relay = p.relay
  <2> SUFFICES ASSUME NEW p \in P PROVE \E x \in S : x.relay = p.relay
    OBVIOUS
  <2>1. [type |-> "abort", relay |-> p.relay] \in S OBVIOUS
  <2> QED BY <2>1
<1>8. \A p \in pending : Issuer[p.request] = c /\ Resolve(p.window) # None /\ handle[Resolve(p.window)] = n => p \in P
  OBVIOUS
<1> HIDE DEF S, P, M
<1>9. AbortsTo(c, n) \in Seq(S) /\ \A x \in S : \E i \in DOMAIN AbortsTo(c, n) : AbortsTo(c, n)[i] = x
  BY <1>4, <1>6, SetToSeqHas
<1>10. AbortsTo(c, n) \in Seq(M) /\ \A i \in DOMAIN AbortsTo(c, n) : AbortsTo(c, n)[i] \in M
  BY <1>5, <1>9, WiderSeq
<1>11. \A p \in P : \E i \in DOMAIN AbortsTo(c, n) : AbortsTo(c, n)[i].relay = p.relay
  BY <1>7, <1>9
<1>12. \A x \in M : x.type = "abort" BY DEF M
<1>13. M \subseteq ToExtension BY DEF M, ToExtension
<1>14. AbortsTo(c, n) \in Seq(ToExtension) BY <1>10, <1>13, WiderSeq
<1> QED BY <1>8, <1>10, <1>11, <1>12, <1>14

\* What ends the recordings of a CLI that is gone is a stop.
LEMMA StopsAre ==
  ASSUME NEW c, NEW n \in Sockets
  PROVE  /\ StopsTo(c, n) \in Seq(ToExtension)
         /\ \A i \in DOMAIN StopsTo(c, n) : StopsTo(c, n)[i].type = "stop"
<1> DEFINE S == {[type |-> "stop"] : l \in {l \in leases : l.cli = c /\ handle[l.window] = n}}
           m == [type |-> "stop"]
           M == [type : {"stop"}]
<1>1. S \in SUBSET {m} /\ S \subseteq M OBVIOUS
<1>2. IsFiniteSet({m}) BY FS_Singleton
<1>3. IsFiniteSet(S) BY <1>1, <1>2, FS_Subset
<1>4. StopsTo(c, n) = SetToSeq(S) BY DEF StopsTo
<1> HIDE DEF S, M
<1>5. StopsTo(c, n) \in Seq(S) BY <1>3, <1>4, SetToSeqHas
<1>6. StopsTo(c, n) \in Seq(M) /\ \A i \in DOMAIN StopsTo(c, n) : StopsTo(c, n)[i] \in M
  BY <1>1, <1>5, WiderSeq
<1>7. \A x \in M : x.type = "stop" BY DEF M
<1>8. M \subseteq ToExtension BY DEF M, ToExtension
<1>9. StopsTo(c, n) \in Seq(ToExtension) BY <1>6, <1>8, WiderSeq
<1> QED BY <1>6, <1>7, <1>9

\* The order of registration holds windows, also without one of them (unregisterByConnection).
LEMMA OrderKept ==
  ASSUME BridgeTypeOK, NEW w \in Windows
  PROVE  /\ Unlisted(w) \in Seq(Windows) /\ Append(Unlisted(w), w) \in Seq(Windows)
         /\ Unlisted(w) # <<>> => Last(Unlisted(w)) \in Windows
<1> DEFINE s == handleOrder
<1>1. s \in Seq(Windows) /\ Len(s) \in Nat /\ DOMAIN s = 1..Len(s) BY DEF BridgeTypeOK
<1>3. Unlisted(w) \in Seq(Windows)
  <2>1. CASE ~\E i \in DOMAIN s : s[i] = w
    BY <1>1, <2>1 DEF Unlisted
  <2>2. CASE \E i \in DOMAIN s : s[i] = w
    <3> DEFINE k == Place(w)
    <3>1. k \in 1..Len(s) BY <1>1, <2>2 DEF Place
    <3>2. Unlisted(w) = SubSeq(s, 1, k - 1) \o SubSeq(s, k + 1, Len(s))
      BY <1>1, <2>2 DEF Unlisted, RemoveAt
    <3> HIDE DEF k
    <3>3. SubSeq(s, 1, k - 1) \in Seq(Windows) /\ SubSeq(s, k + 1, Len(s)) \in Seq(Windows)
      BY <1>1, <3>1
    <3> QED BY <3>2, <3>3
  <2> QED BY <2>1, <2>2
<1>4. Unlisted(w) # <<>> => Last(Unlisted(w)) \in Windows
  <2> DEFINE u == Unlisted(w)
  <2> HIDE DEF u
  <2>1. u \in Seq(Windows) /\ u # <<>> => u[Len(u)] \in Windows OBVIOUS
  <2> QED BY <1>3, <2>1 DEF Last, u
<1> QED BY <1>3, <1>4

\* A message is put at the end.
LEMMA MessagePut ==
  ASSUME NEW M, NEW s \in Seq(M), NEW m \in M
  PROVE  /\ Append(s, m) = s \o <<m>> /\ <<m>> \in Seq(M) /\ DOMAIN <<m>> = {1} /\ <<m>>[1] = m
         /\ Append(s, m) \in Seq(M)
         /\ AskedIn(<<m>>) = IF m.type = "request" THEN {m} ELSE {}
         /\ AnsweredIn(<<m>>) = IF m.type = "response" THEN {m} ELSE {}
<1>1. <<m>> \in Seq(M) /\ DOMAIN <<m>> = {1} /\ <<m>>[1] = m /\ Append(s, m) = s \o <<m>> /\ Append(s, m) \in Seq(M)
  OBVIOUS
<1> HIDE <1>1
<1> QED BY <1>1 DEF AskedIn, AnsweredIn

-----------------------------------------------------------------------------
(* Types *)

\* Every step of the bridge keeps the types.
LEMMA BridgeTypes ==
  ASSUME BridgeTypeOK, [BridgeNext]_bridgeVars
  PROVE  BridgeTypeOK'
<1> USE DEF sockVars, serverVars, cliVars, windowVars
<1>1. /\ sock \in [Sockets -> SocketStates] /\ toExt \in [Sockets -> Seq(ToExtension)]
      /\ toServer \in [Sockets -> Seq(FromExtension)] /\ handle \in [Windows -> Sockets \cup {0}]
      /\ handleOrder \in Seq(Windows) /\ activeKey \in Windows \cup {None} /\ lock \in [Windows -> Clis \cup {None}]
      /\ pending \subseteq Waiters /\ IsFiniteSet(pending) /\ nextRelay \in Nat
      /\ leases \subseteq [recording : Requests, cli : Clis, window : Windows] /\ IsFiniteSet(leases)
      /\ serverLives \in Nat \ {0} /\ answer \in [Requests -> Requests \cup {None, "waiting", "failed"}]
      /\ client \in [Windows -> Sockets \cup {0}] /\ running \in [Windows -> SUBSET Commands]
      /\ recordings \in [Windows -> SUBSET Requests] /\ \A w \in Windows : IsFiniteSet(recordings[w])
  BY DEF BridgeTypeOK
<1>a. 0 \notin Sockets BY DEF Sockets
<1>b. /\ Issuer \in [Requests -> Clis] /\ Wants \in [Requests -> Windows]
  BY BridgeAssumption
<1>c. \A s : s \subseteq pending => IsFiniteSet(s)
  BY <1>1, FS_Subset
<1>d. \A s : s \subseteq leases => IsFiniteSet(s)
  BY <1>1, FS_Subset
<1>e. ASSUME NEW w \in Windows, NEW messages \in Seq(FromExtension), Sent(w, messages)
      PROVE  toServer' \in [Sockets -> Seq(FromExtension)]
  <2>1. CASE ClientOpen(w)
    <3>1. client[w] \in Sockets BY <1>1, <2>1 DEF ClientOpen
    <3>2. toServer[client[w]] \o messages \in Seq(FromExtension) BY <1>1, <3>1
    <3> QED BY <1>1, <1>e, <2>1, <3>1, <3>2 DEF Sent
  <2>2. CASE ~ClientOpen(w) BY <1>1, <1>e, <2>2 DEF Sent
  <2> QED BY <2>1, <2>2
<1>f. IsFiniteSet({}) /\ \A x : IsFiniteSet({x})
  BY FS_EmptySet, FS_Singleton
<1>g. [type |-> "register"] \in FromExtension BY DEF FromExtension
<1>2. ASSUME NEW w \in Windows, ClientConnects(w) PROVE BridgeTypeOK'
  <2>1. PICK n \in Sockets :
           /\ sock' = [sock EXCEPT ![n] = [window |-> w, side |-> "open", open |-> TRUE]]
           /\ toServer' = [toServer EXCEPT ![n] = <<[type |-> "register"]>>]
           /\ client' = [client EXCEPT ![w] = n]
    BY <1>2 DEF ClientConnects
  <2>2. [window |-> w, side |-> "open", open |-> TRUE] \in SocketStates BY DEF SocketStates, Sides
  <2>3. <<[type |-> "register"]>> \in Seq(FromExtension) BY <1>g
  <2>4. /\ sock' \in [Sockets -> SocketStates] /\ toServer' \in [Sockets -> Seq(FromExtension)]
        /\ client' \in [Windows -> Sockets \cup {0}]
    BY <1>1, <2>1, <2>2, <2>3
  <2> QED BY <1>1, <1>2, <2>4 DEF ClientConnects, BridgeTypeOK
<1>3. ASSUME NEW w \in Windows, ClientCloses(w) PROVE BridgeTypeOK'
  <2> DEFINE n == client[w]
  <2>1. n \in Sockets BY <1>1, <1>3 DEF ClientCloses, ClientOpen
  <2>2. [sock[n] EXCEPT !.open = FALSE] \in SocketStates
    <3>1. sock[n] \in SocketStates BY <1>1, <2>1
    <3> QED BY <3>1, SocketState
  <2>3. sock' \in [Sockets -> SocketStates] BY <1>1, <1>3, <2>1, <2>2 DEF ClientCloses
  <2>4. toExt' \in [Sockets -> Seq(ToExtension)] BY <1>1, <1>3, <2>1 DEF ClientCloses
  <2>5. PICK how \in {"disconnect", "delivered", "lost"} :
         /\ toServer' = [toServer EXCEPT ![n] = IF how = "lost" THEN <<>> ELSE @]
         /\ running' = [running EXCEPT ![w] = {[r EXCEPT !.abortable = @ /\ how # "disconnect"] : r \in running[w]}]
    BY <1>3 DEF ClientCloses
  <2>6. toServer' \in [Sockets -> Seq(FromExtension)] BY <1>1, <2>1, <2>5
  <2>7. \A r \in Commands : [r EXCEPT !.abortable = @ /\ how # "disconnect"] \in Commands BY DEF Commands
  <2>8. running' \in [Windows -> SUBSET Commands] BY <1>1, <2>5, <2>7
  <2> QED BY <1>1, <1>3, <2>3, <2>4, <2>6, <2>8 DEF ClientCloses, BridgeTypeOK
<1>4. ASSUME NEW n \in Sockets, sock[n].side # None, NEW side \in Sides, sock' = [sock EXCEPT ![n].side = side]
      PROVE  sock' \in [Sockets -> SocketStates]
  <2>1. [sock[n] EXCEPT !.side = side] \in SocketStates
    <3>1. sock[n] \in SocketStates BY <1>1
    <3> QED BY <1>4, <3>1, SocketState
  <2> QED BY <1>1, <1>4, <2>1
<1>5. ASSUME NEW n \in Sockets, CloseFrame(n) PROVE BridgeTypeOK'
  <2>0. sock[n].side # None BY <1>5 DEF CloseFrame, None
  <2>1. sock' \in [Sockets -> SocketStates] BY <1>4, <1>5, <2>0 DEF CloseFrame, Sides
  <2> QED BY <1>1, <1>5, <2>1 DEF CloseFrame, BridgeTypeOK
<1>6. ASSUME NEW n \in Sockets, ExtensionDisconnected(n) PROVE BridgeTypeOK'
  <2> DEFINE w == sock[n].window
  <2>0. sock[n].side # None BY <1>6 DEF ExtensionDisconnected, None
  <2>1. sock' \in [Sockets -> SocketStates] BY <1>4, <1>6, <2>0 DEF ExtensionDisconnected, Sides
  <2>2. CASE handle[w] # n
    BY <1>1, <1>6, <2>1, <2>2 DEF ExtensionDisconnected, BridgeTypeOK
  <2>3. CASE handle[w] = n
    <3>0. w \in Windows
      <4>1. sock[n] \in SocketStates BY <1>1
      <4> QED BY <2>0, <4>1, SocketState
    <3>1. /\ handle' = [handle EXCEPT ![w] = 0] /\ handleOrder' = Unlisted(w) /\ lock' = [lock EXCEPT ![w] = None]
          /\ leases' \subseteq leases /\ pending' \subseteq pending /\ UNCHANGED <<nextRelay, serverLives>>
          /\ activeKey' = IF activeKey # w THEN activeKey
                          ELSE IF Unlisted(w) = <<>> THEN None ELSE Last(Unlisted(w))
      BY <1>6, <2>3 DEF ExtensionDisconnected
    <3>2. handle' \in [Windows -> Sockets \cup {0}] /\ lock' \in [Windows -> Clis \cup {None}]
      BY <1>1, <3>1
    <3>3. answer' \in [Requests -> Requests \cup {None, "waiting", "failed"}]
      BY <1>1, <1>6, <2>3 DEF ExtensionDisconnected
    <3>4. handleOrder' \in Seq(Windows) /\ activeKey' \in Windows \cup {None}
      BY <1>1, <3>0, <3>1, OrderKept
    <3>5. IsFiniteSet(leases') /\ IsFiniteSet(pending') /\ pending' \subseteq Waiters
          /\ leases' \subseteq [recording : Requests, cli : Clis, window : Windows]
      BY <1>1, <1>c, <1>d, <3>1
    <3> QED BY <1>1, <1>6, <2>1, <3>1, <3>2, <3>3, <3>4, <3>5 DEF ExtensionDisconnected, BridgeTypeOK
  <2> QED BY <2>2, <2>3
<1>7. ASSUME NEW w \in Windows, NEW messages \in Seq(FromExtension), Sent(w, messages),
             UNCHANGED <<sock, toExt, serverVars, cliVars, client>>,
             running' \in [Windows -> SUBSET Commands],
             recordings' \in [Windows -> SUBSET Requests], \A v \in Windows : IsFiniteSet(recordings'[v])
      PROVE  BridgeTypeOK'
  <2>1. toServer' \in [Sockets -> Seq(FromExtension)] BY <1>e, <1>7
  <2> QED BY <1>1, <1>7, <2>1 DEF BridgeTypeOK
<1>8. ASSUME NEW w \in Windows, RecordingEnds(w) PROVE BridgeTypeOK'
  <2>1. Finals(w) \in Seq(FromExtension) BY FinalsAre
  <2>2. recordings' \in [Windows -> SUBSET Requests] /\ \A v \in Windows : IsFiniteSet(recordings'[v])
    BY <1>1, <1>8, <1>f DEF RecordingEnds
  <2> QED BY <1>1, <1>7, <1>8, <2>1, <2>2 DEF RecordingEnds
<1>s. ASSUME NEW w \in Windows, SessionChanges(w) PROVE BridgeTypeOK'
  <2>1. PICK messages \in Seq(FromExtension) : Sent(w, messages)
    BY <1>s, ChangesAre
  <2>2. UNCHANGED <<sock, toExt, serverVars, cliVars, client, running, recordings>> BY <1>s DEF SessionChanges
  <2> QED BY <1>1, <1>7, <2>1, <2>2
<1>9. ASSUME NEW w \in Windows, RecordingBegins(w) PROVE BridgeTypeOK'
  <2>1. PICK r \in running[w] :
         /\ recordings' = [recordings EXCEPT ![w] = {r.request}]
         /\ running' = [running EXCEPT ![w] = (@ \ {r}) \cup {[r EXCEPT !.begun = TRUE]}]
    BY <1>9 DEF RecordingBegins
  <2>2. r \in Commands /\ r.request \in Requests BY <1>1 DEF Commands
  <2>3. [r EXCEPT !.begun = TRUE] \in Commands BY <2>2 DEF Commands
  <2>4. running' \in [Windows -> SUBSET Commands] BY <1>1, <2>1, <2>3
  <2>5. recordings' \in [Windows -> SUBSET Requests] /\ \A v \in Windows : IsFiniteSet(recordings'[v])
    BY <1>1, <1>f, <2>1, <2>2
  <2> QED BY <1>1, <1>9, <2>4, <2>5 DEF RecordingBegins, BridgeTypeOK
<1>10. ASSUME NEW r, r.relay \in Nat, r.request \in Requests, NEW ok \in BOOLEAN
       PROVE  <<Response(r, ok)>> \in Seq(FromExtension)
  <2>1. Response(r, ok) \in FromExtension BY <1>10 DEF Response, FromExtension
  <2> QED BY <2>1
<1>11. ASSUME NEW w \in Windows, CommandEnds(w) PROVE BridgeTypeOK'
  <2>1. PICK r \in running[w] :
         /\ running' = [running EXCEPT ![w] = @ \ {r}]
         /\ Sent(w, <<Response(r, IF Kind[r.request] = "record" THEN r.begun ELSE ~r.aborted)>>)
    BY <1>11 DEF CommandEnds
  <2> DEFINE ok == IF Kind[r.request] = "record" THEN r.begun ELSE ~r.aborted
  <2>2. r \in Commands /\ r.request \in Requests /\ r.relay \in Nat BY <1>1 DEF Commands
  <2>3. ok \in BOOLEAN BY <2>2 DEF Commands
  <2>4. <<Response(r, ok)>> \in Seq(FromExtension) BY <1>10, <2>2, <2>3
  <2>5. running' \in [Windows -> SUBSET Commands] BY <1>1, <2>1
  <2> QED BY <1>1, <1>7, <1>11, <2>1, <2>4, <2>5 DEF CommandEnds
<1>12. ASSUME NEW w \in Windows, WindowReceives(w) PROVE BridgeTypeOK'
  <2> DEFINE n == client[w]
             m == Head(toExt[n])
  <2>1. n \in Sockets /\ toExt[n] # <<>> BY <1>1, <1>12 DEF WindowReceives, ClientOpen
  <2>2. m \in ToExtension /\ Tail(toExt[n]) \in Seq(ToExtension) BY <1>1, <2>1
  <2>3. toExt' \in [Sockets -> Seq(ToExtension)] BY <1>1, <1>12, <2>1, <2>2 DEF WindowReceives
  <2>4. UNCHANGED <<sock, serverVars, cliVars, client>> BY <1>12 DEF WindowReceives
  <2> HIDE DEF m, n
  <2>5. CASE m.type = "request" /\ Runs(w, n, m) /\ UNCHANGED recordings
    <3>1. m.relay \in Nat /\ m.request \in Requests BY <2>2, <2>5 DEF ToExtension
    <3>2. CASE UNCHANGED toServer /\ running' = [running EXCEPT ![w] = @ \cup
          {[relay |-> m.relay, request |-> m.request, conn |-> n, aborted |-> FALSE, abortable |-> TRUE, begun |-> FALSE]}]
      <4>1. [relay |-> m.relay, request |-> m.request, conn |-> n, aborted |-> FALSE, abortable |-> TRUE, begun |-> FALSE]
              \in Commands
        BY <2>1, <3>1 DEF Commands
      <4>2. running' \in [Windows -> SUBSET Commands] BY <1>1, <3>2, <4>1
      <4> QED BY <1>1, <2>3, <2>4, <2>5, <3>2, <4>2 DEF BridgeTypeOK
    <3>3. CASE Sent(w, <<Response(m, FALSE)>>) /\ UNCHANGED running
      <4>1. <<Response(m, FALSE)>> \in Seq(FromExtension) BY <1>10, <3>1
      <4>2. toServer' \in [Sockets -> Seq(FromExtension)] BY <1>e, <3>3, <4>1
      <4> QED BY <1>1, <2>3, <2>4, <2>5, <3>3, <4>2 DEF BridgeTypeOK
    <3> QED BY <2>5, <3>2, <3>3 DEF Runs
  <2>6. CASE Aborts(w, m) /\ UNCHANGED <<recordings, toServer>>
    <3>1. \A r \in Commands : [r EXCEPT !.aborted = TRUE] \in Commands BY DEF Commands
    <3>2. running' \in [Windows -> SUBSET Commands] BY <1>1, <2>6, <3>1 DEF Aborts
    <3> QED BY <1>1, <2>3, <2>4, <2>6, <3>2 DEF BridgeTypeOK
  <2>7. CASE Sent(w, Finals(w)) /\ recordings' = [recordings EXCEPT ![w] = {}] /\ UNCHANGED running
    <3>1. Finals(w) \in Seq(FromExtension) BY FinalsAre
    <3>2. toServer' \in [Sockets -> Seq(FromExtension)] BY <1>e, <2>7, <3>1
    <3>3. recordings' \in [Windows -> SUBSET Requests] /\ \A v \in Windows : IsFiniteSet(recordings'[v])
      BY <1>1, <2>7, <1>f
    <3> QED BY <1>1, <2>3, <2>4, <2>7, <3>2, <3>3 DEF BridgeTypeOK
  <2>8. m.type \in {"request", "abort", "stop"} BY <2>2 DEF ToExtension
  <2> QED BY <1>12, <2>5, <2>6, <2>7, <2>8 DEF WindowReceives, m, n
<1>13. ASSUME NEW n \in Sockets, ServerReceives(n) PROVE BridgeTypeOK'
  <2> DEFINE m == Head(toServer[n])
             w == sock[n].window
  <2>1. m \in FromExtension /\ Tail(toServer[n]) \in Seq(FromExtension)
    BY <1>1, <1>13 DEF ServerReceives
  <2>2. toServer' \in [Sockets -> Seq(FromExtension)] BY <1>1, <1>13, <2>1 DEF ServerReceives
  <2>3. UNCHANGED <<toExt, nextRelay, serverLives, cli, windowVars>> BY <1>13 DEF ServerReceives
  <2>4. CASE HandleRegistration(n) /\ UNCHANGED <<pending, leases, answer>>
    <3>0. sock[n].side # None BY <1>13 DEF ServerReceives, None
    <3>1. \A k \in Sockets : sock[k].side # None => [sock[k] EXCEPT !.side = "registered"] \in SocketStates
                             /\ [sock[k] EXCEPT !.side = "closing"] \in SocketStates /\ sock[k].window \in Windows
      <4> SUFFICES ASSUME NEW k \in Sockets, sock[k].side # None
                   PROVE  [sock[k] EXCEPT !.side = "registered"] \in SocketStates
                          /\ [sock[k] EXCEPT !.side = "closing"] \in SocketStates /\ sock[k].window \in Windows
        OBVIOUS
      <4>1. sock[k] \in SocketStates /\ "registered" \in Sides /\ "closing" \in Sides BY <1>1 DEF Sides
      <4> QED BY <4>1, SocketState
    <3>2. sock' \in [Sockets -> SocketStates]
      <4>1. \A k \in Sockets : IsOpen(k) => sock[k].side # None BY DEF IsOpen, None
      <4>2. sock' = [k \in Sockets |->
               IF k = n THEN [sock[k] EXCEPT !.side = "registered"]
               ELSE IF k = handle[w] /\ IsOpen(handle[w]) THEN [sock[k] EXCEPT !.side = "closing"] ELSE sock[k]]
        BY <2>4 DEF HandleRegistration
      <4>3. \A k \in Sockets : sock'[k] \in SocketStates
        <5> SUFFICES ASSUME NEW k \in Sockets PROVE sock'[k] \in SocketStates OBVIOUS
        <5>1. CASE k = n BY <3>0, <3>1, <4>2, <5>1
        <5>2. CASE k # n /\ k = handle[w] /\ IsOpen(handle[w])
          <6>1. sock'[k] = [sock[k] EXCEPT !.side = "closing"] BY <4>2, <5>2
          <6> QED BY <3>1, <4>1, <5>2, <6>1
        <5>3. CASE k # n /\ ~(k = handle[w] /\ IsOpen(handle[w]))
          <6>1. sock'[k] = sock[k] BY <4>2, <5>3
          <6> QED BY <1>1, <6>1
        <5> QED BY <5>1, <5>2, <5>3
      <4> QED BY <4>2, <4>3
    <3>3. handle' \in [Windows -> Sockets \cup {0}] /\ lock' \in [Windows -> Clis \cup {None}]
      BY <1>1, <2>4 DEF HandleRegistration
    <3>4. w \in Windows BY <3>0, <3>1
    <3>5. activeKey' \in Windows \cup {None} BY <2>4, <3>4 DEF HandleRegistration
    <3>6. handleOrder' \in Seq(Windows) BY <1>1, <2>4, <3>4, OrderKept DEF HandleRegistration
    <3> QED BY <1>1, <2>2, <2>3, <2>4, <3>2, <3>3, <3>5, <3>6 DEF BridgeTypeOK
  <2>5. CASE m.type = "response" /\ HandleResponse(m) /\ UNCHANGED <<sock, handle, handleOrder, activeKey, lock>>
    <3>1. CASE UNCHANGED <<pending, leases, answer>>
      BY <1>1, <2>2, <2>3, <2>5, <3>1 DEF BridgeTypeOK
    <3>2. ASSUME NEW p \in pending, NEW valid \in BOOLEAN, pending' = pending \ {p},
                 leases' = IF valid /\ Kind[p.request] = "record"
                 THEN leases \cup {[recording |-> m.request, cli |-> Issuer[p.request], window |-> p.window]}
                 ELSE leases,
                 answer' = [answer EXCEPT ![p.request] = IF valid THEN m.request ELSE "failed"]
          PROVE  BridgeTypeOK'
      <4>1. m.request \in Requests /\ p.request \in Requests /\ p.window \in Windows
        BY <1>1, <2>1, <2>5 DEF FromExtension, Waiters
      <4>2. [recording |-> m.request, cli |-> Issuer[p.request], window |-> p.window]
              \in [recording : Requests, cli : Clis, window : Windows]
        BY <1>b, <4>1
      <4>3. leases' \subseteq [recording : Requests, cli : Clis, window : Windows] /\ IsFiniteSet(leases')
        BY <1>1, <3>2, <4>2, FS_AddElement
      <4>4. answer' \in [Requests -> Requests \cup {None, "waiting", "failed"}]
        BY <1>1, <3>2, <4>1
      <4>5. pending' \subseteq Waiters /\ IsFiniteSet(pending') BY <1>1, <1>c, <3>2
      <4> QED BY <1>1, <2>2, <2>3, <2>5, <4>3, <4>4, <4>5 DEF BridgeTypeOK
    <3> HIDE DEF m
    <3>3. CASE {p \in pending : p.relay = m.relay} = {} BY <2>5, <3>1, <3>3 DEF HandleResponse
    <3>4. CASE {p \in pending : p.relay = m.relay} # {}
      <4>1. PICK p \in pending :
              LET valid == m.ok /\ Kind[m.request] = Kind[p.request] IN
              /\ pending' = pending \ {p}
              /\ leases' = IF valid /\ Kind[p.request] = "record"
                 THEN leases \cup {[recording |-> m.request, cli |-> Issuer[p.request], window |-> p.window]}
                 ELSE leases
              /\ answer' = [answer EXCEPT ![p.request] = IF valid THEN m.request ELSE "failed"]
        BY <2>5, <3>4 DEF HandleResponse
      <4> DEFINE valid == m.ok /\ Kind[m.request] = Kind[p.request]
      <4>2. valid \in BOOLEAN OBVIOUS
      <4> QED BY <3>2, <4>1, <4>2
    <3> QED BY <3>3, <3>4
  <2>6. CASE m.type = "final" /\ HandleFinal(w, n, m.recording)
             /\ UNCHANGED <<sock, handle, handleOrder, activeKey, lock, pending, answer>>
    <3>1. leases' \subseteq leases BY <2>6 DEF HandleFinal
    <3>2. IsFiniteSet(leases') BY <1>d, <3>1
    <3> QED BY <1>1, <2>2, <2>3, <2>6, <3>1, <3>2 DEF BridgeTypeOK
  <2>8. CASE HandleSessionChanged(w, n, m.session)
             /\ UNCHANGED <<sock, handle, handleOrder, activeKey, pending, leases, answer>>
    <3>1. lock' = lock \/ lock' = [lock EXCEPT ![w] = None] BY <2>8 DEF HandleSessionChanged
    <3>2. lock' \in [Windows -> Clis \cup {None}] BY <1>1, <3>1
    <3> QED BY <1>1, <2>2, <2>3, <2>8, <3>2 DEF BridgeTypeOK
  <2>7. m.type \in {"register", "response", "final", "changed"} BY <2>1 DEF FromExtension
  <2> QED BY <1>13, <2>4, <2>5, <2>6, <2>7, <2>8 DEF ServerReceives
<1>14. ASSUME NEW q \in Requests, CliRequest(q) PROVE BridgeTypeOK'
  <2> DEFINE c == Issuer[q]
             w == Resolve(Wants[q])
  <2>1. c \in Clis /\ w \in Windows \cup {None} BY <1>1, <1>b DEF Resolve
  <2>2. UNCHANGED <<sock, toServer, handle, handleOrder, activeKey, leases, serverLives, windowVars>>
    BY <1>14 DEF CliRequest
  <2> HIDE DEF w, c
  <2>3. CASE Refuse(q)
    <3>1. answer' \in [Requests -> Requests \cup {None, "waiting", "failed"}] BY <1>1, <2>3 DEF Refuse
    <3> QED BY <1>1, <2>2, <2>3, <3>1 DEF Refuse, BridgeTypeOK
  <2>4. ASSUME Forward(q, w), w \in Windows, IsOpen(handle[w]), lock' \in [Windows -> Clis \cup {None}] PROVE BridgeTypeOK'
    <3> DEFINE n == handle[w]
               p == [relay |-> nextRelay, request |-> q, window |-> w, conn |-> n]
               m == [type |-> "request", relay |-> nextRelay, request |-> q]
    <3>1. n \in Sockets BY <1>1, <2>4 DEF IsOpen
    <3>2. p \in Waiters BY <1>1, <2>4, <3>1 DEF Waiters
    <3>3. m \in ToExtension BY <1>1 DEF ToExtension
    <3>4. pending' = pending \cup {p} /\ nextRelay' = nextRelay + 1 BY <2>4 DEF Forward
    <3>5. answer' \in [Requests -> Requests \cup {None, "waiting", "failed"}] BY <1>1, <2>4 DEF Forward
    <3>6. toExt' = [toExt EXCEPT ![n] = Append(@, m)] \/ toExt' = toExt BY <2>4 DEF Forward
    <3> HIDE DEF m, p
    <3>7. Append(toExt[n], m) \in Seq(ToExtension) BY <1>1, <3>1, <3>3
    <3>8. toExt' \in [Sockets -> Seq(ToExtension)] BY <1>1, <3>1, <3>6, <3>7
    <3>9. pending' \subseteq Waiters /\ IsFiniteSet(pending') BY <1>1, <3>2, <3>4, FS_AddElement
    <3> QED BY <1>1, <2>2, <2>4, <3>4, <3>5, <3>8, <3>9 DEF BridgeTypeOK
  <2>5. CASE w \in Windows /\ IsOpen(handle[w]) /\ Forward(q, w) /\ UNCHANGED lock
    BY <1>1, <2>4, <2>5
  <2>6. CASE w \in Windows /\ IsOpen(handle[w]) /\ Forward(q, w) /\ lock' = [lock EXCEPT ![w] = c]
    BY <1>1, <2>1, <2>4, <2>6
  <2> QED BY <1>14, <2>1, <2>3, <2>5, <2>6 DEF CliRequest, w, c
<1>15. ASSUME NEW c \in Clis, CliDisconnects(c) PROVE BridgeTypeOK'
  <2>1. lock' \in [Windows -> Clis \cup {None}] BY <1>1, <1>15 DEF CliDisconnects
  <2>2. leases' \subseteq leases /\ pending' \subseteq pending BY <1>15 DEF CliDisconnects
  <2>3. IsFiniteSet(leases') /\ IsFiniteSet(pending') BY <1>c, <1>d, <2>2
  <2>4. nextRelay' \in Nat
    <3> DEFINE s == {l \in leases : l.cli = c /\ IsOpen(handle[l.window])}
    <3>1. IsFiniteSet(s) BY <1>d
    <3>2. Cardinality(s) \in Nat BY <3>1, FS_CardinalityType
    <3>3. nextRelay' = nextRelay + Cardinality(s) BY <1>15 DEF CliDisconnects
    <3> QED BY <1>1, <3>2, <3>3
  <2>5. \A n \in Sockets : toExt[n] \o StopsTo(c, n) \o AbortsTo(c, n) \in Seq(ToExtension)
    BY <1>1, AbortsAre, StopsAre
  <2>6. toExt' \in [Sockets -> Seq(ToExtension)] BY <1>1, <1>15, <2>5 DEF CliDisconnects
  <2> QED BY <1>1, <1>15, <2>1, <2>2, <2>3, <2>4, <2>6 DEF CliDisconnects, BridgeTypeOK
<1>16. CASE ServerRestarts
  <2>1. \A n \in Sockets : sock[n].side # None => [sock[n] EXCEPT !.side = "closed", !.open = FALSE] \in SocketStates
    <3> SUFFICES ASSUME NEW n \in Sockets, sock[n].side # None
                 PROVE  [sock[n] EXCEPT !.side = "closed", !.open = FALSE] \in SocketStates
      OBVIOUS
    <3>1. sock[n] \in SocketStates /\ "closed" \in Sides BY <1>1 DEF Sides
    <3> QED BY <3>1, SocketState
  <2>2. sock' \in [Sockets -> SocketStates] BY <1>1, <1>16, <2>1 DEF ServerRestarts
  <2>3. toExt' \in [Sockets -> Seq(ToExtension)] /\ toServer' \in [Sockets -> Seq(FromExtension)]
    <3>1. <<>> \in Seq(ToExtension) /\ <<>> \in Seq(FromExtension) OBVIOUS
    <3> QED BY <1>16, <3>1 DEF ServerRestarts
  <2>4. handle' \in [Windows -> Sockets \cup {0}] /\ lock' \in [Windows -> Clis \cup {None}]
    BY <1>16 DEF ServerRestarts
  <2>5. handleOrder' \in Seq(Windows)
    <3>1. <<>> \in Seq(Windows) OBVIOUS
    <3> QED BY <1>16, <3>1 DEF ServerRestarts
  <2>6. activeKey' \in Windows \cup {None} /\ pending' \subseteq Waiters /\ IsFiniteSet(pending') /\ nextRelay' \in Nat
    BY <1>16, <1>f DEF ServerRestarts
  <2>7. leases' \subseteq [recording : Requests, cli : Clis, window : Windows] /\ IsFiniteSet(leases')
    BY <1>16, <1>f DEF ServerRestarts
  <2>8. serverLives' \in Nat \ {0}
    <3>1. serverLives' = serverLives + 1 BY <1>16 DEF ServerRestarts
    <3> QED BY <1>1, <3>1
  <2>9. UNCHANGED <<answer, client, running, recordings>> BY <1>16 DEF ServerRestarts
  <2> QED BY <1>1, <2>2, <2>3, <2>4, <2>5, <2>6, <2>7, <2>8, <2>9 DEF BridgeTypeOK
<1>17. CASE UNCHANGED bridgeVars BY <1>1, <1>17 DEF bridgeVars, BridgeTypeOK
<1> QED BY <1>2, <1>3, <1>5, <1>6, <1>8, <1>s, <1>9, <1>11, <1>12, <1>13, <1>14, <1>15, <1>16, <1>17 DEF BridgeNext, BridgeProgress

-----------------------------------------------------------------------------
(* Connections *)

\* What is sent to the server is not a registration; what it receives is gone.
LEMMA RegistersSent ==
  ASSUME BridgeTypeOK, RegistersOnce, UNCHANGED sock, NEW w \in Windows, NEW messages \in Seq(FromExtension),
         \A i \in DOMAIN messages : messages[i].type # "register", Sent(w, messages)
  PROVE  RegistersOnce'
<1>1. \A n \in Sockets : toServer'[n] = toServer[n] \/ toServer'[n] = toServer[n] \o messages
  BY DEF BridgeTypeOK, Sent
<1>2. SUFFICES ASSUME NEW n \in Sockets, NEW i \in DOMAIN toServer'[n], toServer'[n][i].type = "register"
               PROVE  i = 1 /\ sock[n].side = "open"
  BY DEF RegistersOnce
<1>3. CASE toServer'[n] = toServer[n] BY <1>2, <1>3 DEF RegistersOnce
<1>4. CASE toServer'[n] = toServer[n] \o messages
  <2>1. toServer[n] \in Seq(FromExtension) BY DEF BridgeTypeOK
  <2>2. i \in DOMAIN toServer[n] /\ toServer[n][i] = toServer'[n][i] BY <1>2, <1>4, <2>1, QueueGrows
  <2> QED BY <1>2, <2>2 DEF RegistersOnce
<1> QED BY <1>1, <1>3, <1>4

\* The server receives what was sent first on a connection (handleMessage): a registration counts
\* once, and before it is registered.
LEMMA RegistersReceived ==
  ASSUME BridgeTypeOK, RegistersOnce, NEW n \in Sockets, ServerReceives(n)
  PROVE  /\ \A k \in Sockets : \A i \in DOMAIN toServer'[k] :
              toServer'[k][i].type = "register" => k # n /\ i = 1 /\ sock[k].side = "open"
         /\ Head(toServer[n]).type = "register" => sock[n].side = "open"
         /\ toServer[n] \in Seq(FromExtension) /\ toServer[n] # <<>>
<1>1. /\ toServer[n] \in Seq(FromExtension) /\ toServer[n] # <<>>
      /\ toServer' = [toServer EXCEPT ![n] = Tail(toServer[n])]
  BY DEF BridgeTypeOK, ServerReceives
<1>2. toServer'[n] = Tail(toServer[n]) /\ \A k \in Sockets : k # n => toServer'[k] = toServer[k]
  BY <1>1 DEF BridgeTypeOK
<1>3. \A i \in DOMAIN Tail(toServer[n]) : Tail(toServer[n])[i] = toServer[n][i + 1] /\ i + 1 \in DOMAIN toServer[n] /\ i \in Nat /\ i >= 1
  BY <1>1, QueueTaken
<1>4. \A i \in DOMAIN toServer'[n] : toServer'[n][i].type # "register"
  BY <1>2, <1>3 DEF RegistersOnce
<1>5. 1 \in DOMAIN toServer[n] /\ Head(toServer[n]) = toServer[n][1] BY <1>1
<1> QED BY <1>1, <1>2, <1>4, <1>5 DEF RegistersOnce

\* A step that leaves the sockets, and who owns them, alone.
LEMMA SocketsKept ==
  ASSUME BridgeTypeOK, SocketsFit, RegistersOnce', UNCHANGED <<sock, handle, client>>,
         \A n \in Sockets : Unregistered(n) => toExt'[n] = toExt[n],
         \A p \in pending' : p \in pending \/ (sock[p.conn].window = p.window /\ ~Unregistered(p.conn)),
         \A w \in Windows : \A r \in running'[w] :
           \/ \E s \in running[w] : s.conn = r.conn /\ s.abortable = r.abortable
           \/ sock[r.conn].window = w /\ ~Unregistered(r.conn) /\ r.abortable
  PROVE  SocketsFit'
<1>1. HandlesFit' BY DEF SocketsFit, HandlesFit
<1>2. ClientsFit' BY DEF SocketsFit, ClientsFit
<1>3. QuietBefore' BY DEF SocketsFit, QuietBefore, Unregistered
<1>4. ConnsFit' BY DEF SocketsFit, ConnsFit
<1> QED BY <1>1, <1>2, <1>3, <1>4 DEF SocketsFit

\* Every step keeps connections in order, while the server lives: a registration replaces the
\* connection of its window, and the old one loses its handle (handleRegistration, unregisterByConnection).
LEMMA SocketsStay ==
  ASSUME BridgeTypeOK, BridgeTypeOK', SocketsFit, [BridgeNext]_bridgeVars, serverLives' = serverLives
  PROVE  SocketsFit'
<1> USE DEF sockVars, serverVars, cliVars, windowVars
<1>1. /\ sock \in [Sockets -> SocketStates] /\ toExt \in [Sockets -> Seq(ToExtension)]
      /\ toServer \in [Sockets -> Seq(FromExtension)] /\ handle \in [Windows -> Sockets \cup {0}]
      /\ pending \subseteq Waiters /\ client \in [Windows -> Sockets \cup {0}] /\ running \in [Windows -> SUBSET Commands]
  BY DEF BridgeTypeOK
<1>a. 0 \notin Sockets BY DEF Sockets
<1>b. /\ HandlesFit /\ ClientsFit /\ QuietBefore /\ RegistersOnce /\ ConnsFit
  BY DEF SocketsFit
<1>c. \A n \in Sockets : /\ sock[n].side # None => sock[n].window \in Windows /\ sock[n].side \in Sides
                        /\ sock[n].side = None => sock[n].window = None /\ ~sock[n].open
  BY <1>1, SocketState
<1>g. \A n \in Sockets : sock[n].side # None => sock[n].window \in Windows
  BY <1>1, SocketState
<1>d. None \notin Windows /\ None \notin Sides BY BridgeAssumption DEF None, Sides
<1>e. \A p \in pending : p.conn \in Sockets BY <1>1 DEF Waiters
<1>f. \A w \in Windows : \A r \in running[w] : r \in Commands /\ r.conn \in Sockets BY <1>1 DEF Commands
<1>2. ASSUME NEW w \in Windows, ClientConnects(w) PROVE SocketsFit'
  <2>1. PICK n \in Sockets :
           /\ sock[n].side = None
           /\ sock' = [sock EXCEPT ![n] = [window |-> w, side |-> "open", open |-> TRUE]]
           /\ toServer' = [toServer EXCEPT ![n] = <<[type |-> "register"]>>]
           /\ client' = [client EXCEPT ![w] = n]
    BY <1>2 DEF ClientConnects
  <2>2. UNCHANGED <<toExt, handle, pending, running>> BY <1>2 DEF ClientConnects
  <2>3. /\ sock'[n].window = w /\ sock'[n].side = "open"
        /\ \A k \in Sockets : k # n => sock'[k] = sock[k]
    BY <1>1, <2>1
  <2>4. Unregistered(n) /\ sock[n].window = None BY <1>c, <2>1 DEF Unregistered
  <2>5. HandlesFit'
    <3>1. \A v \in Windows : handle[v] # 0 => handle[v] \in Sockets /\ handle[v] # n
      BY <1>1, <1>b, <2>1 DEF HandlesFit, None
    <3> QED BY <1>b, <2>2, <2>3, <3>1 DEF HandlesFit
  <2>6. ClientsFit'
    <3>1. \A v \in Windows : client[v] # 0 => client[v] \in Sockets /\ client[v] # n
      BY <1>1, <1>b, <1>d, <2>4 DEF ClientsFit
    <3>2. client'[w] = n /\ \A v \in Windows : v # w => client'[v] = client[v] BY <1>1, <2>1
    <3> QED BY <1>b, <2>3, <3>1, <3>2 DEF ClientsFit
  <2>7. QuietBefore'
    <3>1. \A k \in Sockets : Unregistered(k)' => Unregistered(k)
      BY <2>3, <2>4 DEF Unregistered
    <3> QED BY <1>b, <2>2, <3>1 DEF QuietBefore
  <2>8. RegistersOnce'
    <3>1. toServer'[n] = <<[type |-> "register"]>> /\ \A k \in Sockets : k # n => toServer'[k] = toServer[k]
      BY <1>1, <2>1
    <3>2. DOMAIN toServer'[n] = {1} BY <3>1
    <3> QED BY <1>b, <2>3, <3>1, <3>2 DEF RegistersOnce
  <2>9. ConnsFit'
    <3>1. \A p \in pending : p.conn # n BY <1>b, <2>4 DEF QuietBefore
    <3>2. \A v \in Windows : \A r \in running[v] : r.conn # n BY <1>b, <2>4 DEF QuietBefore
    <3>3. client'[w] = n /\ \A v \in Windows : v # w => client'[v] = client[v] BY <1>1, <2>1
    <3> QED BY <1>b, <1>e, <1>f, <2>2, <2>3, <3>1, <3>2, <3>3 DEF ConnsFit
  <2> QED BY <2>5, <2>6, <2>7, <2>8, <2>9 DEF SocketsFit
<1>3. ASSUME NEW w \in Windows, ClientCloses(w) PROVE SocketsFit'
  <2> DEFINE n == client[w]
  <2>1. n \in Sockets BY <1>1, <1>3 DEF ClientCloses, ClientOpen
  <2>2. UNCHANGED <<handle, pending, client>> BY <1>3 DEF ClientCloses
  <2>3. sock' = [sock EXCEPT ![n].open = FALSE] /\ toExt' = [toExt EXCEPT ![n] = <<>>] BY <1>3 DEF ClientCloses
  <2>4. PICK how \in {"disconnect", "delivered", "lost"} :
         /\ toServer' = [toServer EXCEPT ![n] = IF how = "lost" THEN <<>> ELSE @]
         /\ running' = [running EXCEPT ![w] = {[r EXCEPT !.abortable = @ /\ how # "disconnect"] : r \in running[w]}]
    BY <1>3 DEF ClientCloses
  <2> HIDE DEF n
  <2>5. /\ \A k \in Sockets : k # n => sock'[k] = sock[k]
        /\ sock'[n] = [sock[n] EXCEPT !.open = FALSE]
    BY <1>1, <2>1, <2>3
  <2>6. sock'[n].window = sock[n].window /\ sock'[n].side = sock[n].side /\ sock'[n].open = FALSE
    <3>1. sock[n] \in SocketStates BY <1>1, <2>1
    <3> QED BY <2>5, <3>1 DEF SocketStates
  <2>7. \A k \in Sockets : sock'[k].window = sock[k].window /\ sock'[k].side = sock[k].side BY <2>5, <2>6
  <2>8. \A v \in Windows : \A r \in running'[v] : \E s \in running[v] : s.conn = r.conn /\ (v # w => s = r)
    <3>1. SUFFICES ASSUME NEW v \in Windows, NEW r \in running'[v]
                   PROVE  \E s \in running[v] : s.conn = r.conn /\ (v # w => s = r)
      OBVIOUS
    <3>2. CASE v # w BY <1>1, <2>4, <3>1, <3>2
    <3>3. CASE v = w
      <4>1. PICK s \in running[w] : r = [s EXCEPT !.abortable = @ /\ how # "disconnect"]
        BY <1>1, <2>4, <3>1, <3>3
      <4>2. s \in Commands BY <1>f
      <4>3. r.conn = s.conn BY <4>1, <4>2 DEF Commands
      <4> QED BY <3>3, <4>3
    <3> QED BY <3>2, <3>3
  <2>9. HandlesFit'
    <3>1. \A v \in Windows : handle[v] # 0 => handle[v] \in Sockets BY <1>1
    <3> QED BY <1>b, <2>2, <2>7, <3>1 DEF HandlesFit
  <2>10. ClientsFit' BY <1>1, <1>b, <2>2, <2>7 DEF ClientsFit
  <2>11. QuietBefore'
    <3>1. \A k \in Sockets : Unregistered(k)' => Unregistered(k) BY <2>7 DEF Unregistered
    <3>2. \A k \in Sockets : toExt'[k] = toExt[k] \/ toExt'[k] = <<>> BY <1>1, <2>3
    <3> QED BY <1>b, <2>2, <2>8, <3>1, <3>2 DEF QuietBefore
  <2>12. RegistersOnce'
    <3>1. \A k \in Sockets : toServer'[k] = toServer[k] \/ toServer'[k] = <<>> BY <1>1, <2>4
    <3>2. DOMAIN <<>> = {} OBVIOUS
    <3> QED BY <1>b, <2>7, <3>1, <3>2 DEF RegistersOnce
  <2>13. ConnsFit'
    <3>1. \A v \in Windows : \A r \in running'[v] : sock'[r.conn].window = v
      BY <1>b, <1>f, <2>7, <2>8 DEF ConnsFit
    <3>2. \A v \in Windows : \A r \in running'[v] : r.conn = client[v] /\ sock'[r.conn].open => r.abortable
      <4>1. SUFFICES ASSUME NEW v \in Windows, NEW r \in running'[v], r.conn = client[v], sock'[r.conn].open
                     PROVE  r.abortable
        OBVIOUS
      <4>2. v # w BY <2>6, <4>1 DEF n
      <4>3. r \in running[v] BY <2>8, <4>1, <4>2
      <4>4. r.conn # n BY <2>6, <4>1
      <4> QED BY <1>b, <1>f, <2>5, <4>1, <4>3, <4>4 DEF ConnsFit
    <3>3. \A p \in pending : sock'[p.conn].window = p.window BY <1>b, <1>e, <2>7 DEF ConnsFit
    <3> QED BY <2>2, <3>1, <3>2, <3>3 DEF ConnsFit
  <2> QED BY <2>9, <2>10, <2>11, <2>12, <2>13 DEF SocketsFit
<1>4. ASSUME NEW n \in Sockets, ~Unregistered(n), NEW side \in Sides \ {"open"}, sock' = [sock EXCEPT ![n].side = side]
      PROVE  /\ \A k \in Sockets : sock'[k].window = sock[k].window /\ sock'[k].open = sock[k].open
             /\ \A k \in Sockets : k # n => sock'[k] = sock[k]
             /\ \A k \in Sockets : Unregistered(k)' => Unregistered(k)
             /\ sock'[n].side = side
  <2>1. \A k \in Sockets : k # n => sock'[k] = sock[k] BY <1>1, <1>4
  <2>2. sock'[n] = [sock[n] EXCEPT !.side = side] BY <1>1, <1>4
  <2>3. sock[n] \in SocketStates BY <1>1
  <2>4. sock'[n].window = sock[n].window /\ sock'[n].open = sock[n].open /\ sock'[n].side = side
    BY <2>2, <2>3 DEF SocketStates
  <2>5. side \notin {None, "open"} BY <1>4, <1>d
  <2> QED BY <2>1, <2>4, <2>5 DEF Unregistered
<1>5. ASSUME NEW n \in Sockets, CloseFrame(n) PROVE SocketsFit'
  <2>1. /\ toServer[n] = <<>> /\ sock' = [sock EXCEPT ![n].side = "closing"] /\ sock[n].side \in {"open", "registered"}
        /\ UNCHANGED <<toServer, toExt, handle, pending, client, running>>
    BY <1>5 DEF CloseFrame
  <2>2. /\ \A k \in Sockets : sock'[k].window = sock[k].window /\ sock'[k].open = sock[k].open
        /\ \A k \in Sockets : k # n => sock'[k] = sock[k]
        /\ sock'[n].side = "closing"
    <3>1. sock'[n] = [sock[n] EXCEPT !.side = "closing"] /\ sock[n] \in SocketStates BY <1>1, <2>1
    <3>2. \A k \in Sockets : k # n => sock'[k] = sock[k] BY <1>1, <2>1
    <3>3. sock'[n].window = sock[n].window /\ sock'[n].open = sock[n].open /\ sock'[n].side = "closing"
      BY <3>1 DEF SocketStates
    <3> QED BY <3>2, <3>3
  <2>3. \A k \in Sockets : Unregistered(k)' => Unregistered(k) BY <2>2 DEF Unregistered, None
  <2>4. HandlesFit' BY <1>1, <1>b, <2>1, <2>2 DEF HandlesFit
  <2>5. ClientsFit' BY <1>1, <1>b, <2>1, <2>2 DEF ClientsFit
  <2>6. QuietBefore' BY <1>b, <2>1, <2>3 DEF QuietBefore
  <2>7. RegistersOnce'
    <3>1. DOMAIN <<>> = {} OBVIOUS
    <3> QED BY <1>b, <2>1, <2>2, <3>1 DEF RegistersOnce
  <2>8. ConnsFit' BY <1>b, <1>e, <1>f, <2>1, <2>2 DEF ConnsFit
  <2> QED BY <2>4, <2>5, <2>6, <2>7, <2>8 DEF SocketsFit
<1>6. ASSUME NEW n \in Sockets, ExtensionDisconnected(n) PROVE SocketsFit'
  <2> DEFINE w == sock[n].window
  <2>1. /\ toServer[n] = <<>> /\ sock' = [sock EXCEPT ![n].side = "closed"] /\ sock[n].side = "closing"
        /\ UNCHANGED <<toServer, toExt, client, running>>
        /\ (handle' = handle /\ handle[w] # n) \/ handle' = [handle EXCEPT ![w] = 0]
        /\ pending' \subseteq pending
    BY <1>6 DEF ExtensionDisconnected
  <2>2. ~Unregistered(n) /\ "closed" \in Sides \ {"open"} /\ w \in Windows
    <3>1. sock[n].side # None /\ ~Unregistered(n) BY <2>1 DEF Unregistered, None
    <3>2. "closed" \in Sides \ {"open"} BY DEF Sides
    <3> QED BY <1>g, <3>1, <3>2
  <2>3. /\ \A k \in Sockets : sock'[k].window = sock[k].window /\ sock'[k].open = sock[k].open
        /\ \A k \in Sockets : k # n => sock'[k] = sock[k]
        /\ \A k \in Sockets : Unregistered(k)' => Unregistered(k)
    BY <1>4, <2>1, <2>2
  <2>4. HandlesFit'
    <3>1. \A v \in Windows : handle'[v] # 0 => handle'[v] = handle[v] /\ handle[v] # n
      BY <1>1, <1>b, <2>1, <2>2 DEF HandlesFit
    <3> QED BY <1>1, <1>b, <2>3, <3>1 DEF HandlesFit
  <2>5. ClientsFit' BY <1>1, <1>b, <2>1, <2>3 DEF ClientsFit
  <2>6. QuietBefore' BY <1>b, <2>1, <2>3 DEF QuietBefore
  <2>7. RegistersOnce'
    <3>1. DOMAIN <<>> = {} OBVIOUS
    <3> QED BY <1>b, <2>1, <2>3, <3>1 DEF RegistersOnce
  <2>8. ConnsFit' BY <1>b, <1>e, <1>f, <2>1, <2>3 DEF ConnsFit
  <2> QED BY <2>4, <2>5, <2>6, <2>7, <2>8 DEF SocketsFit
<1>7. ASSUME NEW n \in Sockets, ServerReceives(n), Head(toServer[n]).type = "register" PROVE SocketsFit'
  <2> DEFINE w == sock[n].window
             old == handle[w]
  <2>1. /\ sock' = [k \in Sockets |->
               IF k = n THEN [sock[k] EXCEPT !.side = "registered"]
               ELSE IF k = old /\ IsOpen(old) THEN [sock[k] EXCEPT !.side = "closing"] ELSE sock[k]]
        /\ handle' = [handle EXCEPT ![w] = n]
        /\ UNCHANGED <<pending, toExt, client, running>>
    BY <1>7 DEF ServerReceives, HandleRegistration
  <2>2. sock[n].side = "open" /\ \A k \in Sockets : \A i \in DOMAIN toServer'[k] :
              toServer'[k][i].type = "register" => k # n /\ i = 1 /\ sock[k].side = "open"
    BY <1>7, <1>b, RegistersReceived
  <2>3. w \in Windows
    <3>1. sock[n].side # None BY <2>2 DEF None
    <3> QED BY <1>g, <3>1
  <2> HIDE DEF w
  <2>4. /\ sock'[n].side = "registered" /\ sock'[n].window = sock[n].window /\ sock'[n].open = sock[n].open
    <3>1. sock'[n] = [sock[n] EXCEPT !.side = "registered"] /\ sock[n] \in SocketStates BY <1>1, <2>1
    <3> QED BY <3>1 DEF SocketStates
  <2>5. \A k \in Sockets : k # n => \/ sock'[k] = sock[k]
                                   \/ /\ k = old /\ sock[k].side = "registered" /\ sock'[k].side = "closing"
                                      /\ sock'[k].window = sock[k].window /\ sock'[k].open = sock[k].open
    <3> SUFFICES ASSUME NEW k \in Sockets, k # n, sock'[k] # sock[k]
                 PROVE  k = old /\ sock[k].side = "registered" /\ sock'[k].side = "closing"
                        /\ sock'[k].window = sock[k].window /\ sock'[k].open = sock[k].open
      OBVIOUS
    <3>0. sock'[k] = IF k = old /\ IsOpen(old) THEN [sock[k] EXCEPT !.side = "closing"] ELSE sock[k]
      BY <2>1
    <3>1. k = old /\ IsOpen(old) /\ sock'[k] = [sock[k] EXCEPT !.side = "closing"]
      BY <3>0
    <3>2. sock[k] \in SocketStates BY <1>1
    <3>3. sock'[k].side = "closing" /\ sock'[k].window = sock[k].window /\ sock'[k].open = sock[k].open
      BY <3>1, <3>2 DEF SocketStates
    <3> QED BY <3>1, <3>3 DEF IsOpen
  <2>6. \A k \in Sockets : sock'[k].window = sock[k].window /\ sock'[k].open = sock[k].open BY <2>4, <2>5
  <2>7. \A k \in Sockets : Unregistered(k)' => Unregistered(k) /\ k # n BY <2>4, <2>5 DEF Unregistered, None
  <2>8. HandlesFit'
    <3>1. SUFFICES ASSUME NEW v \in Windows, handle'[v] # 0
                   PROVE  sock'[handle'[v]].window = v /\ sock'[handle'[v]].side \in {"registered", "closing"}
      BY DEF HandlesFit
    <3>2. CASE v = w BY <1>1, <2>1, <2>4, <3>2 DEF w
    <3>3. CASE v # w
      <4>1. handle'[v] = handle[v] /\ handle[v] \in Sockets BY <1>1, <2>1, <3>1, <3>3
      <4>2. sock[handle[v]].window = v /\ sock[handle[v]].side \in {"registered", "closing"}
        BY <1>b, <3>1, <4>1 DEF HandlesFit
      <4>3. handle[v] # n BY <2>2, <4>2
      <4> QED BY <2>5, <2>6, <4>1, <4>2, <4>3
    <3> QED BY <3>2, <3>3
  <2>9. ClientsFit' BY <1>1, <1>b, <2>1, <2>6 DEF ClientsFit
  <2>10. QuietBefore' BY <1>b, <2>1, <2>7 DEF QuietBefore
  <2>11. RegistersOnce'
    <3>1. \A k \in Sockets : k # n /\ sock[k].side = "open" => sock'[k].side = "open" BY <2>5
    <3> QED BY <2>2, <3>1 DEF RegistersOnce
  <2>12. ConnsFit' BY <1>b, <1>e, <1>f, <2>1, <2>6 DEF ConnsFit
  <2> QED BY <2>8, <2>9, <2>10, <2>11, <2>12 DEF SocketsFit
<1>8. ASSUME NEW n \in Sockets, ServerReceives(n), Head(toServer[n]).type # "register" PROVE SocketsFit'
  <2> DEFINE m == Head(toServer[n])
  <2>1. UNCHANGED <<sock, handle, client, toExt, running>> /\ pending' \subseteq pending
    <3>1. m.type \in {"register", "response", "final", "changed"}
      <4>1. m \in FromExtension BY <1>1, <1>8 DEF ServerReceives
      <4> QED BY <4>1 DEF FromExtension
    <3>2. UNCHANGED <<client, toExt, running>> BY <1>8 DEF ServerReceives
    <3>3. CASE m.type = "response"
      <4>1. HandleResponse(m) /\ UNCHANGED <<sock, handle>> BY <1>8, <3>3 DEF ServerReceives
      <4> HIDE DEF m
      <4>2. pending' \subseteq pending BY <4>1 DEF HandleResponse
      <4> QED BY <3>2, <4>1, <4>2
    <3>4. CASE m.type \in {"final", "changed"}
      BY <1>8, <3>2, <3>4 DEF ServerReceives
    <3> QED BY <1>8, <3>1, <3>3, <3>4
  <2>2. RegistersOnce' BY <1>8, <1>b, <2>1, RegistersReceived DEF RegistersOnce
  <2> QED BY <2>1, <2>2, SocketsKept
<1>9. ASSUME NEW w \in Windows, WindowReceives(w) PROVE SocketsFit'
  <2> DEFINE n == client[w]
             m == Head(toExt[n])
  <2>1. n \in Sockets /\ toExt[n] # <<>> BY <1>1, <1>9 DEF WindowReceives, ClientOpen
  <2>2. ~Unregistered(n) /\ sock[n].window = w BY <1>a, <1>b, <2>1 DEF QuietBefore, ClientsFit
  <2>3. /\ UNCHANGED <<sock, handle, client, pending>> /\ toExt' = [toExt EXCEPT ![n] = Tail(@)]
        /\ \/ m.type = "request" /\ Runs(w, n, m)
           \/ m.type = "abort" /\ Aborts(w, m) /\ UNCHANGED toServer
           \/ m.type = "stop" /\ Sent(w, Finals(w)) /\ UNCHANGED running
    <3>1. m \in ToExtension BY <1>1, <2>1
    <3>2. m.type \in {"request", "abort", "stop"} BY <3>1 DEF ToExtension
    <3> QED BY <1>9, <3>2 DEF WindowReceives
  <2>4. \A k \in Sockets : Unregistered(k) => toExt'[k] = toExt[k] BY <1>1, <2>2, <2>3
  <2>5. m \in ToExtension BY <1>1, <2>1
  <2> HIDE DEF n, m
  <2>6. CASE m.type = "request" /\ Runs(w, n, m)
    <3>1. m.relay \in Nat /\ m.request \in Requests BY <2>5, <2>6 DEF ToExtension
    <3>2. CASE UNCHANGED toServer /\ running' = [running EXCEPT ![w] = @ \cup
          {[relay |-> m.relay, request |-> m.request, conn |-> n, aborted |-> FALSE, abortable |-> TRUE, begun |-> FALSE]}]
      <4>1. RegistersOnce' BY <1>b, <2>3, <3>2 DEF RegistersOnce
      <4>2. \A v \in Windows : \A r \in running'[v] :
              r \in running[v] \/ (r.conn = n /\ r.abortable /\ v = w)
        BY <1>1, <3>2
      <4> QED BY <2>2, <2>3, <2>4, <4>1, <4>2, SocketsKept
    <3>3. CASE Sent(w, <<Response(m, FALSE)>>) /\ UNCHANGED running
      <4>1. Response(m, FALSE) \in FromExtension BY <3>1 DEF Response, FromExtension
      <4>2. Response(m, FALSE).type = "response" BY DEF Response
      <4>3. <<Response(m, FALSE)>> \in Seq(FromExtension) /\ \A i \in DOMAIN <<Response(m, FALSE)>> :
              <<Response(m, FALSE)>>[i].type # "register"
        <5> DEFINE x == Response(m, FALSE)
        <5> HIDE DEF x
        <5>1. x \in FromExtension /\ x.type = "response" BY <4>1, <4>2 DEF x
        <5>2. <<x>> \in Seq(FromExtension) /\ \A i \in DOMAIN <<x>> : <<x>>[i] = x BY <5>1
        <5> QED BY <5>1, <5>2 DEF x
      <4>4. RegistersOnce' BY <1>b, <2>3, <3>3, <4>3, RegistersSent
      <4> QED BY <2>3, <2>4, <3>3, <4>4, SocketsKept
    <3> QED BY <2>6, <3>2, <3>3 DEF Runs
  <2>7. CASE m.type = "abort" /\ Aborts(w, m) /\ UNCHANGED toServer
    <3>1. RegistersOnce' BY <1>b, <2>3, <2>7 DEF RegistersOnce
    <3>2. \A r \in Commands : [r EXCEPT !.aborted = TRUE].conn = r.conn /\ [r EXCEPT !.aborted = TRUE].abortable = r.abortable
      BY DEF Commands
    <3>3. \A v \in Windows : \A r \in running'[v] : \E s \in running[v] : s.conn = r.conn /\ s.abortable = r.abortable
      <4>1. SUFFICES ASSUME NEW v \in Windows, NEW r \in running'[v]
                     PROVE  \E s \in running[v] : s.conn = r.conn /\ s.abortable = r.abortable
        OBVIOUS
      <4>2. running' = [running EXCEPT ![w] =
               {IF s.relay = m.relay /\ s.abortable THEN [s EXCEPT !.aborted = TRUE] ELSE s : s \in running[w]}]
        BY <2>7 DEF Aborts
      <4>3. CASE v # w BY <1>1, <4>1, <4>2, <4>3
      <4>4. CASE v = w
        <5>1. PICK s \in running[w] : r = IF s.relay = m.relay /\ s.abortable THEN [s EXCEPT !.aborted = TRUE] ELSE s
          BY <1>1, <4>1, <4>2, <4>4
        <5>2. r = s \/ r = [s EXCEPT !.aborted = TRUE] BY <5>1
        <5>3. s \in Commands BY <1>f
        <5> QED BY <3>2, <4>4, <5>2, <5>3
      <4> QED BY <4>3, <4>4
    <3> QED BY <2>3, <2>4, <3>1, <3>3, SocketsKept
  <2>8. CASE m.type = "stop" /\ Sent(w, Finals(w)) /\ UNCHANGED running
    <3>1. RegistersOnce' BY <1>b, <2>3, <2>8, FinalsAre, RegistersSent
    <3> QED BY <2>3, <2>4, <2>8, <3>1, SocketsKept
  <2> QED BY <2>3, <2>6, <2>7, <2>8
<1>10. ASSUME NEW w \in Windows, RecordingBegins(w) PROVE SocketsFit'
  <2>1. PICK r \in running[w] : running' = [running EXCEPT ![w] = (@ \ {r}) \cup {[r EXCEPT !.begun = TRUE]}]
    BY <1>10 DEF RecordingBegins
  <2>2. UNCHANGED <<sock, toServer, toExt, handle, client, pending>> BY <1>10 DEF RecordingBegins
  <2>3. r \in Commands BY <1>f
  <2>4. [r EXCEPT !.begun = TRUE].conn = r.conn /\ [r EXCEPT !.begun = TRUE].abortable = r.abortable
    BY <2>3 DEF Commands
  <2>5. \A v \in Windows : \A s \in running'[v] : \E t \in running[v] : t.conn = s.conn /\ t.abortable = s.abortable
    BY <1>1, <2>1, <2>4
  <2>6. RegistersOnce' BY <1>b, <2>2 DEF RegistersOnce
  <2> QED BY <2>2, <2>5, <2>6, SocketsKept
<1>11. ASSUME NEW w \in Windows, RecordingEnds(w) PROVE SocketsFit'
  <2>1. UNCHANGED <<sock, toExt, handle, client, pending, running>> /\ Sent(w, Finals(w)) BY <1>11 DEF RecordingEnds
  <2>2. RegistersOnce' BY <1>b, <2>1, FinalsAre, RegistersSent
  <2> QED BY <2>1, <2>2, SocketsKept
<1>s. ASSUME NEW w \in Windows, SessionChanges(w) PROVE SocketsFit'
  <2>1. PICK messages \in Seq(FromExtension) :
          Sent(w, messages) /\ \A i \in DOMAIN messages : messages[i].type = "changed"
    BY <1>s, ChangesAre
  <2>2. UNCHANGED <<sock, toExt, handle, client, pending, running>> BY <1>s DEF SessionChanges
  <2>3. RegistersOnce' BY <1>b, <2>1, <2>2, RegistersSent
  <2> QED BY <2>2, <2>3, SocketsKept
<1>12. ASSUME NEW w \in Windows, CommandEnds(w) PROVE SocketsFit'
  <2>1. PICK r \in running[w] :
         /\ running' = [running EXCEPT ![w] = @ \ {r}]
         /\ Sent(w, <<Response(r, IF Kind[r.request] = "record" THEN r.begun ELSE ~r.aborted)>>)
    BY <1>12 DEF CommandEnds
  <2> DEFINE ok == IF Kind[r.request] = "record" THEN r.begun ELSE ~r.aborted
  <2>2. UNCHANGED <<sock, toExt, handle, client, pending>> BY <1>12 DEF CommandEnds
  <2>3. r \in Commands /\ r.request \in Requests /\ r.relay \in Nat BY <1>f DEF Commands
  <2>4. ok \in BOOLEAN BY <2>3 DEF Commands
  <2> HIDE DEF ok
  <2>5. Response(r, ok) \in FromExtension BY <2>3, <2>4 DEF Response, FromExtension
  <2>6. Response(r, ok).type = "response" BY DEF Response
  <2>7. <<Response(r, ok)>> \in Seq(FromExtension) /\ \A i \in DOMAIN <<Response(r, ok)>> : <<Response(r, ok)>>[i].type # "register"
    <3> DEFINE x == Response(r, ok)
    <3> HIDE DEF x
    <3>1. x \in FromExtension /\ x.type = "response" BY <2>5, <2>6 DEF x
    <3>2. <<x>> \in Seq(FromExtension) /\ \A i \in DOMAIN <<x>> : <<x>>[i] = x BY <3>1
    <3> QED BY <3>1, <3>2 DEF x
  <2>8. RegistersOnce' BY <1>b, <2>1, <2>2, <2>7, RegistersSent DEF ok
  <2>9. \A v \in Windows : running'[v] \subseteq running[v] BY <1>1, <2>1
  <2> QED BY <2>2, <2>8, <2>9, SocketsKept
<1>13. ASSUME NEW q \in Requests, CliRequest(q) PROVE SocketsFit'
  <2> DEFINE w == Resolve(Wants[q])
             n == handle[w]
  <2>0. w \in Windows \cup {None} BY <1>1, BridgeAssumption DEF BridgeTypeOK, Resolve
  <2>1. UNCHANGED <<sock, handle, client, toServer, running>> BY <1>13 DEF CliRequest
  <2>2. RegistersOnce' BY <1>b, <2>1 DEF RegistersOnce
  <2>3. CASE Refuse(q) BY <2>1, <2>2, <2>3, SocketsKept DEF Refuse
  <2>4. CASE w \in Windows /\ IsOpen(n) /\ Forward(q, w)
    <3>1. n \in Sockets /\ ~Unregistered(n) /\ sock[n].window = w
      BY <1>1, <1>b, <2>4 DEF IsOpen, Unregistered, HandlesFit, None
    <3>2. \A p \in pending' : p \in pending \/ (p.conn = n /\ p.window = w) BY <2>4 DEF Forward
    <3>3. \A k \in Sockets : Unregistered(k) => toExt'[k] = toExt[k] BY <1>1, <2>4, <3>1 DEF Forward
    <3> QED BY <2>1, <2>2, <3>1, <3>2, <3>3, SocketsKept
  <2> HIDE DEF w, n
  <2> QED BY <1>13, <2>0, <2>3, <2>4 DEF CliRequest, w, n
<1>14. ASSUME NEW c \in Clis, CliDisconnects(c) PROVE SocketsFit'
  <2>1. UNCHANGED <<sock, handle, client, toServer, running>> /\ pending' \subseteq pending BY <1>14 DEF CliDisconnects
  <2>2. RegistersOnce' BY <1>b, <2>1 DEF RegistersOnce
  <2>3. \A n \in Sockets : Unregistered(n) => toExt'[n] = toExt[n]
    BY <1>14 DEF CliDisconnects, Unregistered, IsOpen, None
  <2> QED BY <2>1, <2>2, <2>3, SocketsKept
<1>15. CASE ServerRestarts
  <2>1. serverLives' = serverLives + 1 /\ serverLives \in Nat BY <1>15 DEF ServerRestarts, BridgeTypeOK
  <2> QED BY <2>1
<1>16. CASE UNCHANGED bridgeVars
  BY <1>16 DEF bridgeVars, SocketsFit, HandlesFit, ClientsFit, QuietBefore, Unregistered, RegistersOnce, ConnsFit
<1> QED
  BY <1>2, <1>3, <1>5, <1>6, <1>7, <1>8, <1>9, <1>10, <1>11, <1>s, <1>12, <1>13, <1>14, <1>15, <1>16 DEF BridgeNext, BridgeProgress

-----------------------------------------------------------------------------
(* Numbers of requests *)

\* A step that only takes first messages leaves every number at most once in a queue.
LEMMA AskedOnceKept ==
  ASSUME AskedOnce, BridgeTypeOK, BridgeTypeOK', \A n \in Sockets : KeepsAsks(toExt[n], toExt'[n])
  PROVE  AskedOnce' /\ \A n \in Sockets : AskedIn(toExt'[n]) \subseteq AskedIn(toExt[n])
<1>1. AskedOnce'
  <2> SUFFICES ASSUME NEW n \in Sockets, NEW k \in Sockets, NEW i \in Nat, NEW j \in Nat,
                      AskAt(toExt'[n], i), AskAt(toExt'[k], j), toExt'[n][i].relay = toExt'[k][j].relay
               PROVE  n = k /\ i = j
    BY DEF AskedOnce
  <2>1. PICK d \in Nat : \A x \in Nat : AskAt(toExt'[n], x) => AskAt(toExt[n], x + d) /\ toExt'[n][x] = toExt[n][x + d]
    BY DEF KeepsAsks
  <2>2. PICK e \in Nat : \A x \in Nat : AskAt(toExt'[k], x) => AskAt(toExt[k], x + e) /\ toExt'[k][x] = toExt[k][x + e]
    BY DEF KeepsAsks
  <2>3. n = k
    <3>1. i + d \in Nat /\ j + e \in Nat OBVIOUS
    <3> QED BY <2>1, <2>2, <3>1 DEF AskedOnce
  <2>4. AskAt(toExt[n], i + d) /\ AskAt(toExt[n], j + d) /\ toExt[n][i + d].relay = toExt[n][j + d].relay
    BY <2>1, <2>3
  <2>5. i + d \in Nat /\ j + d \in Nat OBVIOUS
  <2>6. i + d = j + d BY <2>4, <2>5 DEF AskedOnce
  <2> QED BY <2>3, <2>6
<1>2. ASSUME NEW n \in Sockets, NEW m \in AskedIn(toExt'[n]) PROVE m \in AskedIn(toExt[n])
  <2>1. toExt'[n] \in Seq(ToExtension) BY DEF BridgeTypeOK
  <2>2. DOMAIN toExt'[n] \subseteq Nat BY <2>1
  <2>3. PICK i \in Nat : AskAt(toExt'[n], i) /\ toExt'[n][i] = m BY <2>2 DEF AskedIn, AskAt
  <2>4. PICK d \in Nat : \A x \in Nat : AskAt(toExt'[n], x) => AskAt(toExt[n], x + d) /\ toExt'[n][x] = toExt[n][x + d]
    BY DEF KeepsAsks
  <2> QED BY <2>3, <2>4 DEF AskAt, AskedIn
<1> QED BY <1>1, <1>2

\* Taking a message, emptying a queue, or putting what asks for nothing only takes.
LEMMA AsksKept ==
  ASSUME NEW M, NEW s \in Seq(M)
  PROVE  /\ KeepsAsks(s, s) /\ KeepsAsks(s, <<>>)
         /\ s # <<>> => KeepsAsks(s, Tail(s))
         /\ \A t \in Seq(M) : (\A i \in DOMAIN t : t[i].type # "request") => KeepsAsks(s, s \o t)
<1>1. KeepsAsks(s, s)
  <2>1. \A i \in Nat : i + 0 = i OBVIOUS
  <2> QED BY <2>1 DEF KeepsAsks
<1>2. KeepsAsks(s, <<>>)
  <2>1. DOMAIN <<>> = {} OBVIOUS
  <2> QED BY <2>1 DEF KeepsAsks, AskAt
<1>3. ASSUME s # <<>> PROVE KeepsAsks(s, Tail(s))
  <2>1. \A i \in DOMAIN Tail(s) : Tail(s)[i] = s[i + 1] /\ i + 1 \in DOMAIN s BY <1>3, QueueTaken
  <2> QED BY <2>1 DEF KeepsAsks, AskAt
<1>4. ASSUME NEW t \in Seq(M), \A i \in DOMAIN t : t[i].type # "request" PROVE KeepsAsks(s, s \o t)
  <2>1. \A i \in DOMAIN (s \o t) : i \in DOMAIN s \/ (i - Len(s) \in DOMAIN t /\ (s \o t)[i] = t[i - Len(s)])
    BY QueueGrows
  <2>2. \A i \in DOMAIN s : (s \o t)[i] = s[i] BY QueueGrows
  <2>3. \A i \in Nat : AskAt(s \o t, i) => AskAt(s, i + 0) /\ (s \o t)[i] = s[i + 0]
    BY <1>4, <2>1, <2>2 DEF AskAt
  <2> QED BY <2>3 DEF KeepsAsks
<1> QED BY <1>1, <1>2, <1>3, <1>4

\* Where the number of a request may go.
AsksFor(relay) == \E n \in Sockets : \E x \in AskedIn(toExt[n]) : x.relay = relay
RunsFor(relay) == \E w \in Windows : \E r \in running[w] : r.relay = relay

\* A number may go from the queue to the command that runs for it, and on to its answer.
LEMMA RelaysKept ==
  ASSUME BridgeTypeOK, BridgeTypeOK', RelaysFit, nextRelay <= nextRelay', pending' \subseteq pending,
         \A n \in Sockets : AskedIn(toExt'[n]) \subseteq AskedIn(toExt[n]),
         \A w \in Windows : \A r \in running'[w] :
           \/ \E s \in running[w] : s.relay = r.relay /\ s.request = r.request /\ s.conn = r.conn
           \/ /\ \E n \in Sockets : \E m \in AskedIn(toExt[n]) : m.relay = r.relay /\ m.request = r.request /\ r.conn = n
              /\ ~AsksFor(r.relay)',
         \A k \in Sockets : \A a \in AnsweredIn(toServer'[k]) :
           \/ \E j \in Sockets : a \in AnsweredIn(toServer[j])
           \/ /\ \E n \in Sockets : \E m \in AskedIn(toExt[n]) : m.relay = a.relay /\ m.request = a.request
              /\ ~AsksFor(a.relay)' /\ ~RunsFor(a.relay)'
           \/ /\ \E w \in Windows : \E r \in running[w] : r.relay = a.relay /\ r.request = a.request
              /\ ~RunsFor(a.relay)'
  PROVE  RelaysFit'
<1>1. nextRelay \in Nat /\ nextRelay' \in Nat BY DEF BridgeTypeOK
<1>2. \A p \in pending : p.relay \in Nat BY DEF BridgeTypeOK, Waiters
<1>3. \A n \in Sockets : \A m \in AskedIn(toExt[n]) : m.relay \in Nat /\ AskedFit(m, n)
  <2> SUFFICES ASSUME NEW n \in Sockets, NEW m \in AskedIn(toExt[n]) PROVE m.relay \in Nat /\ AskedFit(m, n)
    OBVIOUS
  <2>1. toExt[n] \in Seq(ToExtension) BY DEF BridgeTypeOK
  <2>2. m \in ToExtension /\ m.type = "request" BY <2>1 DEF AskedIn
  <2> QED BY <2>2 DEF ToExtension, RelaysFit
<1>4. \A w \in Windows : \A r \in running[w] : r.relay \in Nat /\ RunFits(r) BY DEF BridgeTypeOK, Commands, RelaysFit
<1>5. \A k \in Sockets : \A a \in AnsweredIn(toServer[k]) : a.relay \in Nat /\ AnswerFits(a)
  <2> SUFFICES ASSUME NEW k \in Sockets, NEW a \in AnsweredIn(toServer[k]) PROVE a.relay \in Nat /\ AnswerFits(a)
    OBVIOUS
  <2>1. toServer[k] \in Seq(FromExtension) BY DEF BridgeTypeOK
  <2>2. a \in FromExtension /\ a.type = "response" BY <2>1 DEF AnsweredIn
  <2> QED BY <2>2 DEF FromExtension, RelaysFit
<1>6. \A p \in pending' : p.relay < nextRelay' BY <1>1, <1>2 DEF RelaysFit
<1>7. ASSUME NEW n \in Sockets, NEW m \in AskedIn(toExt'[n]) PROVE AskedFit(m, n)'
  <2>1. m \in AskedIn(toExt[n]) BY <1>7
  <2>2. m.relay \in Nat /\ AskedFit(m, n) BY <1>3, <2>1
  <2>3. AsksFor(m.relay)' BY <1>7 DEF AsksFor
  <2>4. m.relay < nextRelay' BY <1>1, <2>2 DEF AskedFit
  <2>5. \A w \in Windows : \A r \in running'[w] : r.relay # m.relay BY <2>2, <2>3 DEF AskedFit
  <2>6. \A k \in Sockets : \A a \in AnsweredIn(toServer'[k]) : a.relay # m.relay
    <3> SUFFICES ASSUME NEW k \in Sockets, NEW a \in AnsweredIn(toServer'[k]), a.relay = m.relay PROVE FALSE
      OBVIOUS
    <3>1. CASE \E j \in Sockets : a \in AnsweredIn(toServer[j]) BY <2>2, <3>1 DEF AskedFit
    <3>2. CASE ~AsksFor(a.relay)' BY <2>3, <3>2
    <3>3. CASE \E w \in Windows : \E r \in running[w] : r.relay = a.relay BY <2>2, <3>3 DEF AskedFit
    <3> QED BY <3>1, <3>2, <3>3
  <2> QED BY <2>2, <2>4, <2>5, <2>6 DEF AskedFit
<1>8. ASSUME NEW w \in Windows, NEW r \in running'[w] PROVE RunFits(r)'
  <2>0. RunsFor(r.relay)' BY <1>8 DEF RunsFor
  <2>1. CASE \E s \in running[w] : s.relay = r.relay /\ s.request = r.request /\ s.conn = r.conn
    <3>1. PICK s \in running[w] : s.relay = r.relay /\ s.request = r.request /\ s.conn = r.conn BY <2>1
    <3>2. s.relay \in Nat /\ RunFits(s) BY <1>4
    <3>3. r.relay < nextRelay' BY <1>1, <3>1, <3>2 DEF RunFits
    <3>4. \A p \in pending' : p.relay = r.relay => p.request = r.request /\ p.conn = r.conn BY <3>1, <3>2 DEF RunFits
    <3>5. \A k \in Sockets : \A a \in AnsweredIn(toServer'[k]) : a.relay # r.relay
      <4> SUFFICES ASSUME NEW k \in Sockets, NEW a \in AnsweredIn(toServer'[k]), a.relay = r.relay PROVE FALSE
        OBVIOUS
      <4>1. CASE \E j \in Sockets : a \in AnsweredIn(toServer[j]) BY <3>1, <3>2, <4>1 DEF RunFits
      <4>2. CASE ~RunsFor(a.relay)' BY <2>0, <4>2
      <4> QED BY <4>1, <4>2
    <3> QED BY <3>3, <3>4, <3>5 DEF RunFits
  <2>2. CASE \E n \in Sockets : \E m \in AskedIn(toExt[n]) : m.relay = r.relay /\ m.request = r.request /\ r.conn = n
    <3>0. PICK n \in Sockets : \E m \in AskedIn(toExt[n]) : m.relay = r.relay /\ m.request = r.request /\ r.conn = n BY <2>2
    <3>1. PICK m \in AskedIn(toExt[n]) : m.relay = r.relay /\ m.request = r.request /\ r.conn = n BY <3>0
    <3>2. m.relay \in Nat /\ AskedFit(m, n) BY <1>3
    <3>3. r.relay < nextRelay' BY <1>1, <3>1, <3>2 DEF AskedFit
    <3>4. \A p \in pending' : p.relay = r.relay => p.request = r.request /\ p.conn = r.conn BY <3>1, <3>2 DEF AskedFit
    <3>5. \A k \in Sockets : \A a \in AnsweredIn(toServer'[k]) : a.relay # r.relay
      <4> SUFFICES ASSUME NEW k \in Sockets, NEW a \in AnsweredIn(toServer'[k]), a.relay = r.relay PROVE FALSE
        OBVIOUS
      <4>1. CASE \E j \in Sockets : a \in AnsweredIn(toServer[j]) BY <3>1, <3>2, <4>1 DEF AskedFit
      <4>2. CASE ~RunsFor(a.relay)' BY <2>0, <4>2
      <4> QED BY <4>1, <4>2
    <3> QED BY <3>3, <3>4, <3>5 DEF RunFits
  <2> QED BY <2>1, <2>2
<1>9. ASSUME NEW k \in Sockets, NEW a \in AnsweredIn(toServer'[k]) PROVE AnswerFits(a)'
  <2>1. CASE \E j \in Sockets : a \in AnsweredIn(toServer[j]) BY <1>1, <1>5, <2>1 DEF AnswerFits
  <2>2. CASE \E n \in Sockets : \E m \in AskedIn(toExt[n]) : m.relay = a.relay /\ m.request = a.request
    BY <1>1, <1>3, <2>2 DEF AnswerFits, AskedFit
  <2>3. CASE \E w \in Windows : \E r \in running[w] : r.relay = a.relay /\ r.request = a.request
    BY <1>1, <1>4, <2>3 DEF AnswerFits, RunFits
  <2> QED BY <2>1, <2>2, <2>3
<1> QED BY <1>6, <1>7, <1>8, <1>9 DEF RelaysFit

\* Two such steps are one.
LEMMA AsksKeptTwice ==
  ASSUME NEW s, NEW t, NEW u, KeepsAsks(s, t), KeepsAsks(t, u)
  PROVE  KeepsAsks(s, u)
<1>1. PICK d \in Nat : \A i \in Nat : AskAt(t, i) => AskAt(s, i + d) /\ t[i] = s[i + d] BY DEF KeepsAsks
<1>2. PICK e \in Nat : \A i \in Nat : AskAt(u, i) => AskAt(t, i + e) /\ u[i] = t[i + e] BY DEF KeepsAsks
<1>3. ASSUME NEW i \in Nat, AskAt(u, i) PROVE AskAt(s, i + (e + d)) /\ u[i] = s[i + (e + d)]
  <2>1. AskAt(t, i + e) /\ u[i] = t[i + e] /\ i + e \in Nat BY <1>2, <1>3
  <2>2. AskAt(s, (i + e) + d) /\ t[i + e] = s[(i + e) + d] BY <1>1, <2>1
  <2>3. (i + e) + d = i + (e + d) OBVIOUS
  <2> QED BY <2>1, <2>2, <2>3
<1>4. e + d \in Nat OBVIOUS
<1> QED BY <1>3, <1>4 DEF KeepsAsks

\* A step that changes the commands of a window one by one.
LEMMA RunsChanged ==
  ASSUME BridgeTypeOK, RunOnce, NEW w \in Windows, NEW f, \A v \in Windows : v # w => running'[v] = running[v],
         \A r \in running'[w] : \E s \in running[w] : r = f[s],
         \A s \in running[w] : f[s].relay = s.relay /\ f[s].request = s.request /\ f[s].conn = s.conn
  PROVE  /\ RunOnce'
         /\ \A v \in Windows : \A r \in running'[v] : \E s \in running[v] :
              s.relay = r.relay /\ s.request = r.request /\ s.conn = r.conn
<1>1. \A v \in Windows : \A r \in running'[v] : \E s \in running[v] :
        s.relay = r.relay /\ s.request = r.request /\ s.conn = r.conn /\ (IF v = w THEN r = f[s] ELSE r = s)
  OBVIOUS
<1>2. ASSUME NEW v \in Windows, NEW u \in Windows, NEW r \in running'[v], NEW x \in running'[u], r.relay = x.relay
      PROVE  v = u /\ r = x
  <2>1. PICK s \in running[v] : s.relay = r.relay /\ (IF v = w THEN r = f[s] ELSE r = s) BY <1>1, <1>2
  <2>2. PICK t \in running[u] : t.relay = x.relay /\ (IF u = w THEN x = f[t] ELSE x = t) BY <1>1, <1>2
  <2>3. v = u /\ s = t BY <1>2, <2>1, <2>2 DEF RunOnce
  <2> QED BY <2>1, <2>2, <2>3
<1> QED BY <1>1, <1>2 DEF RunOnce

\* What a window sends comes after what it sent.
LEMMA AnswersSent ==
  ASSUME BridgeTypeOK, NEW w \in Windows, NEW messages \in Seq(FromExtension), Sent(w, messages)
  PROVE  \A k \in Sockets : \A a \in AnsweredIn(toServer'[k]) : a \in AnsweredIn(toServer[k]) \/ a \in AnsweredIn(messages)
<1> SUFFICES ASSUME NEW k \in Sockets
             PROVE  \A a \in AnsweredIn(toServer'[k]) : a \in AnsweredIn(toServer[k]) \/ a \in AnsweredIn(messages)
  OBVIOUS
<1>1. toServer'[k] = toServer[k] \/ toServer'[k] = toServer[k] \o messages BY DEF BridgeTypeOK, Sent
<1>2. toServer[k] \in Seq(FromExtension) BY DEF BridgeTypeOK
<1>3. AnsweredIn(toServer[k] \o messages) \subseteq AnsweredIn(toServer[k]) \cup AnsweredIn(messages) BY <1>2, QueueGrows
<1> QED BY <1>1, <1>3

\* A step that takes no number anywhere.
LEMMA RelaysUnmoved ==
  ASSUME BridgeTypeOK, BridgeTypeOK', RelaysFit, AskedOnce, RunOnce', nextRelay <= nextRelay', pending' \subseteq pending,
         \A n \in Sockets : KeepsAsks(toExt[n], toExt'[n]),
         \A w \in Windows : \A r \in running'[w] : \E s \in running[w] :
           s.relay = r.relay /\ s.request = r.request /\ s.conn = r.conn,
         \A k \in Sockets : AnsweredIn(toServer'[k]) \subseteq AnsweredIn(toServer[k])
  PROVE  RelaysFit' /\ AskedOnce' /\ RunOnce'
<1>1. AskedOnce' /\ \A n \in Sockets : AskedIn(toExt'[n]) \subseteq AskedIn(toExt[n]) BY AskedOnceKept
<1>2. \A k \in Sockets : \A a \in AnsweredIn(toServer'[k]) : \E j \in Sockets : a \in AnsweredIn(toServer[j])
  OBVIOUS
<1>3. RelaysFit' BY <1>1, <1>2, RelaysKept
<1> QED BY <1>1, <1>3

\* A request is forwarded with a number that nothing has (handleCliRequest, nextRelayRequestId).
LEMMA RelayForwarded ==
  ASSUME BridgeTypeOK, BridgeTypeOK', RelaysFit, AskedOnce, RunOnce, UNCHANGED <<toServer, running>>,
         NEW q \in Requests, NEW w \in Windows, handle[w] \in Sockets, Forward(q, w)
  PROVE  RelaysFit' /\ AskedOnce' /\ RunOnce'
<1> DEFINE n == handle[w]
           p0 == [relay |-> nextRelay, request |-> q, window |-> w, conn |-> n]
           m0 == [type |-> "request", relay |-> nextRelay, request |-> q]
<1>1. nextRelay \in Nat /\ nextRelay' = nextRelay + 1 /\ pending' = pending \cup {p0}
  BY DEF BridgeTypeOK, Forward
<1>2. /\ \A k \in Sockets : k # n => toExt'[k] = toExt[k]
      /\ toExt'[n] = toExt[n] \/ toExt'[n] = Append(toExt[n], m0)
  BY DEF BridgeTypeOK, Forward
<1>3. \A p \in pending : p.relay \in Nat /\ p.relay < nextRelay BY DEF BridgeTypeOK, Waiters, RelaysFit
<1>4. \A k \in Sockets : \A m \in AskedIn(toExt[k]) : m.relay \in Nat /\ m.relay < nextRelay /\ AskedFit(m, k)
  <2> SUFFICES ASSUME NEW k \in Sockets, NEW m \in AskedIn(toExt[k])
               PROVE  m.relay \in Nat /\ m.relay < nextRelay /\ AskedFit(m, k)
    OBVIOUS
  <2>1. toExt[k] \in Seq(ToExtension) BY DEF BridgeTypeOK
  <2>2. m \in ToExtension /\ m.type = "request" BY <2>1 DEF AskedIn
  <2> QED BY <2>2 DEF ToExtension, RelaysFit, AskedFit
<1>5. \A v \in Windows : \A r \in running[v] : r.relay \in Nat /\ r.relay < nextRelay /\ RunFits(r)
  BY DEF BridgeTypeOK, Commands, RelaysFit, RunFits
<1>6. \A k \in Sockets : \A a \in AnsweredIn(toServer[k]) : a.relay \in Nat /\ a.relay < nextRelay /\ AnswerFits(a)
  <2> SUFFICES ASSUME NEW k \in Sockets, NEW a \in AnsweredIn(toServer[k])
               PROVE  a.relay \in Nat /\ a.relay < nextRelay /\ AnswerFits(a)
    OBVIOUS
  <2>1. toServer[k] \in Seq(FromExtension) BY DEF BridgeTypeOK
  <2>2. a \in FromExtension /\ a.type = "response" BY <2>1 DEF AnsweredIn
  <2> QED BY <2>2 DEF FromExtension, RelaysFit, AnswerFits
<1>7. p0.relay = nextRelay /\ p0.request = q /\ p0.conn = n /\ m0.relay = nextRelay /\ m0.request = q /\ m0.type = "request"
  OBVIOUS
<1>8. m0 \in ToExtension BY <1>1 DEF ToExtension
<1>9. toExt[n] \in Seq(ToExtension) BY DEF BridgeTypeOK
<1> HIDE DEF n, p0, m0
<1>10. /\ \A i \in DOMAIN toExt[n] : i \in DOMAIN Append(toExt[n], m0) /\ Append(toExt[n], m0)[i] = toExt[n][i]
       /\ \A i \in DOMAIN Append(toExt[n], m0) :
            (i \in DOMAIN toExt[n] /\ Append(toExt[n], m0)[i] = toExt[n][i])
            \/ (i = Len(toExt[n]) + 1 /\ Append(toExt[n], m0)[i] = m0)
  BY <1>8, <1>9
<1>11. /\ \A k \in Sockets : \A i \in DOMAIN toExt'[k] :
            (i \in DOMAIN toExt[k] /\ toExt'[k][i] = toExt[k][i])
            \/ (k = n /\ i = Len(toExt[n]) + 1 /\ toExt'[k][i] = m0)
  BY <1>2, <1>10
<1>12. \A k \in Sockets : \A m \in AskedIn(toExt'[k]) : m \in AskedIn(toExt[k]) \/ (k = n /\ m = m0)
  BY <1>11 DEF AskedIn
<1>13. AskedOnce'
  <2> SUFFICES ASSUME NEW j \in Sockets, NEW k \in Sockets, NEW x \in Nat, NEW y \in Nat,
                      AskAt(toExt'[j], x), AskAt(toExt'[k], y), toExt'[j][x].relay = toExt'[k][y].relay
               PROVE  j = k /\ x = y
    BY DEF AskedOnce
  <2>1. \A l \in Sockets : \A i \in Nat : AskAt(toExt[l], i) => toExt[l][i].relay # nextRelay
    <3>1. \A l \in Sockets : \A i \in Nat : AskAt(toExt[l], i) => toExt[l][i] \in AskedIn(toExt[l])
      BY DEF AskAt, AskedIn
    <3> QED BY <1>1, <1>4, <3>1
  <2>2. (AskAt(toExt[j], x) /\ toExt'[j][x] = toExt[j][x])
        \/ (j = n /\ x = Len(toExt[n]) + 1 /\ toExt'[j][x] = m0)
    BY <1>11 DEF AskAt
  <2>3. (AskAt(toExt[k], y) /\ toExt'[k][y] = toExt[k][y])
        \/ (k = n /\ y = Len(toExt[n]) + 1 /\ toExt'[k][y] = m0)
    BY <1>11 DEF AskAt
  <2> QED BY <1>7, <2>1, <2>2, <2>3 DEF AskedOnce
<1>14. \A p \in pending' : p.relay < nextRelay' BY <1>1, <1>3, <1>7
<1>15. ASSUME NEW k \in Sockets, NEW m \in AskedIn(toExt'[k]) PROVE AskedFit(m, k)'
  <2>1. CASE m \in AskedIn(toExt[k])
    <3>1. m.relay \in Nat /\ m.relay < nextRelay /\ AskedFit(m, k) BY <1>4, <2>1
    <3>2. m.relay < nextRelay' /\ m.relay # nextRelay BY <1>1, <3>1
    <3>3. \A p \in pending' : p.relay = m.relay => p.request = m.request /\ p.conn = k
      BY <1>1, <1>7, <3>1, <3>2 DEF AskedFit
    <3> QED BY <3>1, <3>2, <3>3 DEF AskedFit
  <2>2. CASE k = n /\ m = m0
    <3>1. m.relay = nextRelay /\ m.relay < nextRelay' BY <1>1, <1>7, <2>2
    <3>2. \A p \in pending' : p.relay = m.relay => p.request = m.request /\ p.conn = k
      BY <1>1, <1>3, <1>7, <2>2
    <3>3. \A v \in Windows : \A r \in running'[v] : r.relay # m.relay BY <1>1, <1>5, <3>1
    <3>4. \A j \in Sockets : \A a \in AnsweredIn(toServer'[j]) : a.relay # m.relay BY <1>1, <1>6, <3>1
    <3> QED BY <3>1, <3>2, <3>3, <3>4 DEF AskedFit
  <2> QED BY <1>12, <1>15, <2>1, <2>2
<1>16. ASSUME NEW v \in Windows, NEW r \in running'[v] PROVE RunFits(r)'
  <2>1. r.relay \in Nat /\ r.relay < nextRelay /\ RunFits(r) BY <1>5, <1>16
  <2>2. r.relay < nextRelay' /\ r.relay # nextRelay BY <1>1, <2>1
  <2>3. \A p \in pending' : p.relay = r.relay => p.request = r.request /\ p.conn = r.conn
    BY <1>1, <1>7, <2>1, <2>2 DEF RunFits
  <2> QED BY <2>1, <2>2, <2>3 DEF RunFits
<1>17. ASSUME NEW k \in Sockets, NEW a \in AnsweredIn(toServer'[k]) PROVE AnswerFits(a)'
  <2>1. a.relay \in Nat /\ a.relay < nextRelay /\ AnswerFits(a) BY <1>6, <1>17
  <2>2. a.relay < nextRelay' /\ a.relay # nextRelay BY <1>1, <2>1
  <2>3. \A p \in pending' : p.relay = a.relay => p.request = a.request
    BY <1>1, <1>7, <2>1, <2>2 DEF AnswerFits
  <2> QED BY <2>2, <2>3 DEF AnswerFits
<1>18. RunOnce' BY DEF RunOnce
<1>19. RelaysFit' BY <1>14, <1>15, <1>16, <1>17 DEF RelaysFit
<1> QED BY <1>13, <1>18, <1>19

\* Every step keeps each number in one place, while the server lives.
LEMMA RelaysStay ==
  ASSUME BridgeTypeOK, BridgeTypeOK', RelaysFit, AskedOnce, RunOnce, [BridgeNext]_bridgeVars, serverLives' = serverLives
  PROVE  RelaysFit' /\ AskedOnce' /\ RunOnce'
<1> USE DEF sockVars, serverVars, cliVars, windowVars
<1>1. /\ toExt \in [Sockets -> Seq(ToExtension)] /\ toServer \in [Sockets -> Seq(FromExtension)]
      /\ handle \in [Windows -> Sockets \cup {0}] /\ pending \subseteq Waiters /\ nextRelay \in Nat
      /\ client \in [Windows -> Sockets \cup {0}] /\ running \in [Windows -> SUBSET Commands]
  BY DEF BridgeTypeOK
<1>a. 0 \notin Sockets BY DEF Sockets
<1>b. /\ \A n \in Sockets : KeepsAsks(toExt[n], toExt[n]) /\ KeepsAsks(toExt[n], <<>>)
      /\ \A n \in Sockets : toExt[n] # <<>> => KeepsAsks(toExt[n], Tail(toExt[n]))
  BY <1>1, AsksKept
<1>c. \A w \in Windows : \A r \in running[w] : r \in Commands /\ r.relay \in Nat /\ r.request \in Requests
  BY <1>1 DEF Commands
<1>d. nextRelay <= nextRelay BY <1>1
<1>e. ASSUME UNCHANGED <<toExt, running, nextRelay>>, pending' \subseteq pending,
             \A k \in Sockets : AnsweredIn(toServer'[k]) \subseteq AnsweredIn(toServer[k])
      PROVE  RelaysFit' /\ AskedOnce' /\ RunOnce'
  <2>1. RunOnce' BY <1>e DEF RunOnce
  <2>2. \A n \in Sockets : KeepsAsks(toExt[n], toExt'[n]) BY <1>b, <1>e
  <2>3. \A w \in Windows : \A r \in running'[w] : \E s \in running[w] : s.relay = r.relay /\ s.request = r.request /\ s.conn = r.conn
    BY <1>e
  <2>4. nextRelay <= nextRelay' BY <1>d, <1>e
  <2> QED BY <1>e, <2>1, <2>2, <2>3, <2>4, RelaysUnmoved
<1>2. ASSUME NEW w \in Windows, ClientConnects(w) PROVE RelaysFit' /\ AskedOnce' /\ RunOnce'
  <2>1. PICK n \in Sockets : toServer' = [toServer EXCEPT ![n] = <<[type |-> "register"]>>]
    BY <1>2 DEF ClientConnects
  <2>2. UNCHANGED <<toExt, nextRelay, pending, running>> BY <1>2 DEF ClientConnects
  <2>3. AnsweredIn(<<[type |-> "register"]>>) = {}
    <3>1. [type |-> "register"] \in FromExtension BY DEF FromExtension
    <3>2. <<>> \in Seq(FromExtension) OBVIOUS
    <3> DEFINE m == [type |-> "register"]
    <3>3. m.type = "register" OBVIOUS
    <3> HIDE DEF m
    <3> QED BY <3>1, <3>2, <3>3, MessagePut DEF m
  <2>4. \A k \in Sockets : AnsweredIn(toServer'[k]) \subseteq AnsweredIn(toServer[k]) BY <1>1, <2>1, <2>3
  <2> QED BY <1>e, <2>2, <2>4
<1>3. ASSUME NEW w \in Windows, ClientCloses(w) PROVE RelaysFit' /\ AskedOnce' /\ RunOnce'
  <2> DEFINE n == client[w]
  <2>1. n \in Sockets BY <1>1, <1>3 DEF ClientCloses, ClientOpen
  <2>2. PICK how \in {"disconnect", "delivered", "lost"} :
         /\ toServer' = [toServer EXCEPT ![n] = IF how = "lost" THEN <<>> ELSE @]
         /\ running' = [running EXCEPT ![w] = {[r EXCEPT !.abortable = @ /\ how # "disconnect"] : r \in running[w]}]
    BY <1>3 DEF ClientCloses
  <2>3. UNCHANGED <<nextRelay, pending>> /\ toExt' = [toExt EXCEPT ![n] = <<>>] BY <1>3 DEF ClientCloses
  <2> DEFINE f == [r \in running[w] |-> [r EXCEPT !.abortable = @ /\ how # "disconnect"]]
  <2>4. \A s \in running[w] : f[s].relay = s.relay /\ f[s].request = s.request /\ f[s].conn = s.conn
    BY <1>c DEF Commands
  <2>5. \A r \in running'[w] : \E s \in running[w] : r = f[s] BY <1>1, <2>2
  <2>6. \A v \in Windows : v # w => running'[v] = running[v] BY <1>1, <2>2
  <2> HIDE DEF f, n
  <2>7. /\ RunOnce'
        /\ \A v \in Windows : \A r \in running'[v] : \E s \in running[v] :
              s.relay = r.relay /\ s.request = r.request /\ s.conn = r.conn
    BY <2>4, <2>5, <2>6, RunsChanged
  <2>8. \A k \in Sockets : KeepsAsks(toExt[k], toExt'[k])
    <3>1. \A k \in Sockets : toExt'[k] = toExt[k] \/ toExt'[k] = <<>> BY <1>1, <2>3
    <3> QED BY <1>b, <3>1
  <2>9. \A k \in Sockets : AnsweredIn(toServer'[k]) \subseteq AnsweredIn(toServer[k])
    <3>1. \A k \in Sockets : toServer'[k] = toServer[k] \/ toServer'[k] = <<>> BY <1>1, <2>2
    <3>2. AnsweredIn(<<>>) = {} BY DEF AnsweredIn
    <3> QED BY <3>1, <3>2
  <2>10. nextRelay <= nextRelay' /\ pending' \subseteq pending BY <1>d, <2>3
  <2> QED BY <2>7, <2>8, <2>9, <2>10, RelaysUnmoved
<1>4. ASSUME NEW n \in Sockets, CloseFrame(n) PROVE RelaysFit' /\ AskedOnce' /\ RunOnce'
  BY <1>e, <1>4 DEF CloseFrame
<1>5. ASSUME NEW n \in Sockets, ExtensionDisconnected(n) PROVE RelaysFit' /\ AskedOnce' /\ RunOnce'
  <2>1. UNCHANGED <<toExt, toServer, running, nextRelay>> /\ pending' \subseteq pending BY <1>5 DEF ExtensionDisconnected
  <2> QED BY <1>e, <2>1
<1>6. ASSUME NEW n \in Sockets, ServerReceives(n) PROVE RelaysFit' /\ AskedOnce' /\ RunOnce'
  <2> DEFINE m == Head(toServer[n])
  <2>1. UNCHANGED <<toExt, running, nextRelay>> /\ toServer[n] # <<>> /\ toServer' = [toServer EXCEPT ![n] = Tail(@)]
    BY <1>6 DEF ServerReceives
  <2>2. m.type \in {"register", "response", "final", "changed"}
    <3>1. m \in FromExtension BY <1>1, <2>1
    <3> QED BY <3>1 DEF FromExtension
  <2>3. pending' = pending \/ HandleResponse(m) BY <1>6, <2>2 DEF ServerReceives
  <2> HIDE DEF m
  <2>4. pending' \subseteq pending BY <2>3 DEF HandleResponse
  <2>5. \A k \in Sockets : AnsweredIn(toServer'[k]) \subseteq AnsweredIn(toServer[k])
    <3>1. AnsweredIn(Tail(toServer[n])) \subseteq AnsweredIn(toServer[n]) BY <1>1, <2>1, QueueTaken
    <3> QED BY <1>1, <2>1, <3>1
  <2> QED BY <1>e, <2>1, <2>4, <2>5
<1>7. ASSUME NEW w \in Windows, WindowReceives(w) PROVE RelaysFit' /\ AskedOnce' /\ RunOnce'
  <2>1. PICK n \in Sockets, m \in ToExtension : n = client[w] /\ toExt[n] # <<>> /\ m = Head(toExt[n])
    BY <1>1, <1>7 DEF WindowReceives, ClientOpen
  <2>2. /\ UNCHANGED <<nextRelay, pending>> /\ toExt' = [toExt EXCEPT ![n] = Tail(@)]
        /\ \/ m.type = "request" /\ Runs(w, n, m)
           \/ m.type = "abort" /\ Aborts(w, m) /\ UNCHANGED toServer
           \/ m.type = "stop" /\ Sent(w, Finals(w)) /\ UNCHANGED running
    <3>2. m.type \in {"request", "abort", "stop"} BY <2>1 DEF ToExtension
    <3> QED BY <1>7, <2>1, <3>2 DEF WindowReceives
  <2>3. \A k \in Sockets : KeepsAsks(toExt[k], toExt'[k])
    <3>1. toExt'[n] = Tail(toExt[n]) /\ \A k \in Sockets : k # n => toExt'[k] = toExt[k] BY <1>1, <2>1, <2>2
    <3> QED BY <1>b, <2>1, <3>1
  <2>4. nextRelay <= nextRelay' /\ pending' \subseteq pending BY <1>d, <2>2
  <2>5. /\ m = toExt[n][1] /\ 1 \in DOMAIN toExt[n]
        /\ m.type = "request" => m \in AskedIn(toExt[n])
        /\ \A i \in DOMAIN Tail(toExt[n]) : Tail(toExt[n])[i] = toExt[n][i + 1] /\ i + 1 \in DOMAIN toExt[n] /\ i \in Nat /\ i >= 1
    <3>1. toExt[n] \in Seq(ToExtension) BY <1>1, <2>1
    <3>2. m = toExt[n][1] /\ 1 \in DOMAIN toExt[n] BY <2>1, <3>1
    <3>3. m.type = "request" => m \in AskedIn(toExt[n]) BY <3>2 DEF AskedIn
    <3>4. \A i \in DOMAIN Tail(toExt[n]) : Tail(toExt[n])[i] = toExt[n][i + 1] /\ i + 1 \in DOMAIN toExt[n] /\ i \in Nat /\ i >= 1
      BY <2>1, <3>1, QueueTaken
    <3> QED BY <3>2, <3>3, <3>4
  <2>6. CASE m.type = "request" /\ Runs(w, n, m)
    <3>0. m.relay \in Nat /\ m.request \in Requests BY <2>1, <2>6 DEF ToExtension
    <3>1. AskedOnce' /\ \A k \in Sockets : AskedIn(toExt'[k]) \subseteq AskedIn(toExt[k]) BY <2>3, AskedOnceKept
    <3>2. ~AsksFor(m.relay)'
      <4>1. SUFFICES ASSUME NEW k \in Sockets, NEW x \in AskedIn(toExt'[k]), x.relay = m.relay PROVE FALSE
        BY DEF AsksFor
      <4>2. AskAt(toExt[n], 1) /\ toExt[n][1].relay = m.relay BY <2>5, <2>6 DEF AskAt
      <4>3. PICK i \in DOMAIN toExt'[k] : toExt'[k][i] = x /\ x.type = "request" BY <4>1 DEF AskedIn
      <4>4. CASE k = n
        <5>1. toExt'[k] = Tail(toExt[n]) BY <1>1, <2>1, <2>2, <4>4
        <5>2. i \in Nat /\ i >= 1 /\ AskAt(toExt[n], i + 1) /\ toExt[n][i + 1].relay = m.relay
          BY <2>5, <4>1, <4>3, <5>1 DEF AskAt
        <5>3. i + 1 \in Nat /\ 1 \in Nat BY <5>2
        <5>4. i + 1 = 1 BY <4>2, <5>2, <5>3, <2>1 DEF AskedOnce
        <5> QED BY <5>2, <5>4
      <4>5. CASE k # n
        <5>1. toExt'[k] = toExt[k] BY <1>1, <2>1, <2>2, <4>5
        <5>2. toExt[k] \in Seq(ToExtension) BY <1>1
        <5>3. i \in Nat /\ AskAt(toExt[k], i) /\ toExt[k][i].relay = m.relay BY <4>1, <4>3, <5>1, <5>2 DEF AskAt
        <5> QED BY <2>1, <4>2, <4>5, <5>3 DEF AskedOnce
      <4> QED BY <4>4, <4>5
    <3>3. AskedFit(m, n) BY <2>1, <2>5, <2>6 DEF RelaysFit
    <3>4. CASE UNCHANGED toServer /\ running' = [running EXCEPT ![w] = @ \cup
          {[relay |-> m.relay, request |-> m.request, conn |-> n, aborted |-> FALSE, abortable |-> TRUE, begun |-> FALSE]}]
      <4> DEFINE c == [relay |-> m.relay, request |-> m.request, conn |-> n, aborted |-> FALSE, abortable |-> TRUE, begun |-> FALSE]
      <4>1. c.relay = m.relay /\ c.request = m.request /\ c.conn = n OBVIOUS
      <4> HIDE DEF c
      <4>2. \A v \in Windows : \A r \in running'[v] : r \in running[v] \/ (v = w /\ r = c) BY <1>1, <3>4 DEF c
      <4>3. RunOnce'
        <5> SUFFICES ASSUME NEW u \in Windows, NEW v \in Windows, NEW r \in running'[u], NEW s \in running'[v], r.relay = s.relay
                     PROVE  u = v /\ r = s
          BY DEF RunOnce
        <5>1. \A t \in Windows : \A x \in running[t] : x.relay # m.relay BY <3>3 DEF AskedFit
        <5> QED BY <4>1, <4>2, <5>1 DEF RunOnce
      <4>4. \A v \in Windows : \A r \in running'[v] :
           \/ \E s \in running[v] : s.relay = r.relay /\ s.request = r.request /\ s.conn = r.conn
           \/ /\ \E j \in Sockets : \E x \in AskedIn(toExt[j]) : x.relay = r.relay /\ x.request = r.request /\ r.conn = j
              /\ ~AsksFor(r.relay)'
        BY <2>1, <2>5, <2>6, <3>2, <4>1, <4>2
      <4>5. \A k \in Sockets : \A a \in AnsweredIn(toServer'[k]) : \E j \in Sockets : a \in AnsweredIn(toServer[j])
        BY <3>4
      <4>6. RelaysFit' BY <2>4, <3>1, <4>4, <4>5, RelaysKept
      <4> QED BY <3>1, <4>3, <4>6
    <3>5. CASE Sent(w, <<Response(m, FALSE)>>) /\ UNCHANGED running
      <4> DEFINE a == Response(m, FALSE)
      <4>1. a \in FromExtension /\ a.type = "response" /\ a.relay = m.relay /\ a.request = m.request
        BY <3>0 DEF Response, FromExtension
      <4> HIDE DEF a
      <4>2. <<a>> \in Seq(FromExtension) /\ AnsweredIn(<<a>>) = {a}
        <5>1. <<>> \in Seq(FromExtension) OBVIOUS
        <5> QED BY <4>1, <5>1, MessagePut
      <4>3. \A k \in Sockets : \A x \in AnsweredIn(toServer'[k]) : x \in AnsweredIn(toServer[k]) \/ x = a
        BY <3>5, <4>2, AnswersSent DEF a
      <4>4. ~RunsFor(m.relay)' BY <3>3, <3>5 DEF RunsFor, AskedFit
      <4>5. \A k \in Sockets : \A x \in AnsweredIn(toServer'[k]) :
           \/ \E j \in Sockets : x \in AnsweredIn(toServer[j])
           \/ /\ \E j \in Sockets : \E y \in AskedIn(toExt[j]) : y.relay = x.relay /\ y.request = x.request
              /\ ~AsksFor(x.relay)' /\ ~RunsFor(x.relay)'
        BY <2>1, <2>5, <2>6, <3>2, <4>1, <4>3, <4>4
      <4>6. \A v \in Windows : \A r \in running'[v] : \E s \in running[v] : s.relay = r.relay /\ s.request = r.request /\ s.conn = r.conn
        BY <3>5
      <4>7. RelaysFit' BY <2>4, <3>1, <4>5, <4>6, RelaysKept
      <4>8. RunOnce' BY <3>5 DEF RunOnce
      <4> QED BY <3>1, <4>7, <4>8
    <3> QED BY <2>6, <3>4, <3>5 DEF Runs
  <2>7. CASE m.type = "abort" /\ Aborts(w, m) /\ UNCHANGED toServer
    <3> DEFINE f == [s \in running[w] |-> IF s.relay = m.relay /\ s.abortable THEN [s EXCEPT !.aborted = TRUE] ELSE s]
    <3>1. running' = [running EXCEPT ![w] =
            {IF s.relay = m.relay /\ s.abortable THEN [s EXCEPT !.aborted = TRUE] ELSE s : s \in running[w]}]
      BY <2>7 DEF Aborts
    <3>2. \A s \in running[w] : f[s].relay = s.relay /\ f[s].request = s.request /\ f[s].conn = s.conn
      <4>1. \A s \in Commands : /\ [s EXCEPT !.aborted = TRUE].relay = s.relay /\ [s EXCEPT !.aborted = TRUE].request = s.request
                                /\ [s EXCEPT !.aborted = TRUE].conn = s.conn
        BY DEF Commands
      <4>2. \A s \in running[w] : f[s] = s \/ f[s] = [s EXCEPT !.aborted = TRUE] OBVIOUS
      <4> QED BY <1>c, <4>1, <4>2
    <3>3. \A r \in running'[w] : \E s \in running[w] : r = f[s] BY <1>1, <3>1
    <3>4. \A v \in Windows : v # w => running'[v] = running[v] BY <1>1, <3>1
    <3> HIDE DEF f
    <3>5. /\ RunOnce'
          /\ \A v \in Windows : \A r \in running'[v] : \E s \in running[v] :
                s.relay = r.relay /\ s.request = r.request /\ s.conn = r.conn
      BY <3>2, <3>3, <3>4, RunsChanged
    <3>6. \A k \in Sockets : AnsweredIn(toServer'[k]) \subseteq AnsweredIn(toServer[k]) BY <2>7
    <3> QED BY <2>3, <2>4, <3>5, <3>6, RelaysUnmoved
  <2>8. CASE m.type = "stop" /\ Sent(w, Finals(w)) /\ UNCHANGED running
    <3>1. \A k \in Sockets : AnsweredIn(toServer'[k]) \subseteq AnsweredIn(toServer[k])
      BY <2>8, FinalsAre, AnswersSent
    <3>2. RunOnce' BY <2>8 DEF RunOnce
    <3>3. \A v \in Windows : \A r \in running'[v] : \E s \in running[v] : s.relay = r.relay /\ s.request = r.request /\ s.conn = r.conn
      BY <2>8
    <3> QED BY <2>3, <2>4, <3>1, <3>2, <3>3, RelaysUnmoved
  <2> QED BY <2>2, <2>6, <2>7, <2>8
<1>8. ASSUME NEW w \in Windows, RecordingBegins(w) PROVE RelaysFit' /\ AskedOnce' /\ RunOnce'
  <2>1. PICK r \in running[w] : running' = [running EXCEPT ![w] = (@ \ {r}) \cup {[r EXCEPT !.begun = TRUE]}]
    BY <1>8 DEF RecordingBegins
  <2>2. UNCHANGED <<toServer, toExt, nextRelay, pending>> BY <1>8 DEF RecordingBegins
  <2> DEFINE f == [s \in running[w] |-> IF s = r THEN [r EXCEPT !.begun = TRUE] ELSE s]
  <2>3. \A s \in running[w] : f[s].relay = s.relay /\ f[s].request = s.request /\ f[s].conn = s.conn
    <3>1. r \in Commands BY <1>c
    <3>2. /\ [r EXCEPT !.begun = TRUE].relay = r.relay /\ [r EXCEPT !.begun = TRUE].request = r.request
          /\ [r EXCEPT !.begun = TRUE].conn = r.conn
      BY <3>1 DEF Commands
    <3> QED BY <3>2
  <2>4. \A s \in running'[w] : \E t \in running[w] : s = f[t] BY <1>1, <2>1
  <2>5. \A v \in Windows : v # w => running'[v] = running[v] BY <1>1, <2>1
  <2> HIDE DEF f
  <2>6. /\ RunOnce'
        /\ \A v \in Windows : \A x \in running'[v] : \E s \in running[v] :
              s.relay = x.relay /\ s.request = x.request /\ s.conn = x.conn
    BY <2>3, <2>4, <2>5, RunsChanged
  <2>7. \A n \in Sockets : KeepsAsks(toExt[n], toExt'[n]) BY <1>b, <2>2
  <2>8. \A k \in Sockets : AnsweredIn(toServer'[k]) \subseteq AnsweredIn(toServer[k]) BY <2>2
  <2>9. nextRelay <= nextRelay' /\ pending' \subseteq pending BY <1>d, <2>2
  <2> QED BY <2>6, <2>7, <2>8, <2>9, RelaysUnmoved
<1>9. ASSUME NEW w \in Windows, RecordingEnds(w) PROVE RelaysFit' /\ AskedOnce' /\ RunOnce'
  <2>1. UNCHANGED <<toExt, pending, running, nextRelay>> /\ Sent(w, Finals(w)) BY <1>9 DEF RecordingEnds
  <2>2. \A k \in Sockets : AnsweredIn(toServer'[k]) \subseteq AnsweredIn(toServer[k]) BY <2>1, FinalsAre, AnswersSent
  <2> QED BY <1>e, <2>1, <2>2
<1>s. ASSUME NEW w \in Windows, SessionChanges(w) PROVE RelaysFit' /\ AskedOnce' /\ RunOnce'
  <2>1. PICK messages \in Seq(FromExtension) : Sent(w, messages) /\ AnsweredIn(messages) = {}
    BY <1>s, ChangesAre
  <2>2. UNCHANGED <<toExt, pending, running, nextRelay>> BY <1>s DEF SessionChanges
  <2>3. \A k \in Sockets : AnsweredIn(toServer'[k]) \subseteq AnsweredIn(toServer[k]) BY <2>1, AnswersSent
  <2> QED BY <1>e, <2>2, <2>3
<1>10. ASSUME NEW w \in Windows, CommandEnds(w) PROVE RelaysFit' /\ AskedOnce' /\ RunOnce'
  <2>1. PICK r \in running[w] :
         /\ running' = [running EXCEPT ![w] = @ \ {r}]
         /\ Sent(w, <<Response(r, IF Kind[r.request] = "record" THEN r.begun ELSE ~r.aborted)>>)
    BY <1>10 DEF CommandEnds
  <2> DEFINE ok == IF Kind[r.request] = "record" THEN r.begun ELSE ~r.aborted
             a == Response(r, ok)
  <2>2. UNCHANGED <<toExt, nextRelay, pending>> BY <1>10 DEF CommandEnds
  <2>3. r \in Commands /\ r.request \in Requests /\ r.relay \in Nat BY <1>c
  <2>4. ok \in BOOLEAN BY <2>3 DEF Commands
  <2> HIDE DEF ok
  <2>5. a \in FromExtension /\ a.type = "response" /\ a.relay = r.relay /\ a.request = r.request
    BY <2>3, <2>4 DEF Response, FromExtension
  <2> HIDE DEF a
  <2>6. <<a>> \in Seq(FromExtension) /\ AnsweredIn(<<a>>) = {a}
    <3>1. <<>> \in Seq(FromExtension) OBVIOUS
    <3> QED BY <2>5, <3>1, MessagePut
  <2>7. \A k \in Sockets : \A x \in AnsweredIn(toServer'[k]) : x \in AnsweredIn(toServer[k]) \/ x = a
    BY <2>1, <2>6, AnswersSent DEF a, ok
  <2>8. running'[w] = running[w] \ {r} /\ \A v \in Windows : v # w => running'[v] = running[v] BY <1>1, <2>1
  <2>9. RunOnce' BY <2>8 DEF RunOnce
  <2>10. ~RunsFor(r.relay)'
    <3>1. SUFFICES ASSUME NEW v \in Windows, NEW s \in running'[v], s.relay = r.relay PROVE FALSE
      BY DEF RunsFor
    <3>2. s \in running[v] /\ (v = w => s # r) BY <2>8, <3>1
    <3> QED BY <3>1, <3>2 DEF RunOnce
  <2>11. \A k \in Sockets : \A x \in AnsweredIn(toServer'[k]) :
           \/ \E j \in Sockets : x \in AnsweredIn(toServer[j])
           \/ /\ \E v \in Windows : \E s \in running[v] : s.relay = x.relay /\ s.request = x.request
              /\ ~RunsFor(x.relay)'
    BY <2>5, <2>7, <2>10
  <2>12. \A v \in Windows : \A x \in running'[v] : \E s \in running[v] : s.relay = x.relay /\ s.request = x.request /\ s.conn = x.conn
    BY <2>8
  <2>13. nextRelay <= nextRelay' /\ pending' \subseteq pending /\ \A n \in Sockets : AskedIn(toExt'[n]) \subseteq AskedIn(toExt[n])
    BY <1>d, <2>2
  <2>14. RelaysFit' BY <2>11, <2>12, <2>13, RelaysKept
  <2>15. AskedOnce' BY <2>2 DEF AskedOnce
  <2> QED BY <2>9, <2>14, <2>15
<1>11. ASSUME NEW q \in Requests, CliRequest(q) PROVE RelaysFit' /\ AskedOnce' /\ RunOnce'
  <2> DEFINE w == Resolve(Wants[q])
  <2>0. w \in Windows \cup {None} BY <1>1, BridgeAssumption DEF BridgeTypeOK, Resolve
  <2>1. UNCHANGED <<toServer, running>> BY <1>11 DEF CliRequest
  <2>2. CASE Refuse(q) BY <1>e, <2>1, <2>2 DEF Refuse
  <2>3. CASE w \in Windows /\ IsOpen(handle[w]) /\ Forward(q, w)
    <3>1. handle[w] \in Sockets BY <1>1, <2>3 DEF IsOpen
    <3> QED BY <2>1, <2>3, <3>1, RelayForwarded
  <2> HIDE DEF w
  <2> QED BY <1>11, <2>0, <2>2, <2>3 DEF CliRequest, w
<1>12. ASSUME NEW c \in Clis, CliDisconnects(c) PROVE RelaysFit' /\ AskedOnce' /\ RunOnce'
  <2>1. UNCHANGED <<toServer, running>> /\ pending' \subseteq pending BY <1>12 DEF CliDisconnects
  <2>2. nextRelay <= nextRelay'
    <3> DEFINE s == {l \in leases : l.cli = c /\ IsOpen(handle[l.window])}
    <3>1. IsFiniteSet(leases) /\ s \in SUBSET leases BY DEF BridgeTypeOK
    <3>2. Cardinality(s) \in Nat BY <3>1, FS_Subset, FS_CardinalityType
    <3>3. nextRelay' = nextRelay + Cardinality(s) BY <1>12 DEF CliDisconnects
    <3> QED BY <1>1, <3>2, <3>3
  <2>3. \A n \in Sockets : KeepsAsks(toExt[n], toExt'[n])
    <3> SUFFICES ASSUME NEW n \in Sockets PROVE KeepsAsks(toExt[n], toExt'[n])
      OBVIOUS
    <3>1. toExt'[n] = toExt[n] \/ toExt'[n] = (toExt[n] \o StopsTo(c, n)) \o AbortsTo(c, n) BY <1>12 DEF CliDisconnects
    <3>2. toExt[n] \in Seq(ToExtension) BY <1>1
    <3>3. StopsTo(c, n) \in Seq(ToExtension) /\ \A i \in DOMAIN StopsTo(c, n) : StopsTo(c, n)[i].type # "request"
      BY StopsAre
    <3>4. AbortsTo(c, n) \in Seq(ToExtension) /\ \A i \in DOMAIN AbortsTo(c, n) : AbortsTo(c, n)[i].type # "request"
      BY AbortsAre
    <3>5. KeepsAsks(toExt[n], toExt[n] \o StopsTo(c, n)) BY <3>2, <3>3, AsksKept
    <3>6. toExt[n] \o StopsTo(c, n) \in Seq(ToExtension) BY <3>2, <3>3
    <3> DEFINE t == toExt[n] \o StopsTo(c, n)
    <3> HIDE DEF t
    <3>7. t \in Seq(ToExtension) BY <3>6 DEF t
    <3>8. KeepsAsks(t, t \o AbortsTo(c, n)) BY <3>4, <3>7, AsksKept
    <3>9. KeepsAsks(toExt[n], t) BY <3>5 DEF t
    <3>10. KeepsAsks(toExt[n], t \o AbortsTo(c, n)) BY <3>8, <3>9, AsksKeptTwice
    <3> QED BY <1>b, <3>1, <3>10 DEF t
  <2>4. RunOnce' BY <2>1 DEF RunOnce
  <2>5. \A v \in Windows : \A x \in running'[v] : \E s \in running[v] : s.relay = x.relay /\ s.request = x.request /\ s.conn = x.conn
    BY <2>1
  <2>6. \A k \in Sockets : AnsweredIn(toServer'[k]) \subseteq AnsweredIn(toServer[k]) BY <2>1
  <2> QED BY <2>1, <2>2, <2>3, <2>4, <2>5, <2>6, RelaysUnmoved
<1>13. CASE ServerRestarts
  <2>1. serverLives' = serverLives + 1 /\ serverLives \in Nat BY <1>13 DEF ServerRestarts, BridgeTypeOK
  <2> QED BY <2>1
<1>14. CASE UNCHANGED bridgeVars BY <1>e, <1>14 DEF bridgeVars
<1> QED
  BY <1>2, <1>3, <1>4, <1>5, <1>6, <1>7, <1>8, <1>9, <1>s, <1>10, <1>11, <1>12, <1>13, <1>14 DEF BridgeNext, BridgeProgress

-----------------------------------------------------------------------------
(* Writes *)

\* What is a write is one as long as no change of session takes a lock (releaseForSessionChange).
LEMMA WritesSame ==
  ASSUME UNCHANGED outlived
  PROVE  \A q : Writes(q)' <=> Writes(q)
BY DEF Writes

\* What nobody is asked for, or a queue whose first message is taken, leaves what is owed.
LEMMA WritesUntouched ==
  ASSUME BridgeTypeOK, BridgeTypeOK', WritesFit, WritersHoldLocks', UNCHANGED outlived,
         \A n \in Sockets : toExt'[n] = toExt[n] \/ toExt'[n] = <<>>,
         \A n \in Sockets : Stands(n)' => \/ Stands(n) /\ toExt'[n] = toExt[n]
                                          \/ toExt'[n] = <<>> /\ \A w \in Windows : \A r \in running'[w] : r.conn # n,
         \A w \in Windows : \A r \in running'[w] : \E s \in running[w] :
           s.relay = r.relay /\ s.request = r.request /\ s.conn = r.conn /\ s.aborted = r.aborted,
         \A n \in Sockets : Stands(n)' /\ Stands(n) =>
           /\ \A w \in Windows : \A r \in running[w] : Acts(r, n) /\ Waits(r.relay) => \E p \in pending' : p.relay = r.relay
           /\ \A j \in Nat : WriteAt(n, j) /\ Waits(toExt[n][j].relay) => \E p \in pending' : p.relay = toExt[n][j].relay
  PROVE  WritesFit'
<1>p. \A x : Writes(x)' <=> Writes(x) BY WritesSame
<1> USE <1>p
<1>1. \A w \in Windows : \A r \in running'[w] : \E s \in running[w] :
        s.relay = r.relay /\ s.request = r.request /\ s.conn = r.conn /\ \A n : Acts(r, n) <=> Acts(s, n)
  BY DEF Acts
<1>2. \A n \in Sockets : \A j \in Nat : WriteAt(n, j)' => WriteAt(n, j) /\ toExt'[n] = toExt[n]
  <2>1. \A j \in Nat : ~AskAt(<<>>, j) BY DEF AskAt
  <2> QED BY <2>1 DEF WriteAt
<1>3. AbortsOwed'
  <2> SUFFICES ASSUME NEW n \in Sockets, Stands(n)'
               PROVE  /\ \A w \in Windows : \A r \in running'[w] : Acts(r, n) =>
                           (\E p \in pending' : p.relay = r.relay) \/ AbortBetween(toExt'[n], 0, Len(toExt'[n]) + 1, r.relay)
                      /\ \A j \in Nat : WriteAt(n, j)' =>
                           \/ \E p \in pending' : p.relay = toExt'[n][j].relay
                           \/ AbortBetween(toExt'[n], j, Len(toExt'[n]) + 1, toExt'[n][j].relay)
    BY DEF AbortsOwed, Waits, Acts
  <2>1. CASE Stands(n) /\ toExt'[n] = toExt[n]
    <3>1. ASSUME NEW w \in Windows, NEW r \in running'[w], Acts(r, n)
          PROVE  (\E p \in pending' : p.relay = r.relay) \/ AbortBetween(toExt'[n], 0, Len(toExt'[n]) + 1, r.relay)
      <4>1. PICK s \in running[w] : s.relay = r.relay /\ Acts(s, n) BY <1>1, <3>1
      <4>2. Waits(s.relay) \/ AbortBetween(toExt[n], 0, Len(toExt[n]) + 1, s.relay)
        BY <2>1, <4>1 DEF WritesFit, AbortsOwed
      <4>3. Waits(s.relay) => \E p \in pending' : p.relay = s.relay BY <2>1, <4>1
      <4> QED BY <2>1, <4>1, <4>2, <4>3
    <3>2. ASSUME NEW j \in Nat, WriteAt(n, j)'
          PROVE  \/ \E p \in pending' : p.relay = toExt'[n][j].relay
                 \/ AbortBetween(toExt'[n], j, Len(toExt'[n]) + 1, toExt'[n][j].relay)
      <4>1. WriteAt(n, j) BY <1>2, <3>2
      <4>2. Waits(toExt[n][j].relay) \/ AbortBetween(toExt[n], j, Len(toExt[n]) + 1, toExt[n][j].relay)
        BY <2>1, <4>1 DEF WritesFit, AbortsOwed
      <4>3. Waits(toExt[n][j].relay) => \E p \in pending' : p.relay = toExt[n][j].relay BY <2>1, <4>1
      <4> QED BY <2>1, <4>2, <4>3
    <3> QED BY <3>1, <3>2
  <2>2. CASE toExt'[n] = <<>> /\ \A w \in Windows : \A r \in running'[w] : r.conn # n
    <3>1. \A j \in Nat : ~WriteAt(n, j)' BY <2>2 DEF WriteAt, AskAt
    <3>2. \A w \in Windows : \A r \in running'[w] : ~Acts(r, n) BY <2>2 DEF Acts
    <3> QED BY <3>1, <3>2
  <2> QED BY <2>1, <2>2
<1>4. WritersApart'
  <2> SUFFICES ASSUME NEW n \in Sockets, NEW j \in Nat, WriteAt(n, j)'
               PROVE  /\ \A w \in Windows : \A r \in running'[w] :
                           Acts(r, n) /\ Issuer[r.request] # Issuer[toExt'[n][j].request] => AbortBetween(toExt'[n], 0, j, r.relay)
                      /\ \A k \in Nat : WriteAt(n, k)' /\ k < j /\ Issuer[toExt'[n][k].request] # Issuer[toExt'[n][j].request] =>
                           AbortBetween(toExt'[n], k, j, toExt'[n][k].relay)
    BY DEF WritersApart, Acts
  <2>1. WriteAt(n, j) /\ toExt'[n] = toExt[n] BY <1>2
  <2>2. /\ \A w \in Windows : \A r \in running[w] :
             Acts(r, n) /\ Issuer[r.request] # Issuer[toExt[n][j].request] => AbortBetween(toExt[n], 0, j, r.relay)
        /\ \A k \in Nat : WriteAt(n, k) /\ k < j /\ Issuer[toExt[n][k].request] # Issuer[toExt[n][j].request] =>
             AbortBetween(toExt[n], k, j, toExt[n][k].relay)
    BY <2>1 DEF WritesFit, WritersApart
  <2>3. ASSUME NEW w \in Windows, NEW r \in running'[w], Acts(r, n), Issuer[r.request] # Issuer[toExt'[n][j].request]
        PROVE  AbortBetween(toExt'[n], 0, j, r.relay)
    <3>1. PICK s \in running[w] : s.relay = r.relay /\ s.request = r.request /\ Acts(s, n) BY <1>1, <2>3
    <3> QED BY <2>1, <2>2, <2>3, <3>1
  <2> QED BY <1>2, <2>1, <2>2, <2>3
<1>5. OneWriterActs'
  <2> SUFFICES ASSUME NEW w \in Windows, NEW r \in running'[w], NEW x \in running'[w],
                      Acts(r, r.conn), Acts(x, x.conn), r.conn = x.conn
               PROVE  Issuer[r.request] = Issuer[x.request]
    BY DEF OneWriterActs, Acts
  <2>1. PICK s \in running[w] : s.request = r.request /\ s.conn = r.conn /\ Acts(s, s.conn) BY <1>1
  <2>2. PICK t \in running[w] : t.request = x.request /\ t.conn = x.conn /\ Acts(t, t.conn) BY <1>1
  <2> QED BY <2>1, <2>2 DEF WritesFit, OneWriterActs, Acts
<1> QED BY <1>3, <1>4, <1>5 DEF WritesFit

\* Whoever acts after a window took a message acted before, and was not aborted by it, or
\* it is the command that the message asks for.
ActsStay(n, m) ==
  \A w \in Windows : \A r \in running'[w] : \A k : Acts(r, k) =>
    \/ /\ \E s \in running[w] : s.relay = r.relay /\ s.request = r.request /\ s.conn = r.conn /\ Acts(s, k)
       /\ k = n /\ m.type = "abort" => m.relay # r.relay
    \/ m.type = "request" /\ r.relay = m.relay /\ r.request = m.request /\ k = n

\* A window takes the first message of its connection (handleMessage): writes stay apart.
LEMMA WritesTaken ==
  ASSUME BridgeTypeOK, BridgeTypeOK', WritesFit, NEW n \in Sockets, toExt[n] # <<>>, NEW m \in ToExtension, m = Head(toExt[n]),
         toExt' = [toExt EXCEPT ![n] = Tail(@)], UNCHANGED <<sock, handle, lock, outlived, pending>>,
         ActsStay(n, m)
  PROVE  WritesFit'
<1> USE DEF ActsStay
<1>p. \A x : Writes(x)' <=> Writes(x) BY WritesSame
<1> USE <1>p
<1> DEFINE q == toExt[n]
           t == Tail(q)
<1>1. q \in Seq(ToExtension) BY DEF BridgeTypeOK
<1>2. toExt'[n] = t /\ \A k \in Sockets : k # n => toExt'[k] = toExt[k] BY DEF BridgeTypeOK
<1>3. /\ t \in Seq(ToExtension) /\ Len(q) \in Nat /\ Len(t) \in Nat /\ Len(t) + 1 = Len(q) /\ q[1] = m /\ 1 \in DOMAIN q
      /\ \A i \in DOMAIN t : t[i] = q[i + 1] /\ i + 1 \in DOMAIN q /\ i \in Nat /\ i >= 1
  <2>1. /\ t \in Seq(ToExtension) /\ Len(q) \in Nat /\ Len(t) = Len(q) - 1
        /\ \A i \in DOMAIN t : t[i] = q[i + 1] /\ i + 1 \in DOMAIN q /\ i \in Nat /\ i >= 1
    BY <1>1, QueueTaken
  <2>2. q[1] = m /\ 1 \in DOMAIN q /\ Len(q) >= 1 BY <1>1
  <2> QED BY <2>1, <2>2
<1>4. \A j \in Nat : WriteAt(n, j)' => WriteAt(n, j + 1) /\ toExt'[n][j] = q[j + 1] /\ j >= 1
  BY <1>2, <1>3 DEF WriteAt, AskAt
<1>5. \A k \in Nat, j \in Nat, relay \in Nat : AbortBetween(q, k, j, relay) =>
        \/ m.type = "abort" /\ m.relay = relay /\ k = 0
        \/ k = 0 /\ AbortBetween(t, 0, j - 1, relay)
        \/ k # 0 /\ AbortBetween(t, k - 1, j - 1, relay)
  BY <1>1, AbortTaken
<1>6. \A w \in Windows : \A r \in running[w] \cup running'[w] : r.relay \in Nat BY DEF BridgeTypeOK, Commands
<1>7. \A j \in Nat : WriteAt(n, j) => q[j].relay \in Nat
  <2> SUFFICES ASSUME NEW j \in Nat, WriteAt(n, j) PROVE q[j].relay \in Nat
    OBVIOUS
  <2>1. q[j] \in ToExtension /\ q[j].type = "request" BY <1>1 DEF WriteAt, AskAt
  <2> QED BY <2>1 DEF ToExtension
<1>8. m.type = "request" /\ Writes(m.request) => WriteAt(n, 1) BY <1>3 DEF WriteAt, AskAt
<1> HIDE DEF q, t
<1>w. WritersHoldLocks /\ AbortsOwed /\ WritersApart /\ OneWriterActs BY DEF WritesFit
<1>9. \A k \in Sockets : \A w \in Windows : \A r \in running'[w] : k # n /\ Acts(r, k) =>
        \E s \in running[w] : s.relay = r.relay /\ s.request = r.request /\ Acts(s, k)
  OBVIOUS
<1>10. WritersHoldLocks' BY <1>w DEF WritersHoldLocks
<1>11. AbortsOwed'
  <2> SUFFICES ASSUME NEW k \in Sockets, Stands(k)
               PROVE  /\ \A w \in Windows : \A r \in running'[w] : Acts(r, k) =>
                           Waits(r.relay) \/ AbortBetween(toExt'[k], 0, Len(toExt'[k]) + 1, r.relay)
                      /\ \A j \in Nat : WriteAt(k, j)' =>
                           Waits(toExt'[k][j].relay) \/ AbortBetween(toExt'[k], j, Len(toExt'[k]) + 1, toExt'[k][j].relay)
    BY DEF AbortsOwed, Waits, Acts, Stands
  <2>1. /\ \A w \in Windows : \A r \in running[w] : Acts(r, k) => Waits(r.relay) \/ AbortBetween(toExt[k], 0, Len(toExt[k]) + 1, r.relay)
        /\ \A j \in Nat : WriteAt(k, j) =>
             Waits(toExt[k][j].relay) \/ AbortBetween(toExt[k], j, Len(toExt[k]) + 1, toExt[k][j].relay)
    BY <1>w DEF AbortsOwed
  <2>2. CASE k # n
    <3>1. toExt'[k] = toExt[k] BY <1>2, <2>2
    <3>2. \A j \in Nat : WriteAt(k, j)' <=> WriteAt(k, j) BY <3>1 DEF WriteAt
    <3> QED BY <1>9, <2>1, <2>2, <3>1, <3>2
  <2>3. CASE k = n
    <3>0. \A j \in Nat : WriteAt(n, j) => Waits(q[j].relay) \/ AbortBetween(q, j, Len(q) + 1, q[j].relay)
      BY <2>1, <2>3 DEF q
    <3>1. ASSUME NEW w \in Windows, NEW r \in running'[w], Acts(r, n)
          PROVE  Waits(r.relay) \/ AbortBetween(t, 0, Len(t) + 1, r.relay)
      <4>1. CASE \E s \in running[w] : s.relay = r.relay /\ Acts(s, n) /\ (m.type = "abort" => m.relay # r.relay)
        <5>1. PICK s \in running[w] : s.relay = r.relay /\ Acts(s, n) /\ (m.type = "abort" => m.relay # r.relay) BY <4>1
        <5>2. Waits(r.relay) \/ AbortBetween(q, 0, Len(q) + 1, r.relay) BY <2>1, <2>3, <5>1 DEF q
        <5>3. 0 \in Nat /\ Len(q) + 1 \in Nat /\ r.relay \in Nat /\ Len(q) + 1 - 1 = Len(t) + 1 BY <1>3, <1>6
        <5>4. AbortBetween(q, 0, Len(q) + 1, r.relay) => AbortBetween(t, 0, Len(t) + 1, r.relay)
          BY <1>5, <5>1, <5>3
        <5> QED BY <5>2, <5>4
      <4>2. CASE m.type = "request" /\ r.relay = m.relay /\ r.request = m.request
        <5>1. WriteAt(n, 1) BY <1>8, <3>1, <4>2 DEF Acts
        <5>2. Waits(r.relay) \/ AbortBetween(q, 1, Len(q) + 1, r.relay)
          <6>1. Waits(q[1].relay) \/ AbortBetween(q, 1, Len(q) + 1, q[1].relay) BY <3>0, <5>1
          <6> QED BY <1>3, <4>2, <6>1
        <5>3. 1 \in Nat /\ Len(q) + 1 \in Nat /\ r.relay \in Nat /\ Len(q) + 1 - 1 = Len(t) + 1 /\ 1 - 1 = 0 BY <1>3, <1>6
        <5>4. AbortBetween(q, 1, Len(q) + 1, r.relay) => AbortBetween(t, 0, Len(t) + 1, r.relay)
          BY <1>5, <4>2, <5>3
        <5> QED BY <5>2, <5>4
      <4> QED BY <3>1, <4>1, <4>2
    <3>2. ASSUME NEW j \in Nat, WriteAt(n, j)'
          PROVE  Waits(toExt'[n][j].relay) \/ AbortBetween(t, j, Len(t) + 1, toExt'[n][j].relay)
      <4>0. WriteAt(n, j + 1) /\ toExt'[n][j] = q[j + 1] BY <1>4, <3>2
      <4>a. j + 1 \in Nat OBVIOUS
      <4>1. WriteAt(n, j + 1) /\ toExt'[n][j] = q[j + 1] /\ j + 1 \in Nat BY <4>0, <4>a
      <4>2. Waits(q[j + 1].relay) \/ AbortBetween(q, j + 1, Len(q) + 1, q[j + 1].relay) BY <3>0, <4>1
      <4>3. Len(q) + 1 \in Nat /\ q[j + 1].relay \in Nat /\ Len(q) + 1 - 1 = Len(t) + 1 /\ j + 1 - 1 = j /\ j + 1 # 0
        BY <1>3, <1>7, <4>1
      <4>4. AbortBetween(q, j + 1, Len(q) + 1, q[j + 1].relay) => AbortBetween(t, j, Len(t) + 1, q[j + 1].relay)
        BY <1>5, <4>1, <4>3
      <4> QED BY <4>1, <4>2, <4>4
    <3> QED BY <1>2, <2>3, <3>1, <3>2
  <2> QED BY <2>2, <2>3
<1>12. WritersApart'
  <2> SUFFICES ASSUME NEW l \in Sockets, NEW j \in Nat, WriteAt(l, j)'
               PROVE  /\ \A w \in Windows : \A r \in running'[w] :
                           Acts(r, l) /\ Issuer[r.request] # Issuer[toExt'[l][j].request] => AbortBetween(toExt'[l], 0, j, r.relay)
                      /\ \A k \in Nat : WriteAt(l, k)' /\ k < j /\ Issuer[toExt'[l][k].request] # Issuer[toExt'[l][j].request] =>
                           AbortBetween(toExt'[l], k, j, toExt'[l][k].relay)
    BY DEF WritersApart, Acts
  <2>1. \A i \in Nat : WriteAt(l, i) =>
             /\ \A w \in Windows : \A r \in running[w] :
                  Acts(r, l) /\ Issuer[r.request] # Issuer[toExt[l][i].request] => AbortBetween(toExt[l], 0, i, r.relay)
             /\ \A k \in Nat : WriteAt(l, k) /\ k < i /\ Issuer[toExt[l][k].request] # Issuer[toExt[l][i].request] =>
                  AbortBetween(toExt[l], k, i, toExt[l][k].relay)
    BY <1>w DEF WritersApart
  <2>2. CASE l # n
    <3>1. toExt'[l] = toExt[l] BY <1>2, <2>2
    <3>2. \A i \in Nat : WriteAt(l, i)' <=> WriteAt(l, i) BY <3>1 DEF WriteAt
    <3>3. ASSUME NEW w \in Windows, NEW r \in running'[w], Acts(r, l), Issuer[r.request] # Issuer[toExt'[l][j].request]
          PROVE  AbortBetween(toExt'[l], 0, j, r.relay)
      <4>1. PICK s \in running[w] : s.relay = r.relay /\ s.request = r.request /\ Acts(s, l) BY <1>9, <2>2, <3>3
      <4> QED BY <2>1, <3>1, <3>2, <3>3, <4>1
    <3> QED BY <2>1, <3>1, <3>2, <3>3
  <2>3. CASE l = n
    <3>0. WriteAt(n, j + 1) /\ toExt'[n][j] = q[j + 1] /\ j >= 1
      <4>1. WriteAt(n, j)' BY <2>3
      <4> QED BY <1>4, <4>1
    <3>1. WriteAt(n, j + 1) /\ toExt'[n][j] = q[j + 1] /\ j + 1 \in Nat /\ j + 1 - 1 = j /\ j + 1 # 0 /\ j >= 1
      <4>1. j + 1 \in Nat /\ j + 1 - 1 = j /\ j + 1 # 0 OBVIOUS
      <4> QED BY <3>0, <4>1
    <3>a. /\ \A w \in Windows : \A r \in running[w] :
               Acts(r, n) /\ Issuer[r.request] # Issuer[q[j + 1].request] => AbortBetween(q, 0, j + 1, r.relay)
          /\ \A k \in Nat : WriteAt(n, k) /\ k < j + 1 /\ Issuer[q[k].request] # Issuer[q[j + 1].request] =>
               AbortBetween(q, k, j + 1, q[k].relay)
      BY <2>1, <2>3, <3>1 DEF q
    <3>2. ASSUME NEW w \in Windows, NEW r \in running'[w], Acts(r, n), Issuer[r.request] # Issuer[q[j + 1].request]
          PROVE  AbortBetween(t, 0, j, r.relay)
      <4>0. r.relay \in Nat BY <1>6
      <4>1. CASE \E s \in running[w] : s.relay = r.relay /\ s.request = r.request /\ Acts(s, n) /\ (m.type = "abort" => m.relay # r.relay)
        <5>1. PICK s \in running[w] : s.relay = r.relay /\ s.request = r.request /\ Acts(s, n) /\ (m.type = "abort" => m.relay # r.relay)
          BY <4>1
        <5>2. AbortBetween(q, 0, j + 1, r.relay) BY <3>2, <3>a, <5>1
        <5> QED BY <1>5, <3>1, <4>0, <5>1, <5>2
      <4>2. CASE m.type = "request" /\ r.relay = m.relay /\ r.request = m.request
        <5>1. WriteAt(n, 1) BY <1>8, <3>2, <4>2 DEF Acts
        <5>2. 1 < j + 1 /\ 1 \in Nat BY <3>1
        <5>3. AbortBetween(q, 1, j + 1, r.relay)
          <6>1. q[1].relay = r.relay /\ q[1].request = r.request BY <1>3, <4>2
          <6> QED BY <3>2, <3>a, <5>1, <5>2, <6>1
        <5>4. 1 - 1 = 0 /\ 1 # 0 OBVIOUS
        <5> QED BY <1>5, <3>1, <4>0, <4>2, <5>2, <5>3, <5>4
      <4> QED BY <3>2, <4>1, <4>2
    <3>3. ASSUME NEW k \in Nat, WriteAt(n, k)', k < j, Issuer[toExt'[n][k].request] # Issuer[q[j + 1].request]
          PROVE  AbortBetween(t, k, j, toExt'[n][k].relay)
      <4>0. WriteAt(n, k + 1) /\ toExt'[n][k] = q[k + 1] BY <1>4, <3>3
      <4>1. WriteAt(n, k + 1) /\ toExt'[n][k] = q[k + 1] /\ k + 1 \in Nat /\ k + 1 - 1 = k /\ k + 1 # 0 /\ k + 1 < j + 1
        <5>1. k + 1 \in Nat /\ k + 1 - 1 = k /\ k + 1 # 0 OBVIOUS
        <5>2. k + 1 < j + 1 BY <3>3
        <5> QED BY <4>0, <5>1, <5>2
      <4>2. AbortBetween(q, k + 1, j + 1, q[k + 1].relay) BY <3>3, <3>a, <4>1
      <4>3. q[k + 1].relay \in Nat BY <1>7, <4>1
      <4>4. AbortBetween(t, k, j, q[k + 1].relay)
        <5>1. k + 1 \in Nat /\ k + 1 - 1 = k /\ k + 1 # 0 /\ j + 1 \in Nat /\ j + 1 - 1 = j OBVIOUS
        <5> QED BY <1>5, <4>2, <4>3, <5>1
      <4> QED BY <4>1, <4>4
    <3> QED BY <1>2, <2>3, <3>1, <3>2, <3>3
  <2> QED BY <2>2, <2>3
<1>13. OneWriterActs'
  <2> SUFFICES ASSUME NEW w \in Windows, NEW r \in running'[w], NEW x \in running'[w],
                      Acts(r, r.conn), Acts(x, r.conn)
               PROVE  Issuer[r.request] = Issuer[x.request]
    BY DEF OneWriterActs, Acts
  <2>1. \A a, b \in running[w] : Acts(a, r.conn) /\ Acts(b, r.conn) => Issuer[a.request] = Issuer[b.request]
    BY <1>w DEF OneWriterActs, Acts
  <2>2. \A a \in running[w] : m.type = "request" /\ Acts(a, n) /\ Writes(m.request) => Issuer[a.request] = Issuer[m.request]
    <3> SUFFICES ASSUME NEW a \in running[w], m.type = "request", Acts(a, n), Writes(m.request), Issuer[a.request] # Issuer[m.request]
                 PROVE  FALSE
      OBVIOUS
    <3>1. WriteAt(n, 1) BY <1>8
    <3>2. AbortBetween(q, 0, 1, a.relay) BY <1>3, <1>w, <3>1 DEF WritersApart, q
    <3>3. \A i \in DOMAIN q : i \in Nat BY <1>1 DEF q
    <3> QED BY <3>2, <3>3 DEF AbortBetween
  <2>3. \/ \E s \in running[w] : s.request = r.request /\ Acts(s, r.conn)
        \/ m.type = "request" /\ r.request = m.request /\ r.conn = n
    OBVIOUS
  <2>4. \/ \E s \in running[w] : s.request = x.request /\ Acts(s, r.conn)
        \/ m.type = "request" /\ x.request = m.request /\ r.conn = n
    OBVIOUS
  <2>5. Writes(r.request) /\ Writes(x.request) BY DEF Acts
  <2> QED BY <2>1, <2>2, <2>3, <2>4, <2>5
<1> QED BY <1>10, <1>11, <1>12, <1>13 DEF WritesFit

\* A longer queue has the aborts of the shorter one, and they count to a later place.
LEMMA AbortsRemain ==
  ASSUME NEW M, NEW s \in Seq(M), NEW t \in Seq(M)
  PROVE  /\ \A k \in Nat, j \in Nat : \A relay : AbortBetween(s, k, j, relay) => AbortBetween(s \o t, k, j, relay)
         /\ \A k \in Nat : \A relay : AbortBetween(s, k, Len(s) + 1, relay) => AbortBetween(s \o t, k, Len(s \o t) + 1, relay)
<1>1. /\ s \o t \in Seq(M) /\ Len(s \o t) = Len(s) + Len(t) /\ Len(s) \in Nat /\ Len(t) \in Nat
      /\ \A k, j, relay : AbortBetween(s, k, j, relay) => AbortBetween(s \o t, k, j, relay)
  BY QueueGrows
<1> DEFINE u == s \o t
           a == Len(s) + 1
           b == Len(u) + 1
<1>2. u \in Seq(M) /\ a \in Nat /\ b \in Nat /\ a <= b BY <1>1
<1>3. \A k \in Nat : \A relay : AbortBetween(s, k, a, relay) => AbortBetween(u, k, a, relay) BY <1>1
<1> HIDE DEF u, a, b
<1>4. \A k \in Nat : \A relay : AbortBetween(u, k, a, relay) => AbortBetween(u, k, b, relay)
  BY <1>2, AbortSooner
<1> QED BY <1>1, <1>3, <1>4 DEF u, a, b

\* A write is forwarded behind the aborts of the writes of others: its CLI has the lock, so nobody
\* else waits for one on this connection (acquire).
LEMMA WritesForwarded ==
  ASSUME BridgeTypeOK, BridgeTypeOK', SocketsFit, RelaysFit, WritesFit, UNCHANGED <<sock, handle, running, outlived>>,
         NEW q \in Requests, NEW w \in Windows, IsOpen(handle[w]), Forward(q, w),
         \/ ~Writes(q) /\ UNCHANGED lock
         \/ lock[w] \in {None, Issuer[q]} /\ lock' = [lock EXCEPT ![w] = Issuer[q]]
  PROVE  WritesFit'
<1>p. \A x : Writes(x)' <=> Writes(x) BY WritesSame
<1> USE <1>p
<1> DEFINE n == handle[w]
           p0 == [relay |-> nextRelay, request |-> q, window |-> w, conn |-> n]
           m0 == [type |-> "request", relay |-> nextRelay, request |-> q]
           s == toExt[n]
<1>1. n \in Sockets /\ sock[n].side = "registered" /\ sock[n].window = w
  BY DEF BridgeTypeOK, IsOpen, SocketsFit, HandlesFit
<1>2. pending' = pending \cup {p0} /\ p0 \in pending' BY DEF Forward
<1>3. p0.relay = nextRelay /\ p0.request = q /\ p0.window = w /\ p0.conn = n /\ m0.relay = nextRelay /\ m0.request = q
      /\ m0.type = "request" /\ m0 \in ToExtension
  BY DEF ToExtension, BridgeTypeOK
<1>4. /\ \A k \in Sockets : k # n => toExt'[k] = toExt[k]
      /\ toExt'[n] = toExt[n] \/ (sock[n].open /\ toExt'[n] = Append(toExt[n], m0))
  BY <1>1 DEF BridgeTypeOK, Forward
<1>5. s \in Seq(ToExtension) /\ Len(s) \in Nat BY <1>1 DEF BridgeTypeOK
<1>6. Issuer[q] \in Clis /\ None \notin Clis BY BridgeAssumption DEF None
<1> HIDE DEF n, p0, m0
<1>7. Append(s, m0) = s \o <<m0>> /\ <<m0>> \in Seq(ToExtension)
  BY <1>3, <1>5, MessagePut
<1>8. \A i \in DOMAIN Append(s, m0) :
        (i \in DOMAIN s /\ Append(s, m0)[i] = s[i]) \/ (i = Len(s) + 1 /\ Append(s, m0)[i] = m0)
  BY <1>3, <1>5
<1> HIDE DEF s
<1>9. \A k \in Sockets : \A i \in Nat : WriteAt(k, i)' =>
        \/ WriteAt(k, i) /\ toExt'[k][i] = toExt[k][i]
        \/ /\ k = n /\ i = Len(s) + 1 /\ toExt'[k][i] = m0 /\ toExt'[n] = Append(s, m0) /\ sock[n].open /\ Writes(q)
  <2> SUFFICES ASSUME NEW k \in Sockets, NEW i \in Nat, WriteAt(k, i)'
               PROVE  \/ WriteAt(k, i) /\ toExt'[k][i] = toExt[k][i]
                      \/ /\ k = n /\ i = Len(s) + 1 /\ toExt'[k][i] = m0 /\ toExt'[n] = Append(s, m0) /\ sock[n].open /\ Writes(q)
    OBVIOUS
  <2>1. CASE toExt'[k] = toExt[k] BY <2>1 DEF WriteAt
  <2>2. CASE k = n /\ sock[n].open /\ toExt'[n] = Append(s, m0)
    BY <1>3, <1>8, <2>2 DEF WriteAt, AskAt, s
  <2> QED BY <1>4, <2>1, <2>2 DEF s
<1>10. \A k \in Sockets : \A a \in Nat : \A relay :
         /\ \A b \in Nat : AbortBetween(toExt[k], a, b, relay) => AbortBetween(toExt'[k], a, b, relay)
         /\ AbortBetween(toExt[k], a, Len(toExt[k]) + 1, relay) => AbortBetween(toExt'[k], a, Len(toExt'[k]) + 1, relay)
  <2> SUFFICES ASSUME NEW k \in Sockets
               PROVE  \A a \in Nat : \A relay :
         /\ \A b \in Nat : AbortBetween(toExt[k], a, b, relay) => AbortBetween(toExt'[k], a, b, relay)
         /\ AbortBetween(toExt[k], a, Len(toExt[k]) + 1, relay) => AbortBetween(toExt'[k], a, Len(toExt'[k]) + 1, relay)
    OBVIOUS
  <2>1. CASE toExt'[k] = toExt[k] BY <2>1
  <2>2. CASE k = n /\ toExt'[n] = s \o <<m0>>
    <3>1. /\ \A a \in Nat, b \in Nat : \A relay : AbortBetween(s, a, b, relay) => AbortBetween(s \o <<m0>>, a, b, relay)
          /\ \A a \in Nat : \A relay : AbortBetween(s, a, Len(s) + 1, relay) => AbortBetween(s \o <<m0>>, a, Len(s \o <<m0>>) + 1, relay)
      BY <1>5, <1>7, AbortsRemain
    <3> QED BY <2>2, <3>1 DEF s
  <2> QED BY <1>4, <1>7, <2>1, <2>2 DEF s
<1>w. WritersHoldLocks /\ AbortsOwed /\ WritersApart /\ OneWriterActs BY DEF WritesFit
<1>11. WritersHoldLocks'
  <2> SUFFICES ASSUME NEW p \in pending', Writes(p.request), p.conn = handle[p.window]
               PROVE  lock'[p.window] = Issuer[p.request]
    BY DEF WritersHoldLocks
  <2>0. p.window \in Windows BY DEF BridgeTypeOK, Waiters
  <2>1. CASE p = p0
    <3>1. lock' = [lock EXCEPT ![w] = Issuer[q]] BY <1>3, <2>1
    <3>2. lock \in [Windows -> Clis \cup {None}] BY DEF BridgeTypeOK
    <3> QED BY <1>3, <2>1, <3>1, <3>2
  <2>2. CASE p \in pending
    <3>1. lock[p.window] = Issuer[p.request] BY <1>w, <2>2 DEF WritersHoldLocks
    <3>2. Issuer[p.request] \in Clis BY BridgeAssumption DEF BridgeTypeOK, Waiters
    <3>3. CASE UNCHANGED lock BY <3>1, <3>3
    <3>4. CASE lock[w] \in {None, Issuer[q]} /\ lock' = [lock EXCEPT ![w] = Issuer[q]]
      <4>1. lock \in [Windows -> Clis \cup {None}] BY DEF BridgeTypeOK
      <4>2. CASE p.window = w BY <1>6, <3>1, <3>2, <3>4, <4>1, <4>2
      <4>3. CASE p.window # w BY <3>1, <3>4, <4>1, <4>3
      <4> QED BY <4>2, <4>3
    <3> QED BY <3>3, <3>4
  <2> QED BY <1>2, <2>1, <2>2
<1>12. \A k, relay : Waits(relay) => \E p \in pending' : p.relay = relay BY <1>2 DEF Waits
<1>13. AbortsOwed'
  <2> SUFFICES ASSUME NEW k \in Sockets, Stands(k)
               PROVE  /\ \A v \in Windows : \A r \in running[v] : Acts(r, k) =>
                           (\E p \in pending' : p.relay = r.relay) \/ AbortBetween(toExt'[k], 0, Len(toExt'[k]) + 1, r.relay)
                      /\ \A j \in Nat : WriteAt(k, j)' =>
                           \/ \E p \in pending' : p.relay = toExt'[k][j].relay
                           \/ AbortBetween(toExt'[k], j, Len(toExt'[k]) + 1, toExt'[k][j].relay)
    BY DEF AbortsOwed, Waits, Acts, Stands
  <2>1. /\ \A v \in Windows : \A r \in running[v] : Acts(r, k) => Waits(r.relay) \/ AbortBetween(toExt[k], 0, Len(toExt[k]) + 1, r.relay)
        /\ \A j \in Nat : WriteAt(k, j) =>
             Waits(toExt[k][j].relay) \/ AbortBetween(toExt[k], j, Len(toExt[k]) + 1, toExt[k][j].relay)
    BY <1>w DEF AbortsOwed
  <2>2. ASSUME NEW v \in Windows, NEW r \in running[v], Acts(r, k)
        PROVE  (\E p \in pending' : p.relay = r.relay) \/ AbortBetween(toExt'[k], 0, Len(toExt'[k]) + 1, r.relay)
    <3>1. 0 \in Nat OBVIOUS
    <3> QED BY <1>10, <1>12, <2>1, <2>2, <3>1
  <2>3. ASSUME NEW j \in Nat, WriteAt(k, j)'
        PROVE  \/ \E p \in pending' : p.relay = toExt'[k][j].relay
               \/ AbortBetween(toExt'[k], j, Len(toExt'[k]) + 1, toExt'[k][j].relay)
    <3>1. CASE WriteAt(k, j) /\ toExt'[k][j] = toExt[k][j] BY <1>10, <1>12, <2>1, <3>1
    <3>2. CASE toExt'[k][j] = m0 BY <1>2, <1>3, <3>2
    <3> QED BY <1>9, <2>3, <3>1, <3>2
  <2> QED BY <2>2, <2>3
\* The new write is behind the aborts of the others, for the lock was free or its own.
<1>14. ASSUME Writes(q), sock[n].open, NEW x, NEW relay, Writes(x), x \in Requests, Issuer[x] # Issuer[q], NEW k \in Nat,
              Waits(relay) \/ AbortBetween(s, k, Len(s) + 1, relay),
              \A p \in pending : p.relay = relay => p.request = x /\ p.conn = n
       PROVE  AbortBetween(s, k, Len(s) + 1, relay)
  <2>1. ASSUME NEW p \in pending, p.relay = relay PROVE FALSE
    <3>1. p.request = x /\ p.conn = n /\ p.window = w BY <1>1, <1>14, <2>1 DEF SocketsFit, ConnsFit
    <3>2. lock[w] = Issuer[x] BY <1>14, <1>w, <3>1 DEF WritersHoldLocks, n
    <3>3. Issuer[x] \in Clis BY <1>14, BridgeAssumption
    <3> QED BY <1>6, <1>14, <3>2, <3>3
  <2> QED BY <1>14, <2>1 DEF Waits
<1>15. WritersApart'
  <2> SUFFICES ASSUME NEW l \in Sockets, NEW j \in Nat, WriteAt(l, j)'
               PROVE  /\ \A v \in Windows : \A r \in running[v] :
                           Acts(r, l) /\ Issuer[r.request] # Issuer[toExt'[l][j].request] => AbortBetween(toExt'[l], 0, j, r.relay)
                      /\ \A k \in Nat : WriteAt(l, k)' /\ k < j /\ Issuer[toExt'[l][k].request] # Issuer[toExt'[l][j].request] =>
                           AbortBetween(toExt'[l], k, j, toExt'[l][k].relay)
    BY DEF WritersApart, Acts
  <2>0. 0 \in Nat /\ Len(s) + 1 \in Nat BY <1>5
  <2>1. CASE WriteAt(l, j) /\ toExt'[l][j] = toExt[l][j]
    <3>1. /\ \A v \in Windows : \A r \in running[v] :
               Acts(r, l) /\ Issuer[r.request] # Issuer[toExt[l][j].request] => AbortBetween(toExt[l], 0, j, r.relay)
          /\ \A k \in Nat : WriteAt(l, k) /\ k < j /\ Issuer[toExt[l][k].request] # Issuer[toExt[l][j].request] =>
               AbortBetween(toExt[l], k, j, toExt[l][k].relay)
      BY <1>w, <2>1 DEF WritersApart
    <3>2. \A v \in Windows : \A r \in running[v] :
               Acts(r, l) /\ Issuer[r.request] # Issuer[toExt'[l][j].request] => AbortBetween(toExt'[l], 0, j, r.relay)
      BY <1>10, <2>0, <2>1, <3>1
    <3>3. ASSUME NEW k \in Nat, WriteAt(l, k)', k < j, Issuer[toExt'[l][k].request] # Issuer[toExt'[l][j].request]
          PROVE  AbortBetween(toExt'[l], k, j, toExt'[l][k].relay)
      <4>1. CASE WriteAt(l, k) /\ toExt'[l][k] = toExt[l][k] BY <1>10, <2>1, <3>1, <3>3, <4>1
      <4>2. CASE l = n /\ k = Len(s) + 1
        <5>1. j \in DOMAIN s BY <2>1, <4>2 DEF WriteAt, AskAt, s
        <5>2. j <= Len(s) BY <1>5, <5>1
        <5> QED BY <1>5, <3>3, <4>2, <5>2
      <4> QED BY <1>9, <3>3, <4>1, <4>2
    <3> QED BY <3>2, <3>3
  <2>2. CASE l = n /\ j = Len(s) + 1 /\ toExt'[l][j] = m0 /\ toExt'[n] = Append(s, m0) /\ sock[n].open /\ Writes(q)
    <3>0. Stands(n) /\ Issuer[toExt'[l][j].request] = Issuer[q] BY <1>1, <1>3, <2>2 DEF Stands, n
    <3>1. /\ \A v \in Windows : \A r \in running[v] : Acts(r, n) => Waits(r.relay) \/ AbortBetween(s, 0, Len(s) + 1, r.relay)
          /\ \A i \in Nat : WriteAt(n, i) => Waits(s[i].relay) \/ AbortBetween(s, i, Len(s) + 1, s[i].relay)
      BY <1>1, <1>w, <3>0 DEF AbortsOwed, s
    <3>2. ASSUME NEW v \in Windows, NEW r \in running[v], Acts(r, n), Issuer[r.request] # Issuer[q]
          PROVE  AbortBetween(toExt'[l], 0, j, r.relay)
      <4>1. r.request \in Requests BY DEF BridgeTypeOK, Commands
      <4>2. \A p \in pending : p.relay = r.relay => p.request = r.request /\ p.conn = n
        BY <3>2 DEF RelaysFit, RunFits, Acts
      <4>3. Writes(r.request) /\ (Waits(r.relay) \/ AbortBetween(s, 0, Len(s) + 1, r.relay)) BY <3>1, <3>2 DEF Acts
      <4>4. AbortBetween(s, 0, Len(s) + 1, r.relay) BY <1>14, <2>0, <2>2, <3>2, <4>1, <4>2, <4>3
      <4> QED BY <1>1, <1>10, <2>0, <2>2, <4>4 DEF s
    <3>3. ASSUME NEW k \in Nat, WriteAt(l, k)', k < j, Issuer[toExt'[l][k].request] # Issuer[q]
          PROVE  AbortBetween(toExt'[l], k, j, toExt'[l][k].relay)
      <4>0. k # Len(s) + 1 BY <1>5, <2>2, <3>3
      <4>a. WriteAt(l, k) /\ toExt'[l][k] = toExt[l][k] BY <1>9, <3>3, <4>0
      <4>1. WriteAt(n, k) /\ toExt'[l][k] = s[k] BY <2>2, <4>a DEF s
      <4>2. s[k] \in AskedIn(s) /\ s[k] \in ToExtension /\ s[k].type = "request" /\ Writes(s[k].request)
        BY <1>5, <4>1 DEF WriteAt, AskAt, AskedIn, s
      <4>3. s[k].request \in Requests BY <4>2 DEF ToExtension
      <4>4. \A p \in pending : p.relay = s[k].relay => p.request = s[k].request /\ p.conn = n
        BY <1>1, <4>2 DEF RelaysFit, AskedFit, s
      <4>5. Waits(s[k].relay) \/ AbortBetween(s, k, Len(s) + 1, s[k].relay) BY <3>1, <4>1
      <4>6. AbortBetween(s, k, Len(s) + 1, s[k].relay)
        <5> DEFINE x == s[k].request
                   relay == s[k].relay
        <5>1. /\ Issuer[x] # Issuer[q] /\ Writes(x) /\ x \in Requests /\ (Waits(relay) \/ AbortBetween(s, k, Len(s) + 1, relay))
              /\ \A p \in pending : p.relay = relay => p.request = x /\ p.conn = n
          BY <3>3, <4>1, <4>2, <4>3, <4>4, <4>5
        <5> HIDE DEF x, relay
        <5>2. AbortBetween(s, k, Len(s) + 1, relay) BY <1>14, <2>2, <5>1
        <5> QED BY <5>2 DEF relay
      <4> QED BY <1>1, <1>10, <2>0, <2>2, <4>1, <4>6 DEF s
    <3> QED BY <2>2, <3>0, <3>2, <3>3
  <2> QED BY <1>9, <2>1, <2>2
<1>16. OneWriterActs' BY <1>w DEF OneWriterActs
<1> QED BY <1>11, <1>13, <1>15, <1>16 DEF WritesFit

\* A CLI that is gone leaves an abort for each of its writes before the lock is free (handleDisconnect).
LEMMA WritesOfGone ==
  ASSUME BridgeTypeOK, BridgeTypeOK', SocketsFit, RelaysFit, WritesFit, NEW c \in Clis, CliDisconnects(c)
  PROVE  WritesFit'
<1>0. UNCHANGED outlived BY DEF CliDisconnects
<1>p. \A x : Writes(x)' <=> Writes(x) BY <1>0, WritesSame
<1> USE <1>p
<1>1. /\ UNCHANGED <<sock, handle, running>>
      /\ lock' = [w \in Windows |-> IF lock[w] = c THEN None ELSE lock[w]]
      /\ pending' = {p \in pending : Issuer[p.request] # c}
      /\ toExt' = [n \in Sockets |->
           IF IsOpen(n) /\ sock[n].open THEN toExt[n] \o StopsTo(c, n) \o AbortsTo(c, n) ELSE toExt[n]]
  BY DEF CliDisconnects, windowVars
<1>w. WritersHoldLocks /\ AbortsOwed /\ WritersApart /\ OneWriterActs BY DEF WritesFit
<1>2. \A n \in Sockets : /\ toExt[n] \in Seq(ToExtension) /\ StopsTo(c, n) \in Seq(ToExtension) /\ AbortsTo(c, n) \in Seq(ToExtension)
                         /\ toExt[n] \o StopsTo(c, n) \in Seq(ToExtension)
  BY StopsAre, AbortsAre DEF BridgeTypeOK
<1>3. \A n \in Sockets : \A j \in Nat : WriteAt(n, j)' => WriteAt(n, j) /\ toExt'[n][j] = toExt[n][j]
  <2> SUFFICES ASSUME NEW n \in Sockets, NEW j \in Nat, WriteAt(n, j)'
               PROVE  WriteAt(n, j) /\ toExt'[n][j] = toExt[n][j]
    OBVIOUS
  <2>1. CASE toExt'[n] = toExt[n] BY <2>1 DEF WriteAt
  <2>2. CASE toExt'[n] = (toExt[n] \o StopsTo(c, n)) \o AbortsTo(c, n)
    <3> DEFINE s == toExt[n]
               t == s \o StopsTo(c, n)
               u == t \o AbortsTo(c, n)
    <3>1. s \in Seq(ToExtension) /\ StopsTo(c, n) \in Seq(ToExtension) /\ AbortsTo(c, n) \in Seq(ToExtension) /\ t \in Seq(ToExtension)
      BY <1>2
    <3>2. /\ \A i \in DOMAIN StopsTo(c, n) : StopsTo(c, n)[i].type = "stop"
          /\ \A i \in DOMAIN AbortsTo(c, n) : AbortsTo(c, n)[i].type = "abort"
      BY StopsAre, AbortsAre
    <3>3. /\ \A i \in DOMAIN t : i \in DOMAIN s \/ (i - Len(s) \in DOMAIN StopsTo(c, n) /\ t[i] = StopsTo(c, n)[i - Len(s)])
          /\ \A i \in DOMAIN s : t[i] = s[i]
      BY <3>1, QueueGrows
    <3> HIDE DEF t
    <3>4. /\ \A i \in DOMAIN u : i \in DOMAIN t \/ (i - Len(t) \in DOMAIN AbortsTo(c, n) /\ u[i] = AbortsTo(c, n)[i - Len(t)])
          /\ \A i \in DOMAIN t : u[i] = t[i]
      BY <3>1, QueueGrows
    <3>5. toExt'[n] = u BY <2>2 DEF t
    <3> HIDE DEF s, u
    <3>6. j \in DOMAIN u /\ u[j].type = "request" /\ Writes(u[j].request) BY <3>5 DEF WriteAt, AskAt
    <3>7. j \in DOMAIN t /\ u[j] = t[j] BY <3>2, <3>4, <3>6
    <3>8. j \in DOMAIN s /\ t[j] = s[j] BY <3>2, <3>3, <3>6, <3>7
    <3> QED BY <3>5, <3>6, <3>7, <3>8 DEF WriteAt, AskAt, s
  <2> QED BY <1>1, <2>1, <2>2
<1>4. \A n \in Sockets : \A a \in Nat : \A relay :
         /\ \A b \in Nat : AbortBetween(toExt[n], a, b, relay) => AbortBetween(toExt'[n], a, b, relay)
         /\ AbortBetween(toExt[n], a, Len(toExt[n]) + 1, relay) => AbortBetween(toExt'[n], a, Len(toExt'[n]) + 1, relay)
  <2> SUFFICES ASSUME NEW n \in Sockets
               PROVE  \A a \in Nat : \A relay :
         /\ \A b \in Nat : AbortBetween(toExt[n], a, b, relay) => AbortBetween(toExt'[n], a, b, relay)
         /\ AbortBetween(toExt[n], a, Len(toExt[n]) + 1, relay) => AbortBetween(toExt'[n], a, Len(toExt'[n]) + 1, relay)
    OBVIOUS
  <2>1. CASE toExt'[n] = toExt[n] BY <2>1
  <2>2. CASE toExt'[n] = (toExt[n] \o StopsTo(c, n)) \o AbortsTo(c, n)
    <3> DEFINE t == toExt[n] \o StopsTo(c, n)
    <3>1. toExt[n] \in Seq(ToExtension) /\ StopsTo(c, n) \in Seq(ToExtension) /\ AbortsTo(c, n) \in Seq(ToExtension) /\ t \in Seq(ToExtension)
      BY <1>2
    <3>2. /\ \A a \in Nat, b \in Nat : \A relay : AbortBetween(toExt[n], a, b, relay) => AbortBetween(t, a, b, relay)
          /\ \A a \in Nat : \A relay : AbortBetween(toExt[n], a, Len(toExt[n]) + 1, relay) => AbortBetween(t, a, Len(t) + 1, relay)
      BY <3>1, AbortsRemain
    <3> DEFINE u == t \o AbortsTo(c, n)
    <3> HIDE DEF t
    <3>3. /\ \A a \in Nat, b \in Nat : \A relay : AbortBetween(t, a, b, relay) => AbortBetween(u, a, b, relay)
          /\ \A a \in Nat : \A relay : AbortBetween(t, a, Len(t) + 1, relay) => AbortBetween(u, a, Len(u) + 1, relay)
      BY <3>1, AbortsRemain
    <3>4. toExt'[n] = u BY <2>2 DEF t
    <3> HIDE DEF u
    <3> QED BY <3>2, <3>3, <3>4
  <2> QED BY <1>1, <2>1, <2>2
\* Of what waits on a window's own connection, what is forgotten is aborted there.
<1>5. ASSUME NEW n \in Sockets, Stands(n), NEW p \in pending, p.conn = n
      PROVE  (\E x \in pending' : x.relay = p.relay)
             \/ \A k \in Nat : k <= Len(toExt[n]) => AbortBetween(toExt'[n], k, Len(toExt'[n]) + 1, p.relay)
  <2>1. CASE Issuer[p.request] # c BY <1>1, <2>1
  <2>2. CASE Issuer[p.request] = c
    <3>1. p.window = sock[n].window /\ p.window \in Windows /\ handle[p.window] = n /\ n # 0
      BY <1>5 DEF Stands, SocketsFit, ConnsFit, BridgeTypeOK, Waiters, Sockets
    <3>2. Resolve(p.window) = p.window /\ p.window # None
      <4>1. Resolve(p.window) = p.window BY <3>1 DEF Resolve
      <4> QED BY <3>1, <4>1, BridgeAssumption DEF None
    <3>3. PICK i \in DOMAIN AbortsTo(c, n) : AbortsTo(c, n)[i].relay = p.relay
      BY <2>2, <3>1, <3>2, AbortsAre
    <3>4. AbortsTo(c, n)[i].type = "abort" BY AbortsAre
    <3> DEFINE s == toExt[n]
               a == StopsTo(c, n)
               b == AbortsTo(c, n)
               t == s \o a
               u == t \o b
    <3>5. toExt'[n] = u BY <1>1, <1>5 DEF Stands, IsOpen, Sockets
    <3>6. s \in Seq(ToExtension) /\ a \in Seq(ToExtension) /\ b \in Seq(ToExtension) /\ t \in Seq(ToExtension) BY <1>2
    <3>7. Len(t) = Len(s) + Len(a) /\ Len(s) \in Nat /\ Len(a) \in Nat BY <3>6, QueueGrows
    <3> HIDE DEF t
    <3>8. /\ Len(u) = Len(t) + Len(b) /\ Len(b) \in Nat /\ Len(t) \in Nat
          /\ Len(t) + i \in DOMAIN u /\ u[Len(t) + i] = b[i]
      BY <3>6, QueueGrows
    <3>9. i \in Nat /\ 1 <= i /\ i <= Len(b) BY <3>6
    <3> HIDE DEF s, a, b, u
    <3>10. \A k \in Nat : k <= Len(s) => k < Len(t) + i /\ Len(t) + i < Len(u) + 1 BY <3>7, <3>8, <3>9
    <3>11. u[Len(t) + i].type = "abort" /\ u[Len(t) + i].relay = p.relay BY <3>3, <3>4, <3>8 DEF b
    <3>12. \A k \in Nat : k <= Len(s) => AbortBetween(u, k, Len(u) + 1, p.relay)
      BY <3>8, <3>10, <3>11 DEF AbortBetween
    <3> QED BY <3>5, <3>12 DEF s
  <2> QED BY <2>1, <2>2
<1>6. WritersHoldLocks'
  <2> SUFFICES ASSUME NEW p \in pending', Writes(p.request), p.conn = handle[p.window]
               PROVE  lock'[p.window] = Issuer[p.request]
    BY <1>1 DEF WritersHoldLocks
  <2>1. p \in pending /\ Issuer[p.request] # c /\ p.window \in Windows BY <1>1 DEF BridgeTypeOK, Waiters
  <2>2. lock[p.window] = Issuer[p.request] BY <1>w, <2>1 DEF WritersHoldLocks
  <2> QED BY <1>1, <2>1, <2>2
<1>7. AbortsOwed'
  <2> SUFFICES ASSUME NEW n \in Sockets, Stands(n)
               PROVE  /\ \A w \in Windows : \A r \in running[w] : Acts(r, n) =>
                           (\E p \in pending' : p.relay = r.relay) \/ AbortBetween(toExt'[n], 0, Len(toExt'[n]) + 1, r.relay)
                      /\ \A j \in Nat : WriteAt(n, j)' =>
                           \/ \E p \in pending' : p.relay = toExt'[n][j].relay
                           \/ AbortBetween(toExt'[n], j, Len(toExt'[n]) + 1, toExt'[n][j].relay)
    BY <1>1 DEF AbortsOwed, Waits, Acts, Stands
  <2>0. 0 \in Nat /\ Len(toExt[n]) \in Nat /\ 0 <= Len(toExt[n])
    <3>1. toExt[n] \in Seq(ToExtension) BY <1>2
    <3>2. Len(toExt[n]) \in Nat BY <3>1
    <3> QED BY <3>2
  <2>1. /\ \A w \in Windows : \A r \in running[w] : Acts(r, n) => Waits(r.relay) \/ AbortBetween(toExt[n], 0, Len(toExt[n]) + 1, r.relay)
        /\ \A j \in Nat : WriteAt(n, j) =>
             Waits(toExt[n][j].relay) \/ AbortBetween(toExt[n], j, Len(toExt[n]) + 1, toExt[n][j].relay)
    BY <1>w DEF AbortsOwed
  <2>2. ASSUME NEW w \in Windows, NEW r \in running[w], Acts(r, n)
        PROVE  (\E p \in pending' : p.relay = r.relay) \/ AbortBetween(toExt'[n], 0, Len(toExt'[n]) + 1, r.relay)
    <3>1. CASE AbortBetween(toExt[n], 0, Len(toExt[n]) + 1, r.relay) BY <1>4, <2>0, <3>1
    <3>2. CASE Waits(r.relay)
      <4>1. PICK p \in pending : p.relay = r.relay BY <3>2 DEF Waits
      <4>2. p.conn = n BY <2>2, <4>1 DEF RelaysFit, RunFits, Acts
      <4> QED BY <1>5, <2>0, <4>1, <4>2
    <3> QED BY <2>1, <2>2, <3>1, <3>2
  <2>3. ASSUME NEW j \in Nat, WriteAt(n, j)'
        PROVE  \/ \E p \in pending' : p.relay = toExt'[n][j].relay
               \/ AbortBetween(toExt'[n], j, Len(toExt'[n]) + 1, toExt'[n][j].relay)
    <3>1. WriteAt(n, j) /\ toExt'[n][j] = toExt[n][j] BY <1>3, <2>3
    <3>2. CASE AbortBetween(toExt[n], j, Len(toExt[n]) + 1, toExt[n][j].relay) BY <1>4, <3>1, <3>2
    <3>3. CASE Waits(toExt[n][j].relay)
      <4>1. PICK p \in pending : p.relay = toExt[n][j].relay BY <3>3 DEF Waits
      <4>2. toExt[n][j] \in AskedIn(toExt[n]) BY <3>1 DEF WriteAt, AskAt, AskedIn
      <4>3. p.conn = n BY <4>1, <4>2 DEF RelaysFit, AskedFit
      <4>4. toExt[n] \in Seq(ToExtension) /\ j \in DOMAIN toExt[n] BY <1>2, <3>1 DEF WriteAt, AskAt
      <4>5. j <= Len(toExt[n]) BY <4>4
      <4> QED BY <1>5, <3>1, <4>1, <4>3, <4>5
    <3> QED BY <2>1, <3>1, <3>2, <3>3
  <2> QED BY <2>2, <2>3
<1>8. WritersApart'
  <2> SUFFICES ASSUME NEW n \in Sockets, NEW j \in Nat, WriteAt(n, j)'
               PROVE  /\ \A w \in Windows : \A r \in running[w] :
                           Acts(r, n) /\ Issuer[r.request] # Issuer[toExt'[n][j].request] => AbortBetween(toExt'[n], 0, j, r.relay)
                      /\ \A k \in Nat : WriteAt(n, k)' /\ k < j /\ Issuer[toExt'[n][k].request] # Issuer[toExt'[n][j].request] =>
                           AbortBetween(toExt'[n], k, j, toExt'[n][k].relay)
    BY <1>1 DEF WritersApart, Acts
  <2>1. WriteAt(n, j) /\ toExt'[n][j] = toExt[n][j] BY <1>3
  <2>2. /\ \A w \in Windows : \A r \in running[w] :
             Acts(r, n) /\ Issuer[r.request] # Issuer[toExt[n][j].request] => AbortBetween(toExt[n], 0, j, r.relay)
        /\ \A k \in Nat : WriteAt(n, k) /\ k < j /\ Issuer[toExt[n][k].request] # Issuer[toExt[n][j].request] =>
             AbortBetween(toExt[n], k, j, toExt[n][k].relay)
    BY <1>w, <2>1 DEF WritersApart
  <2>3. 0 \in Nat OBVIOUS
  <2>4. \A w \in Windows : \A r \in running[w] :
          Acts(r, n) /\ Issuer[r.request] # Issuer[toExt'[n][j].request] => AbortBetween(toExt'[n], 0, j, r.relay)
    BY <1>4, <2>1, <2>2, <2>3
  <2>5. ASSUME NEW k \in Nat, WriteAt(n, k)', k < j, Issuer[toExt'[n][k].request] # Issuer[toExt'[n][j].request]
        PROVE  AbortBetween(toExt'[n], k, j, toExt'[n][k].relay)
    <3>1. WriteAt(n, k) /\ toExt'[n][k] = toExt[n][k] BY <1>3, <2>5
    <3>2. AbortBetween(toExt[n], k, j, toExt[n][k].relay) BY <2>1, <2>2, <2>5, <3>1
    <3> QED BY <1>4, <3>1, <3>2
  <2> QED BY <2>4, <2>5
<1>9. OneWriterActs' BY <1>1, <1>w DEF OneWriterActs
<1> QED BY <1>6, <1>7, <1>8, <1>9 DEF WritesFit

\* A change of session takes the lock of a CLI (releaseForSessionChange): what that CLI has under
\* way here is a write no longer, the others stay as they were.
LEMMA WritesReleased ==
  ASSUME BridgeTypeOK, BridgeTypeOK', WritesFit, UNCHANGED <<sock, handle, toExt, running, pending>>, NEW w \in Windows,
         lock' = [lock EXCEPT ![w] = None],
         outlived' = outlived \cup
           {q \in Requests : Kind[q] = "write" /\ Issuer[q] = lock[w] /\ \E p \in pending : p.request = q /\ p.window = w}
  PROVE  WritesFit'
<1>w. WritersHoldLocks /\ AbortsOwed /\ WritersApart /\ OneWriterActs BY DEF WritesFit
<1>1. \A q : Writes(q)' => Writes(q) BY DEF Writes
<1>2. \A r, n : Acts(r, n)' => Acts(r, n) BY <1>1 DEF Acts
<1>3. \A n, i : WriteAt(n, i)' => WriteAt(n, i) BY <1>1 DEF WriteAt
<1>4. WritersHoldLocks'
  <2> SUFFICES ASSUME NEW p \in pending, Writes(p.request)', p.conn = handle[p.window]
               PROVE  lock'[p.window] = Issuer[p.request]
    BY DEF WritersHoldLocks
  <2>1. p.window \in Windows /\ p.request \in Requests /\ Writes(p.request) BY <1>1 DEF BridgeTypeOK, Waiters
  <2>2. lock[p.window] = Issuer[p.request] BY <1>w, <2>1 DEF WritersHoldLocks
  <2>3. p.window # w BY <2>1, <2>2 DEF Writes
  <2> QED BY <2>1, <2>2, <2>3 DEF BridgeTypeOK
<1>5. AbortsOwed' BY <1>w, <1>2, <1>3 DEF AbortsOwed, Stands, Waits
<1>6. WritersApart' BY <1>w, <1>2, <1>3 DEF WritersApart
<1>7. OneWriterActs' BY <1>w, <1>1 DEF OneWriterActs
<1> QED BY <1>4, <1>5, <1>6, <1>7 DEF WritesFit

\* Every step keeps the writes of two CLIs apart, while the server lives.
LEMMA WritesStay ==
  ASSUME BridgeTypeOK, BridgeTypeOK', SocketsFit, RelaysFit, WritesFit, [BridgeNext]_bridgeVars, serverLives' = serverLives
  PROVE  WritesFit'
<1> USE DEF sockVars, serverVars, cliVars, windowVars
<1>1. /\ sock \in [Sockets -> SocketStates] /\ toExt \in [Sockets -> Seq(ToExtension)]
      /\ toServer \in [Sockets -> Seq(FromExtension)]
      /\ handle \in [Windows -> Sockets \cup {0}] /\ lock \in [Windows -> Clis \cup {None}] /\ pending \subseteq Waiters
      /\ client \in [Windows -> Sockets \cup {0}] /\ running \in [Windows -> SUBSET Commands]
  BY DEF BridgeTypeOK
<1>a. 0 \notin Sockets BY DEF Sockets
<1>b. /\ HandlesFit /\ ClientsFit /\ QuietBefore /\ RegistersOnce /\ ConnsFit BY DEF SocketsFit
<1>w. WritersHoldLocks /\ AbortsOwed /\ WritersApart /\ OneWriterActs BY DEF WritesFit
<1>c. \A w \in Windows : \A r \in running[w] : r \in Commands BY <1>1
<1>d. \A n \in Sockets : sock[n].side # None => sock[n].window \in Windows BY <1>1, SocketState
<1>e. ASSUME pending' \subseteq pending, UNCHANGED <<lock, handle, outlived>> PROVE WritersHoldLocks'
  <2>1. \A q : Writes(q)' <=> Writes(q) BY <1>e, WritesSame
  <2> QED BY <1>e, <1>w, <2>1 DEF WritersHoldLocks
<1>f. \A w \in Windows : \A r \in running[w] : \E s \in running[w] :
        s.relay = r.relay /\ s.request = r.request /\ s.conn = r.conn /\ s.aborted = r.aborted
  OBVIOUS
\* Who is waited for when nobody leaves.
<1>g. ASSUME UNCHANGED pending
      PROVE  \A n \in Sockets : Stands(n)' /\ Stands(n) =>
           /\ \A w \in Windows : \A r \in running[w] : Acts(r, n) /\ Waits(r.relay) => \E p \in pending' : p.relay = r.relay
           /\ \A j \in Nat : WriteAt(n, j) /\ Waits(toExt[n][j].relay) => \E p \in pending' : p.relay = toExt[n][j].relay
  BY <1>g DEF Waits
\* The commands of a window change, or end, but nobody is aborted.
<1>9. ASSUME UNCHANGED <<sock, toExt, handle, lock, outlived, pending>>,
             \A v \in Windows : \A r \in running'[v] : \E s \in running[v] :
               s.relay = r.relay /\ s.request = r.request /\ s.conn = r.conn /\ s.aborted = r.aborted
      PROVE  WritesFit'
  <2>1. \A k \in Sockets : Stands(k)' <=> Stands(k) BY <1>9 DEF Stands
  <2>2. WritersHoldLocks' BY <1>e, <1>9
  <2> QED BY <1>9, <1>g, <2>1, <2>2, WritesUntouched
<1>2. ASSUME NEW w \in Windows, ClientConnects(w) PROVE WritesFit'
  <2>1. PICK n \in Sockets : sock[n].side = None /\ sock' = [sock EXCEPT ![n] = [window |-> w, side |-> "open", open |-> TRUE]]
    BY <1>2 DEF ClientConnects
  <2>2. UNCHANGED <<toExt, handle, lock, outlived, pending, running>> BY <1>2 DEF ClientConnects
  <2>3. \A k \in Sockets : Stands(k)' => Stands(k)
    <3>1. sock'[n].side = "open" /\ \A k \in Sockets : k # n => sock'[k] = sock[k] BY <1>1, <2>1
    <3> QED BY <2>2, <3>1 DEF Stands
  <2>4. WritersHoldLocks' BY <1>e, <2>2
  <2> QED BY <1>f, <1>g, <2>2, <2>3, <2>4, WritesUntouched
<1>3. ASSUME NEW w \in Windows, ClientCloses(w) PROVE WritesFit'
  <2>1. PICK n \in Sockets : n = client[w] BY <1>1, <1>3 DEF ClientCloses, ClientOpen
  <2>2. /\ UNCHANGED <<pending, handle, lock, outlived>> /\ toExt' = [toExt EXCEPT ![n] = <<>>]
        /\ sock' = [sock EXCEPT ![n].open = FALSE]
    BY <1>3, <2>1 DEF ClientCloses
  <2>3. PICK how \in {"disconnect", "delivered", "lost"} :
          running' = [running EXCEPT ![w] = {[r EXCEPT !.abortable = @ /\ how # "disconnect"] : r \in running[w]}]
    BY <1>3 DEF ClientCloses
  <2>4. \A v \in Windows : \A r \in running'[v] : \E s \in running[v] :
          s.relay = r.relay /\ s.request = r.request /\ s.conn = r.conn /\ s.aborted = r.aborted
    <3> SUFFICES ASSUME NEW v \in Windows, NEW r \in running'[v]
                 PROVE  \E s \in running[v] : s.relay = r.relay /\ s.request = r.request /\ s.conn = r.conn /\ s.aborted = r.aborted
      OBVIOUS
    <3>1. CASE v # w BY <1>1, <2>3, <3>1
    <3>2. CASE v = w
      <4>1. PICK s \in running[w] : r = [s EXCEPT !.abortable = @ /\ how # "disconnect"] BY <1>1, <2>3, <3>2
      <4>2. s \in Commands BY <1>c
      <4>3. s.relay = r.relay /\ s.request = r.request /\ s.conn = r.conn /\ s.aborted = r.aborted
        BY <4>1, <4>2 DEF Commands
      <4> QED BY <3>2, <4>3
    <3> QED BY <3>1, <3>2
  <2>5. \A k \in Sockets : Stands(k)' => Stands(k) /\ toExt'[k] = toExt[k]
    <3>1. \A k \in Sockets : k # n => sock'[k] = sock[k] /\ toExt'[k] = toExt[k] BY <1>1, <2>2
    <3>2. sock'[n].open = FALSE
      <4>1. sock'[n] = [sock[n] EXCEPT !.open = FALSE] /\ sock[n] \in SocketStates BY <1>1, <2>2
      <4> QED BY <4>1 DEF SocketStates
    <3> QED BY <2>2, <3>1, <3>2 DEF Stands
  <2>6. \A k \in Sockets : toExt'[k] = toExt[k] \/ toExt'[k] = <<>> BY <1>1, <2>2
  <2>7. WritersHoldLocks' BY <1>e, <2>2
  <2> QED BY <1>g, <2>2, <2>4, <2>5, <2>6, <2>7, WritesUntouched
<1>4. ASSUME NEW n \in Sockets, CloseFrame(n) PROVE WritesFit'
  <2>1. UNCHANGED <<toExt, handle, lock, outlived, pending, running>> /\ sock' = [sock EXCEPT ![n].side = "closing"] BY <1>4 DEF CloseFrame
  <2>2. \A k \in Sockets : Stands(k)' => Stands(k)
    <3>1. \A k \in Sockets : k # n => sock'[k] = sock[k] BY <1>1, <2>1
    <3>2. sock'[n].side = "closing"
      <4>1. sock'[n] = [sock[n] EXCEPT !.side = "closing"] /\ sock[n] \in SocketStates BY <1>1, <2>1
      <4> QED BY <4>1 DEF SocketStates
    <3> QED BY <2>1, <3>1, <3>2 DEF Stands
  <2>3. WritersHoldLocks' BY <1>e, <2>1
  <2> QED BY <1>f, <1>g, <2>1, <2>2, <2>3, WritesUntouched
<1>5. ASSUME NEW n \in Sockets, ExtensionDisconnected(n) PROVE WritesFit'
  <2>1. PICK w \in Windows : w = sock[n].window BY <1>5, <1>d DEF ExtensionDisconnected, None
  <2>2. UNCHANGED <<toExt, outlived, running>> /\ sock' = [sock EXCEPT ![n].side = "closed"] BY <1>5 DEF ExtensionDisconnected
  <2>3. /\ \A k \in Sockets : k # n => sock'[k] = sock[k]
        /\ sock'[n].side = "closed"
    <3>1. sock'[n] = [sock[n] EXCEPT !.side = "closed"] /\ sock[n] \in SocketStates BY <1>1, <2>2
    <3>2. sock'[n].side = "closed" BY <3>1 DEF SocketStates
    <3> QED BY <1>1, <2>2, <3>2
  <2>4. CASE handle[w] # n
    <3>1. UNCHANGED <<handle, lock, pending>> BY <1>5, <2>1, <2>4 DEF ExtensionDisconnected
    <3>2. \A k \in Sockets : Stands(k)' => Stands(k) BY <2>3, <3>1 DEF Stands
    <3>3. WritersHoldLocks' BY <1>e, <2>2, <3>1
    <3> QED BY <1>f, <1>g, <2>2, <3>1, <3>2, <3>3, WritesUntouched
  <2>5. CASE handle[w] = n
    <3>1. handle' = [handle EXCEPT ![w] = 0] /\ lock' = [lock EXCEPT ![w] = None] /\ pending' = pending \ Ended(w)
      BY <1>5, <2>1, <2>5 DEF ExtensionDisconnected
    <3>2. \A k \in Sockets : Stands(k)' => Stands(k) /\ sock[k].window # w
      <4> SUFFICES ASSUME NEW k \in Sockets, Stands(k)' PROVE Stands(k) /\ sock[k].window # w
        OBVIOUS
      <4>1. k # n /\ sock'[k] = sock[k] BY <2>3 DEF Stands
      <4>2. sock[k].window \in Windows /\ handle'[sock[k].window] = k BY <1>d, <4>1 DEF Stands, None
      <4>3. sock[k].window # w BY <1>1, <1>a, <3>1, <4>2
      <4> QED BY <1>1, <3>1, <4>1, <4>2, <4>3 DEF Stands
    <3>3. WritersHoldLocks'
      <4> SUFFICES ASSUME NEW p \in pending', Writes(p.request), p.conn = handle'[p.window]
                   PROVE  lock'[p.window] = Issuer[p.request]
        BY <2>2, WritesSame DEF WritersHoldLocks
      <4>1. p \in pending /\ p.window # w /\ p.window \in Windows BY <1>1, <3>1 DEF Ended, Waiters
      <4> QED BY <1>1, <1>w, <3>1, <4>1 DEF WritersHoldLocks
    <3>4. ASSUME NEW k \in Sockets, Stands(k)', NEW p \in pending, p.conn = k PROVE p \in pending'
      <4>1. p.window = sock[k].window BY <1>b, <3>4 DEF ConnsFit
      <4> QED BY <3>1, <3>2, <3>4, <4>1 DEF Ended
    <3>5. \A k \in Sockets : Stands(k)' /\ Stands(k) =>
           /\ \A v \in Windows : \A r \in running[v] : Acts(r, k) /\ Waits(r.relay) => \E p \in pending' : p.relay = r.relay
           /\ \A j \in Nat : WriteAt(k, j) /\ Waits(toExt[k][j].relay) => \E p \in pending' : p.relay = toExt[k][j].relay
      <4> SUFFICES ASSUME NEW k \in Sockets, Stands(k)'
                   PROVE  /\ \A v \in Windows : \A r \in running[v] : Acts(r, k) /\ Waits(r.relay) => \E p \in pending' : p.relay = r.relay
                          /\ \A j \in Nat : WriteAt(k, j) /\ Waits(toExt[k][j].relay) => \E p \in pending' : p.relay = toExt[k][j].relay
        OBVIOUS
      <4>1. ASSUME NEW v \in Windows, NEW r \in running[v], Acts(r, k), Waits(r.relay) PROVE \E p \in pending' : p.relay = r.relay
        <5>1. PICK p \in pending : p.relay = r.relay BY <4>1 DEF Waits
        <5>2. p.conn = k BY <4>1, <5>1 DEF RelaysFit, RunFits, Acts
        <5> QED BY <3>4, <5>1, <5>2
      <4>2. ASSUME NEW j \in Nat, WriteAt(k, j), Waits(toExt[k][j].relay) PROVE \E p \in pending' : p.relay = toExt[k][j].relay
        <5>1. PICK p \in pending : p.relay = toExt[k][j].relay BY <4>2 DEF Waits
        <5>2. toExt[k][j] \in AskedIn(toExt[k]) BY <4>2 DEF WriteAt, AskAt, AskedIn
        <5>3. p.conn = k BY <5>1, <5>2 DEF RelaysFit, AskedFit
        <5> QED BY <3>4, <5>1, <5>3
      <4> QED BY <4>1, <4>2
    <3> QED BY <1>f, <2>2, <3>2, <3>3, <3>5, WritesUntouched
  <2> QED BY <2>4, <2>5
<1>6. ASSUME NEW n \in Sockets, ServerReceives(n), Head(toServer[n]).type = "register" PROVE WritesFit'
  <2>1. sock[n].side = "open" /\ Unregistered(n) BY <1>6, <1>b, RegistersReceived DEF Unregistered
  <2>2. PICK w \in Windows : w = sock[n].window BY <1>d, <2>1 DEF None
  <2>3. /\ sock' = [k \in Sockets |->
               IF k = n THEN [sock[k] EXCEPT !.side = "registered"]
               ELSE IF k = handle[w] /\ IsOpen(handle[w]) THEN [sock[k] EXCEPT !.side = "closing"] ELSE sock[k]]
        /\ handle' = [handle EXCEPT ![w] = n] /\ lock' = [lock EXCEPT ![w] = None]
        /\ UNCHANGED <<outlived, pending, toExt, running>>
    BY <1>6, <2>2 DEF ServerReceives, HandleRegistration
  <2>4. toExt[n] = <<>> /\ (\A p \in pending : p.conn # n) /\ \A v \in Windows : \A r \in running[v] : r.conn # n
    BY <1>b, <2>1 DEF QuietBefore
  <2>5. \A k \in Sockets : k # n /\ Stands(k)' => Stands(k)
    <3> SUFFICES ASSUME NEW k \in Sockets, k # n, Stands(k)' PROVE Stands(k)
      OBVIOUS
    <3>1. sock'[k] = sock[k]
      <4>1. sock'[k] = IF k = handle[w] /\ IsOpen(handle[w]) THEN [sock[k] EXCEPT !.side = "closing"] ELSE sock[k]
        BY <2>3
      <4>2. [sock[k] EXCEPT !.side = "closing"].side = "closing"
        <5>1. sock[k] \in SocketStates BY <1>1
        <5> QED BY <5>1 DEF SocketStates
      <4> QED BY <4>1, <4>2 DEF Stands
    <3>2. sock[k].window \in Windows /\ handle'[sock[k].window] = k BY <1>d, <3>1 DEF Stands, None
    <3>3. handle[sock[k].window] = k BY <1>1, <2>3, <3>2
    <3> QED BY <3>1, <3>3 DEF Stands
  <2>6. WritersHoldLocks'
    <3> SUFFICES ASSUME NEW p \in pending, Writes(p.request), p.conn = handle'[p.window]
                 PROVE  lock'[p.window] = Issuer[p.request]
      BY <2>3, WritesSame DEF WritersHoldLocks
    <3>1. p.window \in Windows BY <1>1 DEF Waiters
    <3>2. p.window # w BY <1>1, <2>3, <2>4
    <3> QED BY <1>1, <1>w, <2>3, <3>1, <3>2 DEF WritersHoldLocks
  <2>7. \A k \in Sockets : Stands(k)' => \/ Stands(k) /\ toExt'[k] = toExt[k]
                                         \/ toExt'[k] = <<>> /\ \A v \in Windows : \A r \in running'[v] : r.conn # k
    BY <2>3, <2>4, <2>5
  <2> QED BY <1>f, <1>g, <2>3, <2>6, <2>7, WritesUntouched
<1>7. ASSUME NEW n \in Sockets, ServerReceives(n), Head(toServer[n]).type \notin {"register", "changed"} PROVE WritesFit'
  <2>1. PICK m \in FromExtension : m = Head(toServer[n]) /\ toServer[n] # <<>> BY <1>1, <1>7 DEF ServerReceives
  <2>2. UNCHANGED <<sock, handle, lock, outlived, toExt, running>>
        /\ ((m.type = "response" /\ HandleResponse(m)) \/ UNCHANGED pending)
    <3>1. m.type \in {"response", "final"} BY <1>7, <2>1 DEF FromExtension
    <3> QED BY <1>7, <2>1, <3>1 DEF ServerReceives
  <2>3. \A k \in Sockets : Stands(k)' <=> Stands(k) BY <2>2 DEF Stands
  <2>4. CASE UNCHANGED pending
    <3>1. WritersHoldLocks' BY <1>e, <2>2, <2>4
    <3> QED BY <1>f, <1>g, <2>2, <2>3, <2>4, <3>1, WritesUntouched
  <2>5. CASE m.type = "response" /\ ~UNCHANGED pending /\ HandleResponse(m)
    <3>1. PICK p \in pending : p.relay = m.relay /\ pending' = pending \ {p} BY <2>5 DEF HandleResponse
    <3>2. m \in AnsweredIn(toServer[n]) BY <1>1, <2>1, <2>5, QueueTaken
    <3>3. WritersHoldLocks' BY <1>e, <2>2, <3>1
    <3>4. \A k \in Sockets : Stands(k)' /\ Stands(k) =>
           /\ \A v \in Windows : \A r \in running[v] : Acts(r, k) /\ Waits(r.relay) => \E x \in pending' : x.relay = r.relay
           /\ \A j \in Nat : WriteAt(k, j) /\ Waits(toExt[k][j].relay) => \E x \in pending' : x.relay = toExt[k][j].relay
      <4>1. ASSUME NEW v \in Windows, NEW r \in running[v], Waits(r.relay) PROVE \E x \in pending' : x.relay = r.relay
        <5>1. r.relay # m.relay BY <3>2 DEF RelaysFit, RunFits
        <5> QED BY <3>1, <4>1, <5>1 DEF Waits
      <4>2. ASSUME NEW k \in Sockets, NEW j \in Nat, WriteAt(k, j), Waits(toExt[k][j].relay)
            PROVE  \E x \in pending' : x.relay = toExt[k][j].relay
        <5>1. toExt[k][j] \in AskedIn(toExt[k]) BY <4>2 DEF WriteAt, AskAt, AskedIn
        <5>2. toExt[k][j].relay # m.relay BY <3>2, <5>1 DEF RelaysFit, AskedFit
        <5> QED BY <3>1, <4>2, <5>2 DEF Waits
      <4> QED BY <4>1, <4>2
    <3> QED BY <1>f, <2>2, <2>3, <3>3, <3>4, WritesUntouched
  <2> QED BY <2>2, <2>4, <2>5
<1>s. ASSUME NEW n \in Sockets, ServerReceives(n), Head(toServer[n]).type = "changed" PROVE WritesFit'
  <2>1. PICK w \in Windows : w = sock[n].window BY <1>s, <1>d DEF ServerReceives, None
  <2>2. /\ HandleSessionChanged(w, n, Head(toServer[n]).session)
        /\ UNCHANGED <<sock, handle, toExt, pending, running>>
    BY <1>s, <2>1 DEF ServerReceives
  <2>3. CASE UNCHANGED <<lock, outlived>> BY <1>9, <1>f, <2>2, <2>3
  <2>4. CASE ~UNCHANGED <<lock, outlived>>
    <3>1. /\ lock' = [lock EXCEPT ![w] = None]
          /\ outlived' = outlived \cup
               {q \in Requests : Kind[q] = "write" /\ Issuer[q] = lock[w] /\ \E p \in pending : p.request = q /\ p.window = w}
      BY <2>2, <2>4 DEF HandleSessionChanged
    <3> QED BY <2>2, <3>1, WritesReleased
  <2> QED BY <2>3, <2>4
<1>8. ASSUME NEW w \in Windows, WindowReceives(w) PROVE WritesFit'
  <2>1. PICK n \in Sockets, m \in ToExtension : n = client[w] /\ toExt[n] # <<>> /\ m = Head(toExt[n])
    BY <1>1, <1>8 DEF WindowReceives, ClientOpen
  <2>2. /\ UNCHANGED <<sock, handle, lock, outlived, pending>> /\ toExt' = [toExt EXCEPT ![n] = Tail(@)] /\ sock[n].open
        /\ \/ m.type = "request" /\ Runs(w, n, m)
           \/ m.type = "abort" /\ Aborts(w, m)
           \/ m.type = "stop" /\ UNCHANGED running
    <3>2. m.type \in {"request", "abort", "stop"} BY <2>1 DEF ToExtension
    <3> QED BY <1>8, <2>1, <3>2 DEF WindowReceives, ClientOpen
  <2>3. ASSUME UNCHANGED running, m.type # "abort" PROVE WritesFit'
    <3>1. \A v \in Windows : \A r \in running'[v] : \A k : Acts(r, k) =>
            /\ \E s \in running[v] : s.relay = r.relay /\ s.request = r.request /\ s.conn = r.conn /\ Acts(s, k)
            /\ k = n /\ m.type = "abort" => m.relay # r.relay
      <4> SUFFICES ASSUME NEW v \in Windows, NEW r \in running'[v], NEW k, Acts(r, k)
                   PROVE  /\ \E s \in running[v] : s.relay = r.relay /\ s.request = r.request /\ s.conn = r.conn /\ Acts(s, k)
                          /\ k = n /\ m.type = "abort" => m.relay # r.relay
        OBVIOUS
      <4>1. r \in running[v] BY <2>3
      <4>2. \E s \in running[v] : s.relay = r.relay /\ s.request = r.request /\ s.conn = r.conn /\ Acts(s, k) BY <4>1
      <4>3. k = n /\ m.type = "abort" => m.relay # r.relay BY <2>3
      <4> QED BY <4>2, <4>3
    <3>2. ActsStay(n, m) BY <3>1 DEF ActsStay
    <3> QED BY <2>1, <2>2, <3>2, WritesTaken
  <2>4. CASE m.type = "request" /\ Runs(w, n, m)
    <3>1. CASE running' = [running EXCEPT ![w] = @ \cup
          {[relay |-> m.relay, request |-> m.request, conn |-> n, aborted |-> FALSE, abortable |-> TRUE, begun |-> FALSE]}]
      <4> DEFINE c == [relay |-> m.relay, request |-> m.request, conn |-> n, aborted |-> FALSE, abortable |-> TRUE, begun |-> FALSE]
      <4>1. c.relay = m.relay /\ c.request = m.request /\ c.conn = n OBVIOUS
      <4> HIDE DEF c
      <4>2. \A v \in Windows : \A r \in running'[v] : r \in running[v] \/ r = c BY <1>1, <3>1 DEF c
      <4>3. \A v \in Windows : \A r \in running'[v] : \A k : Acts(r, k) =>
              \/ /\ \E s \in running[v] : s.relay = r.relay /\ s.request = r.request /\ s.conn = r.conn /\ Acts(s, k)
                 /\ k = n /\ m.type = "abort" => m.relay # r.relay
              \/ m.type = "request" /\ r.relay = m.relay /\ r.request = m.request /\ k = n
        <5> SUFFICES ASSUME NEW v \in Windows, NEW r \in running'[v], NEW k, Acts(r, k)
                     PROVE  \/ /\ \E s \in running[v] : s.relay = r.relay /\ s.request = r.request /\ s.conn = r.conn /\ Acts(s, k)
                               /\ k = n /\ m.type = "abort" => m.relay # r.relay
                            \/ m.type = "request" /\ r.relay = m.relay /\ r.request = m.request /\ k = n
          OBVIOUS
        <5>1. CASE r \in running[v]
          <6>1. \E s \in running[v] : s.relay = r.relay /\ s.request = r.request /\ s.conn = r.conn /\ Acts(s, k) BY <5>1
          <6>2. m.type # "abort" BY <2>4
          <6>3. k = n /\ m.type = "abort" => m.relay # r.relay BY <6>2
          <6> QED BY <6>1, <6>3
        <5>2. CASE r = c BY <2>4, <4>1, <5>2 DEF Acts
        <5> QED BY <4>2, <5>1, <5>2
      <4>4. ActsStay(n, m) BY <4>3 DEF ActsStay
      <4> QED BY <2>1, <2>2, <4>4, WritesTaken
    <3>2. CASE UNCHANGED running BY <2>3, <2>4, <3>2
    <3> QED BY <2>4, <3>1, <3>2 DEF Runs
  <2>5. CASE m.type = "abort" /\ Aborts(w, m)
    <3>1. running' = [running EXCEPT ![w] =
            {IF s.relay = m.relay /\ s.abortable THEN [s EXCEPT !.aborted = TRUE] ELSE s : s \in running[w]}]
      BY <2>5 DEF Aborts
    <3>2. \A v \in Windows : \A r \in running'[v] : \A k : Acts(r, k) =>
            /\ \E s \in running[v] : s.relay = r.relay /\ s.request = r.request /\ s.conn = r.conn /\ Acts(s, k)
            /\ k = n /\ m.type = "abort" => m.relay # r.relay
      <4> SUFFICES ASSUME NEW v \in Windows, NEW r \in running'[v], NEW k, Acts(r, k)
                   PROVE  /\ \E s \in running[v] : s.relay = r.relay /\ s.request = r.request /\ s.conn = r.conn /\ Acts(s, k)
                          /\ k = n => m.relay # r.relay
        BY Zenon
      <4>1. CASE v # w
        <5>1. r \in running[v] BY <1>1, <3>1, <4>1
        <5>2. r.conn = k BY DEF Acts
        <5>3. sock[r.conn].window = v BY <1>b, <5>1 DEF ConnsFit
        <5>4. sock[n].window = w BY <1>a, <1>b, <2>1 DEF ClientsFit
        <5>5. k # n BY <4>1, <5>2, <5>3, <5>4
        <5> QED BY <5>1, <5>5
      <4>2. CASE v = w
        <5>1. PICK s \in running[w] : r = IF s.relay = m.relay /\ s.abortable THEN [s EXCEPT !.aborted = TRUE] ELSE s
          BY <1>1, <3>1, <4>2
        <5>2. s \in Commands BY <1>c
        <5>3. [s EXCEPT !.aborted = TRUE].aborted = TRUE BY <5>2 DEF Commands
        <5>4. ~(s.relay = m.relay /\ s.abortable) /\ r = s BY <5>1, <5>3 DEF Acts
        <5>5. k = n => s.abortable BY <1>b, <2>1, <2>2, <5>4 DEF ConnsFit, Acts
        <5> QED BY <4>2, <5>4, <5>5
      <4> QED BY <4>1, <4>2
    <3>3. ActsStay(n, m) BY <3>2 DEF ActsStay
    <3> QED BY <2>1, <2>2, <3>3, WritesTaken
  <2>6. CASE m.type = "stop" /\ UNCHANGED running BY <2>3, <2>6
  <2> QED BY <2>2, <2>4, <2>5, <2>6
<1>10. ASSUME NEW w \in Windows, RecordingBegins(w) PROVE WritesFit'
  <2>1. PICK r \in running[w] : running' = [running EXCEPT ![w] = (@ \ {r}) \cup {[r EXCEPT !.begun = TRUE]}]
    BY <1>10 DEF RecordingBegins
  <2>2. UNCHANGED <<sock, toExt, handle, lock, outlived, pending>> BY <1>10 DEF RecordingBegins
  <2> DEFINE b == [r EXCEPT !.begun = TRUE]
  <2>3. b.relay = r.relay /\ b.request = r.request /\ b.conn = r.conn /\ b.aborted = r.aborted
    <3>1. r \in Commands BY <1>c
    <3> QED BY <3>1 DEF Commands
  <2> HIDE DEF b
  <2>4. \A v \in Windows : \A x \in running'[v] : x \in running[v] \/ (x = b /\ v = w) BY <1>1, <2>1 DEF b
  <2>5. \A v \in Windows : \A x \in running'[v] : \E s \in running[v] :
          s.relay = x.relay /\ s.request = x.request /\ s.conn = x.conn /\ s.aborted = x.aborted
    BY <2>3, <2>4
  <2> QED BY <1>9, <2>2, <2>5
<1>11. ASSUME NEW w \in Windows, RecordingEnds(w) PROVE WritesFit'
  <2>1. UNCHANGED <<sock, toExt, handle, lock, outlived, pending, running>> BY <1>11 DEF RecordingEnds
  <2> QED BY <1>9, <1>f, <2>1
<1>t. ASSUME NEW w \in Windows, SessionChanges(w) PROVE WritesFit'
  <2>1. UNCHANGED <<sock, toExt, handle, lock, outlived, pending, running>> BY <1>t DEF SessionChanges
  <2> QED BY <1>9, <1>f, <2>1
<1>12. ASSUME NEW w \in Windows, CommandEnds(w) PROVE WritesFit'
  <2>1. UNCHANGED <<sock, toExt, handle, lock, outlived, pending>> BY <1>12 DEF CommandEnds
  <2>2. PICK r \in running[w] : running' = [running EXCEPT ![w] = @ \ {r}] BY <1>12 DEF CommandEnds
  <2>3. \A v \in Windows : running'[v] \subseteq running[v] BY <1>1, <2>2
  <2>4. \A v \in Windows : \A x \in running'[v] : \E s \in running[v] :
          s.relay = x.relay /\ s.request = x.request /\ s.conn = x.conn /\ s.aborted = x.aborted
    BY <2>3
  <2> QED BY <1>9, <2>1, <2>4
<1>13. ASSUME NEW q \in Requests, CliRequest(q) PROVE WritesFit'
  <2> DEFINE w == Resolve(Wants[q])
  <2>0. w \in Windows \cup {None} BY <1>1, BridgeAssumption DEF BridgeTypeOK, Resolve
  <2>1. UNCHANGED <<sock, handle, running, outlived>> BY <1>13 DEF CliRequest
  <2>2. CASE Refuse(q)
    <3>1. UNCHANGED <<sock, toExt, handle, lock, outlived, pending, running>> BY <2>1, <2>2 DEF Refuse
    <3> QED BY <1>9, <1>f, <3>1
  <2> HIDE DEF w
  <2>3. CASE /\ w \in Windows /\ IsOpen(handle[w]) /\ Forward(q, w)
             /\ \/ ~Writes(q) /\ UNCHANGED lock
                \/ lock[w] \in {None, Issuer[q]} /\ lock' = [lock EXCEPT ![w] = Issuer[q]]
    BY <2>1, <2>3, WritesForwarded
  <2> QED BY <1>13, <2>0, <2>2, <2>3 DEF CliRequest, w, Locked, Writes
<1>14. ASSUME NEW c \in Clis, CliDisconnects(c) PROVE WritesFit' BY <1>14, WritesOfGone
<1>15. CASE ServerRestarts
  <2>1. serverLives' = serverLives + 1 /\ serverLives \in Nat BY <1>15 DEF ServerRestarts, BridgeTypeOK
  <2> QED BY <2>1
<1>16. CASE UNCHANGED bridgeVars BY <1>9, <1>16, <1>f DEF bridgeVars
<1> QED
  BY <1>2, <1>3, <1>4, <1>5, <1>6, <1>7, <1>s, <1>8, <1>10, <1>11, <1>t, <1>12, <1>13, <1>14, <1>15, <1>16 DEF BridgeNext, BridgeProgress

-----------------------------------------------------------------------------
(* Answers *)

\* Every step answers a request with its own result, while the server lives.
LEMMA OwnAnswersStay ==
  ASSUME BridgeTypeOK, BridgeTypeOK', RelaysFit, OwnAnswers, [BridgeNext]_bridgeVars, serverLives' = serverLives
  PROVE  OwnAnswers'
<1> USE DEF sockVars, serverVars, cliVars, windowVars
<1>1. /\ toServer \in [Sockets -> Seq(FromExtension)] /\ answer \in [Requests -> Requests \cup {None, "waiting", "failed"}]
      /\ pending \subseteq Waiters
  BY DEF BridgeTypeOK
<1>2. "waiting" \notin Requests /\ "failed" \notin Requests BY BridgeAssumption
<1>3. ASSUME NEW n \in Sockets, ServerReceives(n), Head(toServer[n]).type = "response" PROVE OwnAnswers'
  <2>1. PICK m \in FromExtension : m = Head(toServer[n]) /\ toServer[n] # <<>> BY <1>1, <1>3 DEF ServerReceives
  <2>2. m \in AnsweredIn(toServer[n]) BY <1>1, <1>3, <2>1, QueueTaken
  <2>3. HandleResponse(m) BY <1>3, <2>1 DEF ServerReceives
  <2>4. UNCHANGED answer \/ \E p \in pending : p.relay = m.relay /\
          (answer' = [answer EXCEPT ![p.request] = m.request] \/ answer' = [answer EXCEPT ![p.request] = "failed"])
    BY <2>3 DEF HandleResponse
  <2>5. \A p \in pending : p.relay = m.relay => p.request = m.request /\ p.request \in Requests
    BY <1>1, <2>2 DEF RelaysFit, AnswerFits, Waiters
  <2> QED BY <1>1, <1>2, <2>4, <2>5 DEF OwnAnswers
<1>4. ASSUME NEW n \in Sockets, ServerReceives(n), Head(toServer[n]).type # "response" PROVE OwnAnswers'
  <2>1. PICK m \in FromExtension : m = Head(toServer[n]) /\ toServer[n] # <<>> BY <1>1, <1>4 DEF ServerReceives
  <2>2. m.type \in {"register", "final", "changed"} BY <1>4, <2>1 DEF FromExtension
  <2>3. UNCHANGED answer BY <1>4, <2>1, <2>2 DEF ServerReceives
  <2> QED BY <2>3 DEF OwnAnswers
<1>5. ASSUME NEW n \in Sockets, ExtensionDisconnected(n) PROVE OwnAnswers'
  <2>1. \A q \in Requests : answer'[q] = answer[q] \/ answer'[q] = "failed" BY <1>1, <1>5 DEF ExtensionDisconnected
  <2> QED BY <1>2, <2>1 DEF OwnAnswers
<1>6. ASSUME NEW q \in Requests, CliRequest(q) PROVE OwnAnswers'
  <2>1. answer' = [answer EXCEPT ![q] = "waiting"] \/ answer' = [answer EXCEPT ![q] = "failed"]
    BY <1>6 DEF CliRequest, Refuse, Forward
  <2> QED BY <1>1, <1>2, <2>1 DEF OwnAnswers
<1>7. CASE UNCHANGED answer BY <1>7 DEF OwnAnswers
<1>8. CASE ServerRestarts
  <2>1. serverLives' = serverLives + 1 /\ serverLives \in Nat BY <1>8 DEF ServerRestarts, BridgeTypeOK
  <2> QED BY <2>1
<1> QED
  BY <1>3, <1>4, <1>5, <1>6, <1>7, <1>8
  DEF BridgeNext, BridgeProgress, bridgeVars, CloseFrame, ClientConnects, WindowReceives, RecordingBegins, CommandEnds,
      ClientCloses, RecordingEnds, SessionChanges, CliDisconnects

-----------------------------------------------------------------------------
(* The invariant is inductive *)

\* At the start nothing is connected, sent or awaited.
LEMMA BridgeBegins == BridgeInit => BridgeInv
<1> SUFFICES ASSUME BridgeInit PROVE BridgeInv
  OBVIOUS
<1>1. /\ sock = [n \in Sockets |-> [window |-> None, side |-> None, open |-> FALSE]]
      /\ toServer = [n \in Sockets |-> <<>>] /\ toExt = [n \in Sockets |-> <<>>]
      /\ handle = [w \in Windows |-> 0] /\ handleOrder = <<>> /\ activeKey = None
      /\ lock = [w \in Windows |-> None]
      /\ pending = {} /\ nextRelay = 1 /\ leases = {} /\ serverLives = 1
      /\ answer = [q \in Requests |-> None]
      /\ client = [w \in Windows |-> 0] /\ running = [w \in Windows |-> {}]
      /\ recordings = [w \in Windows |-> {}]
  BY DEF BridgeInit
<1>2. \A n \in Sockets : toServer[n] = <<>> /\ toExt[n] = <<>> BY <1>1
<1>3. \A w \in Windows : handle[w] = 0 /\ client[w] = 0 /\ running[w] = {} BY <1>1
<1>4. BridgeTypeOK
  <2>1. sock \in [Sockets -> SocketStates]
    <3>1. [window |-> None, side |-> None, open |-> FALSE] \in SocketStates BY DEF SocketStates
    <3> QED BY <1>1, <3>1
  <2>2. toExt \in [Sockets -> Seq(ToExtension)] /\ toServer \in [Sockets -> Seq(FromExtension)]
    <3>1. <<>> \in Seq(ToExtension) /\ <<>> \in Seq(FromExtension) OBVIOUS
    <3> QED BY <1>1, <3>1
  <2>3. handleOrder \in Seq(Windows)
    <3>1. <<>> \in Seq(Windows) OBVIOUS
    <3> QED BY <1>1, <3>1
  <2>4. IsFiniteSet({}) BY FS_EmptySet
  <2>5. handle \in [Windows -> Sockets \cup {0}] /\ client \in [Windows -> Sockets \cup {0}]
        /\ running \in [Windows -> SUBSET Commands] /\ lock \in [Windows -> Clis \cup {None}]
        /\ answer \in [Requests -> Requests \cup {None, "waiting", "failed"}]
    BY <1>1
  <2>6. recordings \in [Windows -> SUBSET Requests] /\ \A w \in Windows : IsFiniteSet(recordings[w]) BY <1>1, <2>4
  <2>7. nextRelay \in Nat /\ serverLives \in Nat \ {0} /\ activeKey \in Windows \cup {None} BY <1>1
  <2>8. pending \subseteq Waiters /\ IsFiniteSet(pending) /\ IsFiniteSet(leases)
        /\ leases \subseteq [recording : Requests, cli : Clis, window : Windows]
    BY <1>1, <2>4
  <2> QED BY <2>1, <2>2, <2>3, <2>5, <2>6, <2>7, <2>8 DEF BridgeTypeOK
<1>5. DOMAIN <<>> = {} OBVIOUS
<1>6. \A n \in Sockets : AskedIn(toExt[n]) = {} /\ AnsweredIn(toServer[n]) = {}
  BY <1>2, <1>5 DEF AskedIn, AnsweredIn
<1>7. \A n \in Sockets : \A i \in Nat : ~AskAt(toExt[n], i) BY <1>2, <1>5 DEF AskAt
<1>8. SocketsFit
  BY <1>1, <1>2, <1>3, <1>5 DEF SocketsFit, HandlesFit, ClientsFit, QuietBefore, RegistersOnce, ConnsFit
<1>9. RelaysFit BY <1>1, <1>3, <1>6 DEF RelaysFit
<1>10. AskedOnce BY <1>7 DEF AskedOnce
<1>11. RunOnce BY <1>3 DEF RunOnce
<1>12. WritesFit BY <1>1, <1>3, <1>7 DEF WritesFit, WritersHoldLocks, AbortsOwed, WritersApart, OneWriterActs, WriteAt
<1>13. OwnAnswers BY <1>1, BridgeAssumption DEF OwnAnswers, None
<1> QED BY <1>4, <1>8, <1>9, <1>10, <1>11, <1>12, <1>13 DEF BridgeInv, BridgeLive

\* The invariant is inductive; what it says of a server that lives ends with that server, whose
\* successor counts from the same first number (nextRelayRequestId).
LEMMA BridgeInductive ==
  ASSUME BridgeInv, [BridgeNext]_bridgeVars
  PROVE  BridgeInv'
<1>1. BridgeTypeOK' BY BridgeTypes DEF BridgeInv
<1>2. serverLives' = serverLives \/ (serverLives' = serverLives + 1 /\ serverLives \in Nat \ {0})
  BY DEF BridgeInv, BridgeTypeOK, BridgeNext, BridgeProgress, bridgeVars, sockVars, serverVars, cliVars, windowVars,
         CloseFrame, ExtensionDisconnected, ServerReceives, ClientConnects, WindowReceives, RecordingBegins, CommandEnds,
         ClientCloses, RecordingEnds, SessionChanges, CliDisconnects, CliRequest, ServerRestarts
<1>3. CASE serverLives' = serverLives /\ serverLives = 1
  <2>1. BridgeTypeOK /\ SocketsFit /\ RelaysFit /\ AskedOnce /\ RunOnce /\ WritesFit /\ OwnAnswers
    BY <1>3 DEF BridgeInv, BridgeLive
  <2>2. SocketsFit' BY <1>1, <1>3, <2>1, SocketsStay
  <2>3. RelaysFit' /\ AskedOnce' /\ RunOnce' BY <1>1, <1>3, <2>1, RelaysStay
  <2>4. WritesFit' BY <1>1, <1>3, <2>1, WritesStay
  <2>5. OwnAnswers' BY <1>1, <1>3, <2>1, OwnAnswersStay
  <2> QED BY <1>1, <2>2, <2>3, <2>4, <2>5 DEF BridgeInv, BridgeLive
<1>4. CASE serverLives' # 1 BY <1>1, <1>4 DEF BridgeInv
<1>5. serverLives' # 1 \/ (serverLives' = serverLives /\ serverLives = 1) BY <1>2
<1> QED BY <1>3, <1>4, <1>5

\* Two CLIs never have writes that run in one window, unless one was aborted, the window has
\* connected anew between them, or a change of session took the lock of one while its write was
\* under way: for any CLIs, windows, requests and sessions (acquire, handleDisconnect,
\* releaseForSessionChange).
THEOREM OneWriterAtATime == BridgeSpec => []WritersExclude
<1>1. BridgeInv => WritersExclude
  BY DEF BridgeInv, BridgeLive, WritesFit, OneWriterActs, WritersExclude, Writes
<1> QED BY <1>1, BridgeBegins, BridgeInductive, PTL DEF BridgeSpec

\* A request that is answered with a result got its own: for any connections that are replaced or
\* lost, as long as the server has not been restarted (handleExtensionResponse, nextRelayRequestId).
THEOREM AnswersAreOwn == BridgeSpec => []OwnAnswersOneServer
<1>1. BridgeInv => OwnAnswersOneServer BY DEF BridgeInv, BridgeLive, OwnAnswersOneServer
<1> QED BY <1>1, BridgeBegins, BridgeInductive, PTL DEF BridgeSpec
-----------------------------------------------------------------------------
(* Whoever waits is served *)

\* A window has one open connection, that of its client; a number is one request's.
OpenIsClients == \A n \in Sockets : sock[n].open => client[sock[n].window] = n
RelaysUnique ==
  /\ \A p \in pending : p.relay < nextRelay
  /\ \A p, s \in pending : p.relay = s.relay => p = s
\* What is waited for is known to the server and will come.
AllServed == \A p \in pending : Served(p)
\* Who asked something has connected; the server knows, once, what those who are connected wait for.
RequestsFit ==
  /\ cli \in [Clis -> {"away", "connected", "gone"}]
  /\ \A q \in Requests : answer[q] # None => cli[Issuer[q]] # "away"
  /\ \A p \in pending : answer[p.request] = "waiting" /\ cli[Issuer[p.request]] = "connected"
  /\ \A p, s \in pending : p.request = s.request => p = s
  /\ \A q \in Requests : answer[q] = "waiting" /\ cli[Issuer[q]] = "connected" => \E p \in pending : p.request = q
WaitInv == BridgeTypeOK /\ RequestsFit /\ SocketsFit /\ OpenIsClients /\ RelaysUnique /\ AllServed

\* Connections are in order also when the server ends, which closes all of them.
LEMMA SocketsAlways ==
  ASSUME BridgeTypeOK, BridgeTypeOK', SocketsFit, [BridgeNext]_bridgeVars
  PROVE  SocketsFit'
<1>1. CASE ServerRestarts
  <2>1. /\ sock' = [n \in Sockets |-> IF sock[n].side = None THEN sock[n]
                                      ELSE [sock[n] EXCEPT !.side = "closed", !.open = FALSE]]
        /\ toServer' = [n \in Sockets |-> <<>>] /\ toExt' = [n \in Sockets |-> <<>>]
        /\ handle' = [w \in Windows |-> 0] /\ pending' = {} /\ UNCHANGED <<client, running>>
    BY <1>1 DEF ServerRestarts, windowVars
  <2>2. sock \in [Sockets -> SocketStates] /\ client \in [Windows -> Sockets \cup {0}] /\ running \in [Windows -> SUBSET Commands]
    BY DEF BridgeTypeOK
  <2>3. \A n \in Sockets : /\ sock'[n].window = sock[n].window /\ ~sock'[n].open
                           /\ sock'[n].side \in {sock[n].side, "closed"} /\ (sock[n].side # None => sock'[n].side = "closed")
    <3> SUFFICES ASSUME NEW n \in Sockets
                 PROVE  /\ sock'[n].window = sock[n].window /\ ~sock'[n].open
                        /\ sock'[n].side \in {sock[n].side, "closed"} /\ (sock[n].side # None => sock'[n].side = "closed")
      OBVIOUS
    <3>1. sock[n] \in SocketStates BY <2>2
    <3>2. CASE sock[n].side = None
      <4>1. ~sock[n].open BY <3>1, <3>2, SocketState
      <4> QED BY <2>1, <3>2, <4>1
    <3>3. CASE sock[n].side # None
      <4>1. sock'[n] = [sock[n] EXCEPT !.side = "closed", !.open = FALSE] BY <2>1, <3>3
      <4>2. sock'[n].window = sock[n].window /\ ~sock'[n].open /\ sock'[n].side = "closed"
        BY <3>1, <4>1 DEF SocketStates
      <4> QED BY <4>2
    <3> QED BY <3>2, <3>3
  <2>4. \A n \in Sockets : Unregistered(n)' => Unregistered(n) BY <2>3 DEF Unregistered, None
  <2>5. DOMAIN <<>> = {} OBVIOUS
  <2>6. HandlesFit' BY <2>1 DEF HandlesFit
  <2>7. ClientsFit' BY <2>1, <2>2, <2>3 DEF SocketsFit, ClientsFit
  <2>8. QuietBefore' BY <2>1, <2>4 DEF SocketsFit, QuietBefore
  <2>9. RegistersOnce' BY <2>1, <2>5 DEF RegistersOnce
  <2>10. ConnsFit'
    <3>1. \A w \in Windows : \A r \in running[w] : r.conn \in Sockets /\ sock[r.conn].window = w
      BY <2>2 DEF SocketsFit, ConnsFit, Commands
    <3> QED BY <2>1, <2>3, <3>1 DEF ConnsFit
  <2> QED BY <2>6, <2>7, <2>8, <2>9, <2>10 DEF SocketsFit
<1>2. CASE ~ServerRestarts
  <2>1. serverLives' = serverLives
    BY <1>2 DEF BridgeNext, BridgeProgress, bridgeVars, sockVars, serverVars, cliVars, windowVars,
         CloseFrame, ExtensionDisconnected, ServerReceives, ClientConnects, WindowReceives, RecordingBegins, CommandEnds,
         ClientCloses, RecordingEnds, SessionChanges, CliDisconnects, CliRequest
  <2> QED BY <2>1, SocketsStay
<1> QED BY <1>1, <1>2

\* What becomes of a connection: its client or the end of the server closes it, the server notices.
LEMMA ConnectionsChange ==
  ASSUME BridgeTypeOK, [BridgeNext]_bridgeVars, ~\E w \in Windows : ClientConnects(w)
  PROVE  \A k \in Sockets :
           /\ sock'[k].open => sock[k].open
           /\ sock'[k].window = sock[k].window
           /\ sock[k].side # None => sock'[k].side # None
<1> SUFFICES ASSUME NEW k \in Sockets
             PROVE  /\ sock'[k].open => sock[k].open
                    /\ sock'[k].window = sock[k].window
                    /\ sock[k].side # None => sock'[k].side # None
  OBVIOUS
<1>1. sock \in [Sockets -> SocketStates] BY DEF BridgeTypeOK
<1>2. sock[k] \in SocketStates BY <1>1
<1>3. /\ [sock[k] EXCEPT !.open = FALSE].open = FALSE /\ [sock[k] EXCEPT !.open = FALSE].window = sock[k].window
      /\ [sock[k] EXCEPT !.open = FALSE].side = sock[k].side
      /\ [sock[k] EXCEPT !.side = "closed", !.open = FALSE].open = FALSE
      /\ [sock[k] EXCEPT !.side = "closed", !.open = FALSE].window = sock[k].window
      /\ [sock[k] EXCEPT !.side = "closed", !.open = FALSE].side = "closed"
  BY <1>2 DEF SocketStates
<1>4. \A side : /\ [sock[k] EXCEPT !.side = side].open = sock[k].open
                /\ [sock[k] EXCEPT !.side = side].window = sock[k].window
                /\ [sock[k] EXCEPT !.side = side].side = side
  BY <1>2 DEF SocketStates
<1>5. "closed" # None /\ \A side \in Sides : side # None BY DEF Sides, None
<1> DEFINE Closes == sock'[k] \in {sock[k], [sock[k] EXCEPT !.open = FALSE],
                                   [sock[k] EXCEPT !.side = "closed", !.open = FALSE]}
           Moves == \E side \in Sides : sock'[k] = [sock[k] EXCEPT !.side = side]
<1>6. Closes \/ Moves
  <2>1. CASE UNCHANGED sock BY <2>1
  <2>2. ASSUME NEW w \in Windows, ClientCloses(w) PROVE Closes
    BY <1>1, <2>2 DEF ClientCloses
  <2>3. ASSUME NEW n \in Sockets, CloseFrame(n) \/ ExtensionDisconnected(n) PROVE Closes \/ Moves
    BY <1>1, <2>3 DEF CloseFrame, ExtensionDisconnected, Sides
  <2>4. ASSUME NEW n \in Sockets, HandleRegistration(n) PROVE Closes \/ Moves
    BY <2>4 DEF HandleRegistration, Sides
  <2>5. CASE ServerRestarts BY <2>5 DEF ServerRestarts
  <2>6. ASSUME NEW n \in Sockets, ServerReceives(n) PROVE UNCHANGED sock \/ HandleRegistration(n)
    <3>1. Head(toServer[n]) \in FromExtension BY <2>6 DEF ServerReceives, BridgeTypeOK
    <3>2. Head(toServer[n]).type \in {"register", "response", "final", "changed"} BY <3>1 DEF FromExtension
    <3> QED BY <2>6, <3>2 DEF ServerReceives
  <2> QED
    BY <2>1, <2>2, <2>3, <2>4, <2>5, <2>6
       DEF BridgeNext, BridgeProgress, bridgeVars, sockVars, WindowReceives, RecordingBegins, CommandEnds,
           RecordingEnds, SessionChanges, CliDisconnects, CliRequest
<1> QED
  <2>1. CASE Closes
    <3> HIDE DEF Moves
    <3> QED BY <1>3, <1>5, <2>1
  <2>2. CASE Moves
    <3> HIDE DEF Closes
    <3> QED BY <1>4, <1>5, <2>2
  <2> QED BY <1>6, <2>1, <2>2

\* The client has one connection at a time (doConnect), and only it and the end of the server close one.
LEMMA OpenStays ==
  ASSUME BridgeTypeOK, SocketsFit, OpenIsClients, [BridgeNext]_bridgeVars
  PROVE  OpenIsClients'
<1>1. /\ sock \in [Sockets -> SocketStates] /\ client \in [Windows -> Sockets \cup {0}] /\ 0 \notin Sockets
  BY DEF BridgeTypeOK, Sockets
<1>2. CASE \E w \in Windows : ClientConnects(w)
  <2>1. PICK w \in Windows : ClientConnects(w) BY <1>2
  <2>2. PICK n \in Sockets :
           /\ sock' = [sock EXCEPT ![n] = [window |-> w, side |-> "open", open |-> TRUE]]
           /\ client' = [client EXCEPT ![w] = n]
    BY <2>1 DEF ClientConnects
  <2>3. sock'[n].window = w /\ \A k \in Sockets \ {n} : sock'[k] = sock[k] BY <1>1, <2>2
  <2>4. client'[w] = n /\ \A v \in Windows \ {w} : client'[v] = client[v] BY <1>1, <2>2
  <2>5. ASSUME NEW k \in Sockets, sock'[k].open PROVE client'[sock'[k].window] = k
    <3>1. CASE k = n BY <2>3, <2>4, <3>1
    <3>2. CASE k # n
      <4>1. sock[k].open /\ client[sock[k].window] = k BY <2>3, <2>5, <3>2 DEF OpenIsClients
      <4>2. sock[k].window \in Windows
        <5>1. sock[k] \in SocketStates BY <1>1
        <5> QED BY <4>1, <5>1, SocketState
      <4>3. sock[k].window # w BY <1>1, <2>1, <4>1 DEF ClientConnects, ClientOpen
      <4> QED BY <2>3, <2>4, <3>2, <4>1, <4>2, <4>3
    <3> QED BY <3>1, <3>2
  <2> QED BY <2>5 DEF OpenIsClients
<1>3. CASE ~\E w \in Windows : ClientConnects(w)
  <2>1. client' = client
    BY <1>3 DEF BridgeNext, BridgeProgress, bridgeVars, sockVars, serverVars, cliVars, windowVars,
         CloseFrame, ExtensionDisconnected, ServerReceives, WindowReceives, RecordingBegins, CommandEnds,
         ClientCloses, RecordingEnds, SessionChanges, CliDisconnects, CliRequest, ServerRestarts
  <2>2. \A k \in Sockets : sock'[k].open => sock[k].open /\ sock'[k].window = sock[k].window
    BY <1>3, ConnectionsChange
  <2> QED BY <2>1, <2>2 DEF OpenIsClients
<1> QED BY <1>2, <1>3

\* A request that is forwarded has a number of its own, larger than all before (nextRelayRequestId).
LEMMA NumbersStay ==
  ASSUME BridgeTypeOK, RelaysUnique, [BridgeNext]_bridgeVars
  PROVE  RelaysUnique'
<1>1. nextRelay \in Nat /\ pending \subseteq Waiters BY DEF BridgeTypeOK
<1>2. CASE pending' \subseteq pending /\ nextRelay' >= nextRelay /\ nextRelay' \in Nat
  <2>1. \A p \in pending : p.relay \in Nat BY <1>1 DEF Waiters
  <2> QED BY <1>1, <1>2, <2>1 DEF RelaysUnique
<1>3. ASSUME NEW q \in Requests, NEW w, Forward(q, w) PROVE RelaysUnique'
  <2> DEFINE p == [relay |-> nextRelay, request |-> q, window |-> w, conn |-> handle[w]]
  <2>1. pending' = pending \cup {p} /\ nextRelay' = nextRelay + 1 BY <1>3 DEF Forward
  <2>2. p.relay = nextRelay OBVIOUS
  <2> HIDE DEF p
  <2>3. \A s \in pending : s.relay \in Nat /\ s.relay < nextRelay BY <1>1 DEF RelaysUnique, Waiters
  <2> QED BY <1>1, <2>1, <2>2, <2>3 DEF RelaysUnique
<1>4. ASSUME NEW c \in Clis, CliDisconnects(c) PROVE RelaysUnique'
  <2> DEFINE s == {l \in leases : l.cli = c /\ IsOpen(handle[l.window])}
  <2>1. IsFiniteSet(s) BY FS_Subset DEF BridgeTypeOK
  <2>2. Cardinality(s) \in Nat BY <2>1, FS_CardinalityType
  <2>3. nextRelay' = nextRelay + Cardinality(s) /\ pending' \subseteq pending BY <1>4 DEF CliDisconnects
  <2> HIDE DEF s
  <2>4. nextRelay' >= nextRelay /\ nextRelay' \in Nat BY <1>1, <2>2, <2>3
  <2> QED BY <1>2, <2>3, <2>4
<1>5. CASE ServerRestarts BY <1>5 DEF ServerRestarts, RelaysUnique
<1>6. ASSUME NEW n \in Sockets, ExtensionDisconnected(n) PROVE RelaysUnique'
  BY <1>1, <1>2, <1>6 DEF ExtensionDisconnected, serverVars
<1>7. ASSUME NEW n \in Sockets, ServerReceives(n) PROVE RelaysUnique'
  <2>1. Head(toServer[n]) \in FromExtension BY <1>7 DEF ServerReceives, BridgeTypeOK
  <2>2. Head(toServer[n]).type \in {"register", "response", "final", "changed"} BY <2>1 DEF FromExtension
  <2>3. HandleResponse(Head(toServer[n])) => pending' \subseteq pending BY DEF HandleResponse
  <2>4. pending' \subseteq pending BY <1>7, <2>2, <2>3 DEF ServerReceives
  <2>5. nextRelay' = nextRelay BY <1>7 DEF ServerReceives
  <2> QED BY <1>1, <1>2, <2>4, <2>5
<1>8. ASSUME NEW q \in Requests, CliRequest(q) PROVE RelaysUnique'
  <2>1. CASE Refuse(q) BY <1>1, <1>2, <2>1 DEF Refuse
  <2>2. CASE ~Refuse(q) BY <1>3, <1>8, <2>2 DEF CliRequest
  <2> QED BY <2>1, <2>2
<1>9. CASE UNCHANGED <<pending, nextRelay>> BY <1>1, <1>2, <1>9
<1> QED
  BY <1>4, <1>5, <1>6, <1>7, <1>8, <1>9
     DEF BridgeNext, BridgeProgress, bridgeVars, sockVars, serverVars, cliVars, windowVars,
         CloseFrame, ClientConnects, WindowReceives, RecordingBegins, CommandEnds, ClientCloses, RecordingEnds, SessionChanges

\* A CLI connects with its first request and leaves once; the server forgets a request by answering
\* it, by failing it with its window, or with the CLI (handleExtensionResponse, handleDisconnect).
LEMMA RequestsStay ==
  ASSUME BridgeTypeOK, RequestsFit, [BridgeNext]_bridgeVars
  PROVE  RequestsFit'
<1>1. /\ answer \in [Requests -> Requests \cup {None, "waiting", "failed"}] /\ pending \subseteq Waiters
      /\ Issuer \in [Requests -> Clis] /\ cli \in [Clis -> {"away", "connected", "gone"}]
      /\ None # "waiting" /\ "waiting" \notin Requests
  BY BridgeAssumption DEF BridgeTypeOK, RequestsFit, None
<1>2. \A p \in pending : p.request \in Requests BY <1>1 DEF Waiters
<1>3. ASSUME NEW q \in Requests, CliRequest(q) PROVE RequestsFit'
  <2>1. cli' = [cli EXCEPT ![Issuer[q]] = "connected"] /\ cli[Issuer[q]] # "gone" /\ answer[q] = None
    BY <1>3 DEF CliRequest
  <2>2. Issuer[q] \in Clis /\ \A r \in Requests : Issuer[r] \in Clis BY <1>1
  <2>3. cli' \in [Clis -> {"away", "connected", "gone"}] /\ cli'[Issuer[q]] = "connected"
        /\ \A c \in Clis \ {Issuer[q]} : cli'[c] = cli[c]
    BY <1>1, <2>1, <2>2
  <2>4. \A r \in Requests : answer[r] # None => cli'[Issuer[r]] = cli[Issuer[r]]
    BY <1>1, <2>1, <2>2, <2>3 DEF RequestsFit
  <2>5. CASE Refuse(q)
    <3>1. answer' = [answer EXCEPT ![q] = "failed"] /\ pending' = pending BY <2>5 DEF Refuse
    <3>2. answer'[q] = "failed" /\ \A r \in Requests \ {q} : answer'[r] = answer[r] BY <1>1, <3>1
    <3>3. \A p \in pending : p.request # q BY <1>1, <2>1 DEF RequestsFit
    <3> QED BY <1>1, <1>2, <2>2, <2>3, <2>4, <3>1, <3>2, <3>3 DEF RequestsFit
  <2>6. CASE ~Refuse(q)
    <3> DEFINE w == Resolve(Wants[q])
               p == [relay |-> nextRelay, request |-> q, window |-> w, conn |-> handle[w]]
    <3>1. answer' = [answer EXCEPT ![q] = "waiting"] /\ pending' = pending \cup {p}
      BY <1>3, <2>6 DEF CliRequest, Forward
    <3>2. answer'[q] = "waiting" /\ \A r \in Requests \ {q} : answer'[r] = answer[r] BY <1>1, <3>1
    <3>3. \A s \in pending : s.request # q BY <1>1, <2>1 DEF RequestsFit
    <3>4. p.request = q OBVIOUS
    <3> HIDE DEF p
    <3> QED BY <1>1, <1>2, <2>2, <2>3, <2>4, <3>1, <3>2, <3>3, <3>4 DEF RequestsFit
  <2> QED BY <2>5, <2>6
<1>4. ASSUME NEW c \in Clis, CliDisconnects(c) PROVE RequestsFit'
  <2>1. cli' = [cli EXCEPT ![c] = "gone"] /\ answer' = answer /\ pending' = {p \in pending : Issuer[p.request] # c}
    BY <1>4 DEF CliDisconnects
  <2>2. cli' \in [Clis -> {"away", "connected", "gone"}] /\ cli'[c] = "gone" /\ \A d \in Clis \ {c} : cli'[d] = cli[d]
    BY <1>1, <2>1
  <2>3. \A r \in Requests : Issuer[r] \in Clis BY <1>1
  <2> QED BY <1>2, <2>1, <2>2, <2>3 DEF RequestsFit
<1>5. CASE ServerRestarts
  <2>1. cli' = [c \in Clis |-> IF cli[c] = "connected" THEN "gone" ELSE cli[c]] /\ answer' = answer /\ pending' = {}
    BY <1>5 DEF ServerRestarts
  <2>2. cli' \in [Clis -> {"away", "connected", "gone"}]
        /\ \A d \in Clis : cli'[d] # "connected" /\ (cli[d] # "away" => cli'[d] # "away")
    BY <1>1, <2>1
  <2>3. \A r \in Requests : Issuer[r] \in Clis BY <1>1
  <2> QED BY <2>1, <2>2, <2>3 DEF RequestsFit
<1>6. ASSUME NEW n \in Sockets, ExtensionDisconnected(n) PROVE RequestsFit'
  <2>1. CASE handle[sock[n].window] # n
    BY <1>6, <2>1 DEF ExtensionDisconnected, serverVars, RequestsFit
  <2>2. CASE handle[sock[n].window] = n
    <3> DEFINE ended == Ended(sock[n].window)
    <3>1. /\ cli' = cli /\ pending' = pending \ ended
          /\ answer' = [q \in Requests |->
               IF Fails(q) /\ \E p \in ended : p.request = q THEN "failed" ELSE answer[q]]
      BY <1>6, <2>2 DEF ExtensionDisconnected
    <3>2. ended \subseteq pending BY DEF Ended
    <3> HIDE DEF ended
    <3>3. \A p \in ended : p.request \in Requests /\ answer'[p.request] = "failed"
      BY <1>2, <3>1, <3>2 DEF RequestsFit, Fails
    <3>4. \A q \in Requests : answer'[q] = answer[q] \/ \E p \in ended : p.request = q BY <3>1
    <3>5. \A p \in pending' : p \in pending /\ p.request \in Requests /\ \A s \in ended : s.request # p.request
      BY <1>2, <3>1, <3>2 DEF RequestsFit
    <3>6. \A p \in pending' : answer'[p.request] = answer[p.request] BY <3>4, <3>5
    <3>7. \A q \in Requests : answer'[q] = "waiting" => answer[q] = "waiting" /\ \A p \in ended : p.request # q
      BY <3>3, <3>4
    <3>8. \A q \in Requests : answer'[q] # None => answer[q] # None
      BY <1>1, <3>2, <3>4 DEF RequestsFit
    <3> QED BY <3>1, <3>5, <3>6, <3>7, <3>8 DEF RequestsFit
  <2> QED BY <2>1, <2>2
<1>7. ASSUME NEW n \in Sockets, ServerReceives(n) PROVE RequestsFit'
  <2> DEFINE m == Head(toServer[n])
  <2>1. cli' = cli BY <1>7 DEF ServerReceives
  <2>2. CASE UNCHANGED <<answer, pending>> BY <2>1, <2>2 DEF RequestsFit
  <2>3. CASE ~UNCHANGED <<answer, pending>>
    <3>1. m \in FromExtension BY <1>7 DEF ServerReceives, BridgeTypeOK
    <3>2. m.type \in {"register", "response", "final", "changed"} BY <3>1 DEF FromExtension
    <3>3. HandleResponse(m) /\ m.type = "response" BY <1>7, <2>3, <3>2 DEF ServerReceives
    <3>4. m.request \in Requests BY <3>1, <3>3 DEF FromExtension
    <3> HIDE DEF m
    <3>5. PICK p \in pending :
            /\ pending' = pending \ {p}
            /\ answer' = [answer EXCEPT ![p.request] = m.request] \/ answer' = [answer EXCEPT ![p.request] = "failed"]
      BY <2>3, <3>3 DEF HandleResponse
    <3>6. answer'[p.request] \in {m.request, "failed"} /\ \A r \in Requests \ {p.request} : answer'[r] = answer[r]
      BY <1>1, <1>2, <3>5
    <3>7. answer'[p.request] # "waiting" BY <1>1, <3>4, <3>6
    <3> QED BY <1>1, <1>2, <2>1, <3>5, <3>6, <3>7 DEF RequestsFit
  <2> QED BY <2>2, <2>3
<1>8. CASE UNCHANGED <<cli, answer, pending>> BY <1>8 DEF RequestsFit
<1> QED
  BY <1>3, <1>4, <1>5, <1>6, <1>7, <1>8
     DEF BridgeNext, BridgeProgress, bridgeVars, cliVars, serverVars,
         CloseFrame, ClientConnects, WindowReceives, RecordingBegins, CommandEnds, ClientCloses, RecordingEnds, SessionChanges

\* What is put after a queue leaves what was in it.
LEMMA QueuesGrow ==
  ASSUME BridgeTypeOK
  PROVE  /\ \A n \in Sockets, s \in Seq(ToExtension) : \A relay :
              InQueue(n, relay) /\ toExt'[n] = toExt[n] \o s => InQueue(n, relay)'
         /\ \A k \in Sockets, s \in Seq(FromExtension) : \A x :
              (\E i \in DOMAIN toServer[k] : toServer[k][i] = x) /\ toServer'[k] = toServer[k] \o s
                => \E i \in DOMAIN toServer'[k] : toServer'[k][i] = x
<1>1. ASSUME NEW n \in Sockets, NEW s \in Seq(ToExtension), NEW relay, InQueue(n, relay), toExt'[n] = toExt[n] \o s
      PROVE  InQueue(n, relay)'
  <2>1. toExt[n] \in Seq(ToExtension) BY DEF BridgeTypeOK
  <2>2. \A i \in DOMAIN toExt[n] : i \in DOMAIN toExt'[n] /\ toExt'[n][i] = toExt[n][i] BY <1>1, <2>1, QueueGrows
  <2> QED BY <1>1, <2>2 DEF InQueue
<1>2. ASSUME NEW k \in Sockets, NEW s \in Seq(FromExtension), NEW i \in DOMAIN toServer[k], toServer'[k] = toServer[k] \o s
      PROVE  i \in DOMAIN toServer'[k] /\ toServer'[k][i] = toServer[k][i]
  <2>1. toServer[k] \in Seq(FromExtension) BY DEF BridgeTypeOK
  <2> QED BY <1>2, <2>1, QueueGrows
<1> QED BY <1>1, <1>2

\* A step leaves the answers to a request in the queues of connections that the server still reads.
AnswersAreKept(w, relay) ==
  \A k \in Sockets : sock[k].window = w /\ sock[k].side \in {"open", "registered", "closing"} =>
    /\ sock'[k].window = w
    /\ sock'[k].side \in {"open", "registered", "closing"} \/ toServer[k] = <<>>
    /\ \A i \in DOMAIN toServer[k] : toServer[k][i].type = "response" /\ toServer[k][i].relay = relay =>
         \E j \in DOMAIN toServer'[k] : toServer'[k][j] = toServer[k][i]

\* An answer that is on its way stays so while its connection does.
LEMMA AnswersRemain ==
  ASSUME NEW w, NEW relay, OnItsWay(w, relay), AnswersAreKept(w, relay)
  PROVE  OnItsWay(w, relay)'
<1>1. PICK k \in Sockets : /\ sock[k].window = w /\ sock[k].side \in {"open", "registered", "closing"}
                           /\ \E i \in DOMAIN toServer[k] : toServer[k][i].type = "response" /\ toServer[k][i].relay = relay
  BY DEF OnItsWay
<1>2. PICK i \in DOMAIN toServer[k] : toServer[k][i].type = "response" /\ toServer[k][i].relay = relay BY <1>1
<1>3. toServer[k] # <<>>
  <2>1. DOMAIN <<>> = {} OBVIOUS
  <2> QED BY <2>1
<1>4. \E j \in DOMAIN toServer'[k] : toServer'[k][j] = toServer[k][i] BY <1>1, <1>2 DEF AnswersAreKept
<1>5. sock'[k].window = w /\ sock'[k].side \in {"open", "registered", "closing"} BY <1>1, <1>3 DEF AnswersAreKept
<1> QED BY <1>2, <1>4, <1>5 DEF OnItsWay

\* A window sends: answers on their way stay.
LEMMA SentRemain ==
  ASSUME BridgeTypeOK, UNCHANGED sock, NEW v \in Windows, NEW messages \in Seq(FromExtension), Sent(v, messages),
         NEW w \in Windows, NEW relay, OnItsWay(w, relay)
  PROVE  OnItsWay(w, relay)'
<1>1. \A k \in Sockets : toServer'[k] = toServer[k] \/ toServer'[k] = toServer[k] \o messages BY DEF BridgeTypeOK, Sent
<1>2. ASSUME NEW k \in Sockets, NEW i \in DOMAIN toServer[k]
      PROVE  \E j \in DOMAIN toServer'[k] : toServer'[k][j] = toServer[k][i]
  <2>1. CASE toServer'[k] = toServer[k] BY <2>1
  <2>2. CASE toServer'[k] = toServer[k] \o messages BY <2>2, QueuesGrow
  <2> QED BY <1>1, <2>1, <2>2
<1>3. AnswersAreKept(w, relay) BY <1>2 DEF AnswersAreKept
<1> QED BY <1>3, AnswersRemain

\* What it answers on the connection on which it was asked is on its way (sendResponse).
LEMMA SentArrives ==
  ASSUME BridgeTypeOK, UNCHANGED sock, NEW v \in Windows, NEW r, NEW ok, Response(r, ok) \in FromExtension,
         Sent(v, <<Response(r, ok)>>), ClientOpen(v),
         sock[client[v]].side \in {"open", "registered", "closing"}, sock[client[v]].window = v
  PROVE  OnItsWay(v, r.relay)'
<1> DEFINE k == client[v]
           m == Response(r, ok)
<1>1. k \in Sockets /\ toServer \in [Sockets -> Seq(FromExtension)] BY DEF BridgeTypeOK, ClientOpen
<1>2. toServer'[k] = toServer[k] \o <<m>> BY <1>1 DEF Sent
<1>3. toServer[k] \in Seq(FromExtension) BY <1>1
<1>4. m.type = "response" /\ m.relay = r.relay BY DEF Response
<1> HIDE DEF k, m
<1>5. Len(toServer[k]) + 1 \in DOMAIN toServer'[k] /\ toServer'[k][Len(toServer[k]) + 1] = m
  BY <1>2, <1>3, QueueGrows, MessagePut DEF m
<1> QED BY <1>1, <1>4, <1>5 DEF OnItsWay, k

\* Whatever happens, a request that was served and still waits is served: its question becomes a
\* command or an answer, the command an answer, and all three are lost only with the connection.
LEMMA ServedStays ==
  ASSUME BridgeTypeOK, SocketsFit, OpenIsClients, RelaysUnique, AllServed, [BridgeNext]_bridgeVars,
         NEW p \in pending, p \in pending'
  PROVE  Served(p)'
<1> USE DEF sockVars, serverVars, cliVars, windowVars
<1>1. /\ sock \in [Sockets -> SocketStates] /\ toExt \in [Sockets -> Seq(ToExtension)]
      /\ toServer \in [Sockets -> Seq(FromExtension)] /\ handle \in [Windows -> Sockets \cup {0}] /\ 0 \notin Sockets
      /\ client \in [Windows -> Sockets \cup {0}] /\ running \in [Windows -> SUBSET Commands]
  BY DEF BridgeTypeOK, Sockets
<1>2. /\ p \in Waiters /\ p.window \in Windows /\ p.conn \in Sockets /\ p.relay \in Nat
      /\ Served(p) /\ sock[p.conn].window = p.window /\ ~Unregistered(p.conn)
  BY DEF BridgeTypeOK, Waiters, AllServed, SocketsFit, QuietBefore, ConnsFit
\* As long as its connection stands, it is the client's, and the server reads it.
<1>3. sock[p.conn].open => client[p.window] = p.conn BY <1>2 DEF OpenIsClients
<1>4. handle[p.window] = p.conn => sock[p.conn].side \in {"registered", "closing"} BY <1>1, <1>2 DEF SocketsFit, HandlesFit
<1>5. \A k \in Sockets : sock[k] \in SocketStates BY <1>1
<1>6. \A k \in Sockets : \A side \in Sides :
        /\ [sock[k] EXCEPT !.side = side].open = sock[k].open /\ [sock[k] EXCEPT !.side = side].window = sock[k].window
        /\ [sock[k] EXCEPT !.side = side].side = side
  BY <1>5 DEF SocketStates
<1>7. ASSUME UNCHANGED <<sock, handle, toExt, running>>,
             OnItsWay(p.window, p.relay) => OnItsWay(p.window, p.relay)'
      PROVE  Served(p)'
  BY <1>2, <1>7 DEF Served, InQueue
<1>8. ASSUME NEW w \in Windows, ClientConnects(w) PROVE Served(p)'
  <2>1. PICK n \in Sockets :
           /\ sock[n].side = None /\ sock' = [sock EXCEPT ![n] = [window |-> w, side |-> "open", open |-> TRUE]]
           /\ toServer' = [toServer EXCEPT ![n] = <<[type |-> "register"]>>]
    BY <1>8 DEF ClientConnects
  <2>2. UNCHANGED <<toExt, handle, running>> BY <1>8 DEF ClientConnects
  <2>3. p.conn # n BY <1>2, <2>1 DEF Unregistered
  <2>4. \A k \in Sockets \ {n} : sock'[k] = sock[k] /\ toServer'[k] = toServer[k] BY <1>1, <2>1
  <2>5. sock[n].side \notin {"open", "registered", "closing"} BY <2>1 DEF None
  <2>6. OnItsWay(p.window, p.relay) => OnItsWay(p.window, p.relay)' BY <2>4, <2>5 DEF OnItsWay
  <2> QED BY <1>2, <2>2, <2>3, <2>4, <2>6 DEF Served, InQueue
<1>9. ASSUME NEW w \in Windows, ClientCloses(w) PROVE Served(p)'
  <2> DEFINE n == client[w]
  <2>1. /\ n \in Sockets /\ sock[n].open /\ sock' = [sock EXCEPT ![n].open = FALSE] /\ toExt' = [toExt EXCEPT ![n] = <<>>]
        /\ handle' = handle
        /\ \A v \in Windows \ {w} : running'[v] = running[v]
        /\ \A k \in Sockets \ {n} : toServer'[k] = toServer[k]
    BY <1>1, <1>9 DEF ClientCloses, ClientOpen
  <2>2. sock[n].window = w BY <1>1, <2>1 DEF SocketsFit, ClientsFit
  <2> HIDE DEF n
  <2>3. ~sock'[n].open /\ \A k \in Sockets \ {n} : sock'[k] = sock[k]
    <3>1. sock'[n] = [sock[n] EXCEPT !.open = FALSE] BY <1>1, <2>1
    <3>2. [sock[n] EXCEPT !.open = FALSE].open = FALSE BY <1>5, <2>1 DEF SocketStates
    <3> QED BY <1>1, <2>1, <3>1, <3>2
  <2>4. CASE p.conn = n BY <2>3, <2>4 DEF Served
  <2>5. CASE p.conn # n
    <3>1. sock'[p.conn] = sock[p.conn] /\ toExt'[p.conn] = toExt[p.conn] BY <1>1, <1>2, <2>1, <2>3, <2>5
    <3>2. CASE ~sock[p.conn].open BY <3>1, <3>2 DEF Served
    <3>3. CASE sock[p.conn].open
      <4>1. p.window # w BY <1>3, <2>5, <3>3 DEF n
      <4>2. running'[p.window] = running[p.window] BY <1>2, <2>1, <4>1
      <4>3. OnItsWay(p.window, p.relay) => OnItsWay(p.window, p.relay)'
        <5>1. \A k \in Sockets : sock[k].window = p.window => k # n BY <2>2, <4>1
        <5> QED BY <2>1, <2>3, <5>1 DEF OnItsWay
      <4> QED BY <1>2, <2>1, <3>1, <4>2, <4>3 DEF Served, InQueue
    <3> QED BY <3>2, <3>3
  <2> QED BY <2>4, <2>5
<1>10. ASSUME NEW n \in Sockets, CloseFrame(n) PROVE Served(p)'
  <2>1. /\ sock' = [sock EXCEPT ![n].side = "closing"] /\ UNCHANGED <<toServer, toExt, handle, running>>
    BY <1>10 DEF CloseFrame
  <2>2. sock'[n] = [sock[n] EXCEPT !.side = "closing"] /\ \A k \in Sockets \ {n} : sock'[k] = sock[k] BY <1>1, <2>1
  <2>3. /\ \A k \in Sockets : sock'[k].open = sock[k].open /\ sock'[k].window = sock[k].window
        /\ sock'[n].side = "closing"
    <3>1. "closing" \in Sides BY DEF Sides
    <3>2. /\ sock'[n].open = sock[n].open /\ sock'[n].window = sock[n].window
          /\ sock'[n].side = "closing"
      BY <1>6, <2>2, <3>1
    <3> QED BY <2>2, <3>2
  <2>4. OnItsWay(p.window, p.relay) => OnItsWay(p.window, p.relay)' BY <2>1, <2>2, <2>3 DEF OnItsWay
  <2> QED BY <1>2, <2>1, <2>3, <2>4 DEF Served, InQueue
<1>11. ASSUME NEW n \in Sockets, ExtensionDisconnected(n) PROVE Served(p)'
  <2>1. /\ sock' = [sock EXCEPT ![n].side = "closed"] /\ toServer[n] = <<>> /\ UNCHANGED <<toServer, toExt, running>>
    BY <1>11 DEF ExtensionDisconnected
  <2>2. sock'[n] = [sock[n] EXCEPT !.side = "closed"] /\ \A k \in Sockets \ {n} : sock'[k] = sock[k] BY <1>1, <2>1
  <2>3. \A k \in Sockets : sock'[k].open = sock[k].open /\ sock'[k].window = sock[k].window
    <3>1. "closed" \in Sides BY DEF Sides
    <3>2. sock'[n].open = sock[n].open /\ sock'[n].window = sock[n].window BY <1>6, <2>2, <3>1
    <3> QED BY <2>2, <3>2
  <2>4. DOMAIN toServer[n] = {} BY <2>1
  <2>5. OnItsWay(p.window, p.relay) => OnItsWay(p.window, p.relay)' BY <2>1, <2>2, <2>4 DEF OnItsWay
  <2>6. handle'[p.window] = handle[p.window]
    <3>1. CASE handle[sock[n].window] # n BY <1>11, <3>1 DEF ExtensionDisconnected
    <3>2. CASE handle[sock[n].window] = n
      <4>1. handle' = [handle EXCEPT ![sock[n].window] = 0] /\ pending' = pending \ Ended(sock[n].window)
        BY <1>11, <3>2 DEF ExtensionDisconnected
      <4>2. p.window # sock[n].window BY <4>1 DEF Ended
      <4> QED BY <1>1, <1>2, <4>1, <4>2
    <3> QED BY <3>1, <3>2
  <2> QED BY <1>2, <2>1, <2>3, <2>5, <2>6 DEF Served, InQueue
<1>12. ASSUME NEW q \in Requests, CliRequest(q) PROVE Served(p)'
  <2>1. UNCHANGED <<sock, toServer, handle, running>> BY <1>12 DEF CliRequest
  <2>2. \A n \in Sockets : \A relay : InQueue(n, relay) => InQueue(n, relay)'
    <3>1. CASE toExt' = toExt BY <3>1 DEF InQueue
    <3>2. CASE toExt' # toExt
      <4> DEFINE n == handle[Resolve(Wants[q])]
                 m == [type |-> "request", relay |-> nextRelay, request |-> q]
      <4>1. toExt' = [toExt EXCEPT ![n] = Append(@, m)] BY <1>12, <3>2 DEF CliRequest, Refuse, Forward
      <4>2. m \in ToExtension BY DEF ToExtension, BridgeTypeOK
      <4> HIDE DEF n, m
      <4>3. \A k \in Sockets : toExt'[k] = toExt[k] \/ toExt'[k] = toExt[k] \o <<m>> BY <1>1, <4>1, <4>2, MessagePut
      <4>4. <<m>> \in Seq(ToExtension) BY <4>2
      <4>5. \A k \in Sockets : \A relay : toExt'[k] = toExt[k] /\ InQueue(k, relay) => InQueue(k, relay)' BY DEF InQueue
      <4> QED BY <4>3, <4>4, <4>5, QueuesGrow
    <3> QED BY <3>1, <3>2
  <2>3. OnItsWay(p.window, p.relay) => OnItsWay(p.window, p.relay)' BY <2>1 DEF OnItsWay
  <2> QED BY <1>2, <2>1, <2>2, <2>3 DEF Served
<1>13. ASSUME NEW c \in Clis, CliDisconnects(c) PROVE Served(p)'
  <2>1. UNCHANGED <<sock, toServer, handle, running>> BY <1>13 DEF CliDisconnects
  <2>2. \A n \in Sockets : \A relay : InQueue(n, relay) => InQueue(n, relay)'
    <3> SUFFICES ASSUME NEW n \in Sockets, NEW relay, InQueue(n, relay) PROVE InQueue(n, relay)' OBVIOUS
    <3>1. toExt'[n] = toExt[n] \/ toExt'[n] = toExt[n] \o StopsTo(c, n) \o AbortsTo(c, n)
      BY <1>13 DEF CliDisconnects
    <3>2. StopsTo(c, n) \in Seq(ToExtension) /\ AbortsTo(c, n) \in Seq(ToExtension) BY StopsAre, AbortsAre
    <3>3. /\ toExt[n] \o StopsTo(c, n) \o AbortsTo(c, n) = toExt[n] \o (StopsTo(c, n) \o AbortsTo(c, n))
          /\ StopsTo(c, n) \o AbortsTo(c, n) \in Seq(ToExtension)
      BY <1>1, <3>2
    <3>4. CASE toExt'[n] = toExt[n] BY <3>4 DEF InQueue
    <3> QED BY <3>1, <3>3, <3>4, QueuesGrow
  <2>3. OnItsWay(p.window, p.relay) => OnItsWay(p.window, p.relay)' BY <2>1 DEF OnItsWay
  <2> QED BY <1>2, <2>1, <2>2, <2>3 DEF Served
<1>14. ASSUME NEW w \in Windows, RecordingBegins(w) PROVE Served(p)'
  <2>1. PICK r \in running[w] : running' = [running EXCEPT ![w] = (@ \ {r}) \cup {[r EXCEPT !.begun = TRUE]}]
    BY <1>14 DEF RecordingBegins
  <2>2. r \in Commands BY <1>1
  <2>3. [r EXCEPT !.begun = TRUE].relay = r.relay BY <2>2 DEF Commands
  <2>4. \A s \in running[p.window] : \E t \in running'[p.window] : t.relay = s.relay BY <1>1, <1>2, <2>1, <2>3
  <2>5. UNCHANGED <<sock, toServer, toExt, handle>> BY <1>14 DEF RecordingBegins
  <2> QED BY <1>2, <2>4, <2>5 DEF Served, InQueue, OnItsWay
<1>15. ASSUME NEW w \in Windows, RecordingEnds(w) PROVE Served(p)'
  <2>1. Finals(w) \in Seq(FromExtension) BY FinalsAre
  <2>2. Sent(w, Finals(w)) /\ UNCHANGED <<sock, toExt, handle, running>> BY <1>15 DEF RecordingEnds
  <2> QED BY <1>2, <1>7, <2>1, <2>2, SentRemain
<1>s. ASSUME NEW w \in Windows, SessionChanges(w) PROVE Served(p)'
  <2>1. PICK messages \in Seq(FromExtension) : Sent(w, messages) BY <1>s, ChangesAre
  <2>2. UNCHANGED <<sock, toExt, handle, running>> BY <1>s DEF SessionChanges
  <2> QED BY <1>2, <1>7, <2>1, <2>2, SentRemain
\* An answer to a command or a question of p's connection: if that stands, it goes there.
<1>16. ASSUME NEW w \in Windows, NEW r, NEW ok, Response(r, ok) \in FromExtension, Sent(w, <<Response(r, ok)>>),
              UNCHANGED <<sock, handle>>, r.relay = p.relay, w = p.window
       PROVE  Served(p)'
  <2>1. CASE handle[p.window] # p.conn \/ ~sock[p.conn].open BY <1>16, <2>1 DEF Served
  <2>2. CASE handle[p.window] = p.conn /\ sock[p.conn].open
    <3>1. client[w] = p.conn /\ ClientOpen(w) /\ sock[client[w]].window = w BY <1>1, <1>2, <1>3, <1>16, <2>2 DEF ClientOpen
    <3>2. sock[client[w]].side \in {"open", "registered", "closing"} BY <1>4, <2>2, <3>1
    <3>3. OnItsWay(w, r.relay)' BY <1>16, <3>1, <3>2, SentArrives
    <3> QED BY <1>16, <3>3 DEF Served
  <2> QED BY <2>1, <2>2
<1>17. ASSUME NEW w \in Windows, CommandEnds(w) PROVE Served(p)'
  <2>1. PICK r \in running[w] :
         /\ running' = [running EXCEPT ![w] = @ \ {r}]
         /\ Sent(w, <<Response(r, IF Kind[r.request] = "record" THEN r.begun ELSE ~r.aborted)>>)
         /\ UNCHANGED <<sock, toExt, handle>>
    BY <1>17 DEF CommandEnds
  <2> DEFINE ok == IF Kind[r.request] = "record" THEN r.begun ELSE ~r.aborted
  <2>2. r \in Commands BY <1>1
  <2>3. ok \in BOOLEAN /\ r.relay \in Nat /\ r.request \in Requests BY <2>2 DEF Commands
  <2> HIDE DEF ok
  <2>4. Response(r, ok) \in FromExtension BY <2>3 DEF Response, FromExtension
  <2>5. <<Response(r, ok)>> \in Seq(FromExtension) /\ Sent(w, <<Response(r, ok)>>) BY <2>1, <2>4 DEF ok
  <2>6. CASE r.relay = p.relay /\ w = p.window BY <1>16, <2>1, <2>4, <2>5, <2>6
  <2>7. CASE ~(r.relay = p.relay /\ w = p.window)
    <3>1. \A s \in running[p.window] : s.relay = p.relay => s \in running'[p.window] BY <1>1, <1>2, <2>1, <2>7
    <3>2. OnItsWay(p.window, p.relay) => OnItsWay(p.window, p.relay)' BY <1>2, <2>1, <2>5, SentRemain
    <3> QED BY <1>2, <2>1, <3>1, <3>2 DEF Served, InQueue
  <2> QED BY <2>6, <2>7
<1>18. ASSUME NEW w \in Windows, WindowReceives(w) PROVE Served(p)'
  <2> DEFINE n == client[w]
             m == Head(toExt[n])
  <2>1. n \in Sockets /\ sock[n].open /\ toExt[n] # <<>> /\ toExt' = [toExt EXCEPT ![n] = Tail(@)]
        /\ UNCHANGED <<sock, handle>>
    BY <1>1, <1>18 DEF WindowReceives, ClientOpen
  <2>2. toExt[n] \in Seq(ToExtension) /\ sock[n].window = w BY <1>1, <2>1 DEF SocketsFit, ClientsFit
  <2>3. m \in ToExtension /\ m.type \in {"request", "abort", "stop"}
    <3>1. m \in ToExtension BY <2>1, <2>2
    <3> QED BY <3>1 DEF ToExtension
  <2>4. InQueue(p.conn, p.relay) => InQueue(p.conn, p.relay)' \/ (n = p.conn /\ m.type = "request" /\ m.relay = p.relay)
    <3>1. CASE n # p.conn
      <4>1. toExt'[p.conn] = toExt[p.conn] BY <1>1, <1>2, <2>1, <3>1
      <4> QED BY <4>1 DEF InQueue
    <3>2. CASE n = p.conn
      <4>1. toExt'[n] = Tail(toExt[n]) BY <1>1, <2>1
      <4>2. \A i \in DOMAIN toExt[n] : i = 1 \/ (i - 1 \in DOMAIN Tail(toExt[n]) /\ Tail(toExt[n])[i - 1] = toExt[n][i])
        BY <2>2
      <4>3. toExt[n][1] = m BY <2>1, <2>2
      <4> HIDE DEF m, n
      <4> SUFFICES ASSUME InQueue(p.conn, p.relay), ~(m.type = "request" /\ m.relay = p.relay)
                   PROVE  InQueue(p.conn, p.relay)'
        BY <3>2
      <4>4. PICK i \in DOMAIN toExt[p.conn] : toExt[p.conn][i].type = "request" /\ toExt[p.conn][i].relay = p.relay
        BY DEF InQueue
      <4>5. i # 1 BY <3>2, <4>3, <4>4
      <4>6. i - 1 \in DOMAIN toExt'[p.conn] /\ toExt'[p.conn][i - 1] = toExt[p.conn][i] BY <3>2, <4>1, <4>2, <4>4, <4>5
      <4>7. toExt'[p.conn][i - 1].type = "request" /\ toExt'[p.conn][i - 1].relay = p.relay BY <4>4, <4>6
      <4> QED BY <4>6, <4>7 DEF InQueue
    <3> QED BY <3>1, <3>2
  <2>5. CASE m.type = "request" /\ Runs(w, n, m)
    <3>1. m.relay \in Nat /\ m.request \in Requests BY <2>3, <2>5 DEF ToExtension
    <3>2. n = p.conn => w = p.window BY <1>2, <2>2
    <3>3. CASE \E s : running' = [running EXCEPT ![w] = @ \cup {s}] /\ s.relay = m.relay /\ UNCHANGED toServer
      <4> HIDE DEF m, n
      <4>1. PICK s : running' = [running EXCEPT ![w] = @ \cup {s}] /\ s.relay = m.relay /\ UNCHANGED toServer BY <3>3
      <4>2. s \in running'[w] /\ \A r \in running[p.window] : r \in running'[p.window] BY <1>1, <1>2, <4>1
      <4>3. OnItsWay(p.window, p.relay) => OnItsWay(p.window, p.relay)' BY <2>1, <4>1 DEF OnItsWay
      <4> QED BY <1>2, <2>1, <2>4, <3>2, <4>1, <4>2, <4>3 DEF Served
    <3>4. CASE Sent(w, <<Response(m, FALSE)>>) /\ UNCHANGED running
      <4>1. Response(m, FALSE) \in FromExtension BY <3>1 DEF Response, FromExtension
      <4>2. <<Response(m, FALSE)>> \in Seq(FromExtension)
        <5>1. \A x \in FromExtension : <<x>> \in Seq(FromExtension) OBVIOUS
        <5> QED BY <4>1, <5>1
      <4> HIDE DEF m, n
      <4>3. OnItsWay(p.window, p.relay) => OnItsWay(p.window, p.relay)' BY <1>2, <2>1, <3>4, <4>2, SentRemain
      <4>4. CASE n = p.conn /\ m.relay = p.relay BY <1>16, <2>1, <3>2, <3>4, <4>1, <4>4
      <4>5. CASE ~(n = p.conn /\ m.relay = p.relay) BY <1>2, <2>1, <2>4, <3>4, <4>3, <4>5 DEF Served
      <4> QED BY <4>4, <4>5
    <3> QED BY <2>5, <3>3, <3>4 DEF Runs
  <2>6. CASE m.type = "abort" /\ Aborts(w, m) /\ UNCHANGED toServer
    <3>1. \A r \in Commands : [r EXCEPT !.aborted = TRUE].relay = r.relay BY DEF Commands
    <3>2. running' = [running EXCEPT ![w] =
            {IF r.relay = m.relay /\ r.abortable THEN [r EXCEPT !.aborted = TRUE] ELSE r : r \in running[w]}]
      BY <2>6 DEF Aborts
    <3> HIDE DEF m, n
    <3>3. \A v \in Windows \ {w} : running'[v] = running[v] BY <1>1, <3>2
    <3>4. \A r \in running[w] : \E s \in running'[w] : s.relay = r.relay
      <4> SUFFICES ASSUME NEW r \in running[w] PROVE \E s \in running'[w] : s.relay = r.relay OBVIOUS
      <4>1. r \in Commands BY <1>1
      <4>2. (IF r.relay = m.relay /\ r.abortable THEN [r EXCEPT !.aborted = TRUE] ELSE r) \in running'[w] BY <1>1, <3>2
      <4> QED BY <3>1, <4>1, <4>2
    <3>5. \A s \in running[p.window] : \E t \in running'[p.window] : t.relay = s.relay BY <1>2, <3>3, <3>4
    <3>6. OnItsWay(p.window, p.relay) => OnItsWay(p.window, p.relay)' BY <2>1, <2>6 DEF OnItsWay
    <3>7. InQueue(p.conn, p.relay) => InQueue(p.conn, p.relay)' BY <2>4, <2>6
    <3> QED BY <1>2, <2>1, <3>5, <3>6, <3>7 DEF Served
  <2>7. CASE m.type = "stop" /\ Sent(w, Finals(w)) /\ UNCHANGED running
    <3>1. Finals(w) \in Seq(FromExtension) BY FinalsAre
    <3>2. OnItsWay(p.window, p.relay) => OnItsWay(p.window, p.relay)' BY <1>2, <2>1, <2>7, <3>1, SentRemain
    <3>3. InQueue(p.conn, p.relay) => InQueue(p.conn, p.relay)' BY <2>4, <2>7
    <3> QED BY <1>2, <2>1, <2>7, <3>2, <3>3 DEF Served
  <2> QED BY <1>18, <2>3, <2>5, <2>6, <2>7 DEF WindowReceives
<1>19. ASSUME NEW n \in Sockets, ServerReceives(n) PROVE Served(p)'
  <2> DEFINE m == Head(toServer[n])
  <2>1. toServer[n] # <<>> /\ toServer' = [toServer EXCEPT ![n] = Tail(@)] /\ UNCHANGED <<toExt, running>>
    BY <1>19 DEF ServerReceives
  <2>2. toServer[n] \in Seq(FromExtension) BY <1>1
  <2>3. m \in FromExtension /\ m.type \in {"register", "response", "final", "changed"}
    <3>1. m \in FromExtension BY <2>1, <2>2
    <3> QED BY <3>1 DEF FromExtension
  <2>4. \A k \in Sockets : \A i \in DOMAIN toServer[k] :
          \/ k = n /\ toServer[k][i] = m
          \/ \E j \in DOMAIN toServer'[k] : toServer'[k][j] = toServer[k][i]
    <3> SUFFICES ASSUME NEW k \in Sockets, NEW i \in DOMAIN toServer[k]
                 PROVE  \/ k = n /\ toServer[k][i] = m
                        \/ \E j \in DOMAIN toServer'[k] : toServer'[k][j] = toServer[k][i]
      OBVIOUS
    <3>1. CASE k # n BY <1>1, <2>1, <3>1
    <3>2. CASE k = n
      <4>1. toServer'[n] = Tail(toServer[n]) BY <1>1, <2>1
      <4>2. i = 1 \/ (i - 1 \in DOMAIN Tail(toServer[n]) /\ Tail(toServer[n])[i - 1] = toServer[n][i])
        BY <2>2, <3>2
      <4>3. toServer[n][1] = m BY <2>1, <2>2
      <4> QED BY <3>2, <4>1, <4>2, <4>3
    <3> QED BY <3>1, <3>2
  <2>5. CASE m.type = "response" /\ HandleResponse(m) /\ UNCHANGED <<sock, handle>>
    <3> HIDE DEF m
    <3>1. m.relay # p.relay
      <4> SUFFICES ASSUME m.relay = p.relay PROVE FALSE OBVIOUS
      <4>1. PICK s \in pending : s.relay = m.relay /\ pending' = pending \ {s} BY <2>5 DEF HandleResponse
      <4>2. s = p BY <4>1 DEF RelaysUnique
      <4> QED BY <4>1, <4>2
    <3>2. OnItsWay(p.window, p.relay) => OnItsWay(p.window, p.relay)'
      <4> SUFFICES ASSUME OnItsWay(p.window, p.relay) PROVE OnItsWay(p.window, p.relay)' OBVIOUS
      <4>1. \A k \in Sockets : \A i \in DOMAIN toServer[k] :
              toServer[k][i].type = "response" /\ toServer[k][i].relay = p.relay =>
                \E j \in DOMAIN toServer'[k] : toServer'[k][j] = toServer[k][i]
        BY <2>4, <3>1
      <4>2. AnswersAreKept(p.window, p.relay)
        BY <2>5, <4>1 DEF AnswersAreKept
      <4> QED BY <1>2, <4>2, AnswersRemain
    <3> QED BY <1>7, <2>1, <2>5, <3>2
  <2>6. CASE m.type \in {"final", "changed"} /\ UNCHANGED <<sock, handle>>
    <3> HIDE DEF m
    <3>1. \A k \in Sockets : \A i \in DOMAIN toServer[k] : toServer[k][i].type = "response" =>
                \E j \in DOMAIN toServer'[k] : toServer'[k][j] = toServer[k][i]
      BY <2>4, <2>6
    <3>2. AnswersAreKept(p.window, p.relay)
      BY <2>6, <3>1 DEF AnswersAreKept
    <3>3. OnItsWay(p.window, p.relay) => OnItsWay(p.window, p.relay)' BY <1>2, <3>2, AnswersRemain
    <3> QED BY <1>7, <2>1, <2>6, <3>3
  <2>7. CASE m.type = "register" /\ HandleRegistration(n)
    <3>1. sock[n].side = "open" BY <2>7, RegistersReceived, <1>19 DEF SocketsFit
    <3>2. p.conn # n BY <1>2, <3>1 DEF Unregistered
    <3> DEFINE w == sock[n].window
    <3>3. /\ handle' = [handle EXCEPT ![w] = n]
          /\ \A k \in Sockets : \/ sock'[k] = sock[k] /\ k # n
                                \/ sock'[k] = [sock[k] EXCEPT !.side = "registered"]
                                \/ sock'[k] = [sock[k] EXCEPT !.side = "closing"]
      BY <2>7 DEF HandleRegistration
    <3> HIDE DEF m, w
    <3>4. handle'[p.window] \in {handle[p.window], n} BY <1>1, <1>2, <3>3
    <3>5. \A k \in Sockets : /\ sock'[k].open = sock[k].open /\ sock'[k].window = sock[k].window
                             /\ sock'[k].side \in {sock[k].side, "registered", "closing"}
      <4>1. "registered" \in Sides /\ "closing" \in Sides BY DEF Sides
      <4> SUFFICES ASSUME NEW k \in Sockets
                   PROVE  /\ sock'[k].open = sock[k].open /\ sock'[k].window = sock[k].window
                          /\ sock'[k].side \in {sock[k].side, "registered", "closing"}
        OBVIOUS
      <4>2. CASE sock'[k] = sock[k] BY <4>2
      <4>3. CASE sock'[k] = [sock[k] EXCEPT !.side = "registered"] BY <1>6, <4>1, <4>3
      <4>4. CASE sock'[k] = [sock[k] EXCEPT !.side = "closing"] BY <1>6, <4>1, <4>4
      <4> QED BY <3>3, <4>2, <4>3, <4>4
    <3>6. \A k \in Sockets : \A i \in DOMAIN toServer[k] : toServer[k][i].type = "response" =>
                \E j \in DOMAIN toServer'[k] : toServer'[k][j] = toServer[k][i]
      BY <2>4, <2>7
    <3>7. AnswersAreKept(p.window, p.relay)
      BY <3>5, <3>6 DEF AnswersAreKept
    <3>8. OnItsWay(p.window, p.relay) => OnItsWay(p.window, p.relay)' BY <1>2, <3>7, AnswersRemain
    <3> QED BY <1>2, <2>1, <3>2, <3>4, <3>5, <3>8 DEF Served, InQueue
  <2> QED BY <1>19, <2>3, <2>5, <2>6, <2>7 DEF ServerReceives
<1>20. CASE ServerRestarts BY <1>20 DEF ServerRestarts
<1>21. CASE UNCHANGED bridgeVars BY <1>2, <1>21 DEF bridgeVars, Served, InQueue, OnItsWay
<1> QED BY <1>8, <1>9, <1>10, <1>11, <1>12, <1>13, <1>14, <1>15, <1>s, <1>17, <1>18, <1>19, <1>20, <1>21 DEF BridgeNext, BridgeProgress

\* A request is served from the start: its question is in the queue of the connection, or that has closed.
LEMMA NewIsServed ==
  ASSUME BridgeTypeOK, OpenIsClients, [BridgeNext]_bridgeVars, NEW p \in pending', p \notin pending
  PROVE  Served(p)'
<1>1. /\ toExt \in [Sockets -> Seq(ToExtension)] /\ handle \in [Windows -> Sockets \cup {0}] /\ nextRelay \in Nat
  BY DEF BridgeTypeOK
<1>2. ASSUME NEW q \in Requests, CliRequest(q) PROVE Served(p)'
  <2> DEFINE w == Resolve(Wants[q])
             n == handle[w]
             m == [type |-> "request", relay |-> nextRelay, request |-> q]
  <2>1. ~Refuse(q) BY DEF Refuse
  <2>2. /\ Forward(q, w) /\ UNCHANGED <<sock, handle>> /\ (w = None \/ IsOpen(n) \/ w = None) /\ w # None
    BY <1>2, <2>1 DEF CliRequest
  <2>3. /\ p = [relay |-> nextRelay, request |-> q, window |-> w, conn |-> n]
        /\ toExt' = IF sock[n].open THEN [toExt EXCEPT ![n] = Append(@, m)] ELSE toExt
    BY <2>2 DEF Forward
  <2>4. p.relay = nextRelay /\ p.conn = n BY <2>3
  <2>5. m.type = "request" /\ m.relay = nextRelay /\ m \in ToExtension BY <1>1 DEF ToExtension
  <2>6. n \in Sockets
    <3>1. w \in Windows BY <2>2, BridgeTypeOK, BridgeAssumption DEF Resolve, BridgeTypeOK
    <3> QED BY <1>1, <2>2, <3>1 DEF IsOpen
  <2> HIDE DEF w, n, m
  <2>7. CASE ~sock[n].open BY <2>2, <2>4, <2>7 DEF Served
  <2>8. CASE sock[n].open
    <3>1. toExt'[n] = Append(toExt[n], m) /\ toExt[n] \in Seq(ToExtension) BY <1>1, <2>3, <2>6, <2>8
    <3>2. Len(toExt[n]) + 1 \in DOMAIN toExt'[n] /\ toExt'[n][Len(toExt[n]) + 1] = m BY <2>5, <3>1
    <3>3. InQueue(p.conn, p.relay)' BY <2>4, <2>5, <3>2 DEF InQueue
    <3> QED BY <3>3 DEF Served
  <2> QED BY <2>7, <2>8
<1>3. ASSUME NEW n \in Sockets, ServerReceives(n) PROVE FALSE
  <2>1. Head(toServer[n]) \in FromExtension BY <1>3 DEF ServerReceives, BridgeTypeOK
  <2>2. Head(toServer[n]).type \in {"register", "response", "final", "changed"} BY <2>1 DEF FromExtension
  <2>3. HandleResponse(Head(toServer[n])) => pending' \subseteq pending BY DEF HandleResponse
  <2> QED BY <1>3, <2>2, <2>3 DEF ServerReceives
<1> QED
  BY <1>2, <1>3
     DEF BridgeNext, BridgeProgress, bridgeVars, sockVars, serverVars, cliVars, windowVars,
         CloseFrame, ExtensionDisconnected, ClientConnects, WindowReceives, RecordingBegins, CommandEnds,
         ClientCloses, RecordingEnds, SessionChanges, CliDisconnects, ServerRestarts

\* It holds at the start, when nothing is connected and nobody waits.
LEMMA WaitBegins == BridgeInit => WaitInv
<1> SUFFICES ASSUME BridgeInit PROVE WaitInv OBVIOUS
<1>1. BridgeTypeOK /\ SocketsFit
  <2>1. BridgeInv BY BridgeBegins
  <2>2. serverLives = 1 BY DEF BridgeInit
  <2> QED BY <2>1, <2>2 DEF BridgeInv, BridgeLive
<1>2. cli = [c \in Clis |-> "away"] /\ answer = [q \in Requests |-> None] /\ pending = {}
      /\ sock = [n \in Sockets |-> [window |-> None, side |-> None, open |-> FALSE]]
  BY DEF BridgeInit
<1>3. RequestsFit BY <1>2 DEF RequestsFit, None
<1>4. OpenIsClients BY <1>2 DEF OpenIsClients
<1> QED BY <1>1, <1>2, <1>3, <1>4 DEF WaitInv, RelaysUnique, AllServed

\* Every step keeps it.
LEMMA WaitStays ==
  ASSUME WaitInv, [BridgeNext]_bridgeVars
  PROVE  WaitInv'
<1> USE DEF WaitInv
<1>1. BridgeTypeOK' BY BridgeTypes
<1>2. RequestsFit' BY RequestsStay
<1>3. SocketsFit' BY <1>1, SocketsAlways
<1>4. OpenIsClients' BY OpenStays
<1>5. RelaysUnique' BY NumbersStay
<1>6. ASSUME NEW p \in pending' PROVE Served(p)'
  <2>1. CASE p \in pending BY <2>1, ServedStays
  <2>2. CASE p \notin pending BY <2>2, NewIsServed
  <2> QED BY <2>1, <2>2
<1>7. AllServed' BY <1>6 DEF AllServed
<1> QED BY <1>1, <1>2, <1>3, <1>4, <1>5, <1>7

\* Nobody waits in vain for an answer, however connections are lost, closed and replaced and the
\* server restarts: the server remembers whom to answer (pendingRequests), and the question, the
\* command or the answer is somewhere, unless the connection has closed or was replaced.  This is
\* the safety core of RequestSettles; a replaced connection is the case that property excepts.
THEOREM WaitersWillBeAnswered == BridgeSpec => []WaitersAreServed
<1>1. WaitInv => WaitersAreServed BY DEF WaitInv, RequestsFit, AllServed, WaitersAreServed
<1>2. BridgeInit => WaitInv BY WaitBegins
<1>3. WaitInv /\ [BridgeNext]_bridgeVars => WaitInv' BY WaitStays
<1> QED BY <1>1, <1>2, <1>3, PTL DEF BridgeSpec
-----------------------------------------------------------------------------
(* Recordings of a CLI that is gone are stopped *)

\* What a window has told of the ends of recordings.
FinalsIn(s) == {s[i].recording : i \in {i \in DOMAIN s : s[i].type = "final"}}

\* Where no connection was lost, the server has not restarted, none was replaced, and the one
\* that registered is the window's.
ConnsLast ==
  /\ serverLives = 1
  /\ \A n \in Sockets : sock[n].side \in {None, "open", "registered"}
  /\ \A n \in Sockets : sock[n].side = "registered" => handle[sock[n].window] = n

\* A request is asked once: as long as it waits, is in a queue or runs, under one number and not answered.
Items == pending \cup (UNION {AskedIn(toExt[n]) : n \in Sockets}) \cup (UNION {running[w] : w \in Windows})
OneNumber ==
  /\ \A x \in Items : answer[x.request] = "waiting"
  /\ \A x, y \in Items : x.request = y.request => x.relay = y.relay

\* A record_start begins one recording, in the window that it waits for; that ends once.
Recorded(q) == (\E w \in Windows : q \in recordings[w]) \/ \E k \in Sockets : q \in FinalsIn(toServer[k])
RecordedOnce ==
  /\ \A q \in Requests : Recorded(q) =>
       /\ answer[q] # None /\ Kind[q] = "record"
       /\ \A n \in Sockets : \A m \in AskedIn(toExt[n]) : m.request # q
       /\ \A w \in Windows : \A r \in running[w] : r.request = q => r.begun
  /\ \A w \in Windows : \A q \in recordings[w] :
       /\ client[w] # 0
       /\ \A v \in Windows : q \in recordings[v] => v = w
       /\ \A k \in Sockets : q \notin FinalsIn(toServer[k])
       /\ \A p \in pending : p.request = q => p.window = w

\* The server has a lease for a recording its CLI was told of, until that CLI goes: then a stop is on its way.
LeasesFit ==
  \A w \in Windows : \A q \in recordings[w] : answer[q] = q /\ cli[Issuer[q]] = "connected" =>
    /\ handle[w] = client[w] /\ sock[client[w]].side = "registered"
    /\ \E l \in leases : l.recording = q /\ l.cli = Issuer[q] /\ l.window = w
StopsFit ==
  \A w \in Windows : \A q \in recordings[w] : answer[q] = q /\ cli[Issuer[q]] = "gone" =>
    \E i \in DOMAIN toExt[client[w]] : toExt[client[w]][i].type = "stop"

Calm == Lost = {}
RecordingsFit == ConnsLast /\ OneNumber /\ RecordedOnce /\ LeasesFit /\ StopsFit
StopInv == BridgeInv /\ WaitInv /\ (Calm => RecordingsFit)

\* What a window sends when its recordings end names them.
LEMMA FinalsName ==
  ASSUME BridgeTypeOK, NEW w \in Windows
  PROVE  FinalsIn(Finals(w)) \subseteq recordings[w]
<1> DEFINE f == [q \in recordings[w] |-> [type |-> "final", recording |-> q]]
           S == {[type |-> "final", recording |-> q] : q \in recordings[w]}
<1>1. IsFiniteSet(recordings[w]) BY DEF BridgeTypeOK
<1>2. f \in Surjection(recordings[w], S) BY DEF Surjection
<1>3. IsFiniteSet(S) BY <1>1, <1>2, FS_Surjection
<1>4. Finals(w) = SetToSeq(S) BY DEF Finals
<1>5. \A x \in S : x.recording \in recordings[w] OBVIOUS
<1> HIDE DEF S
<1>6. Finals(w) \in Seq(S) BY <1>3, <1>4, SetToSeqHas
<1>7. \A i \in DOMAIN Finals(w) : Finals(w)[i] \in S BY <1>6, WiderSeq
<1> QED BY <1>5, <1>7 DEF FinalsIn

\* Among what the server sends for a CLI that is gone is a stop, if that has a lease there.
LEMMA StopIsSent ==
  ASSUME NEW c, NEW n \in Sockets, NEW l \in leases, l.cli = c, handle[l.window] = n
  PROVE  \E i \in DOMAIN StopsTo(c, n) : StopsTo(c, n)[i].type = "stop"
<1> DEFINE S == {[type |-> "stop"] : k \in {k \in leases : k.cli = c /\ handle[k.window] = n}}
           m == [type |-> "stop"]
<1>1. S \in SUBSET {m} /\ m \in S OBVIOUS
<1>2. IsFiniteSet({m}) BY FS_Singleton
<1>3. IsFiniteSet(S) BY <1>1, <1>2, FS_Subset
<1>4. StopsTo(c, n) = SetToSeq(S) BY DEF StopsTo
<1> HIDE DEF S
<1>5. \E i \in DOMAIN StopsTo(c, n) : StopsTo(c, n)[i] = m BY <1>1, <1>3, <1>4, SetToSeqHas
<1> QED BY <1>5

\* The ends of recordings in a queue: when the first message is taken, and when a window sends.
LEMMA FinalsMove ==
  ASSUME BridgeTypeOK
  PROVE  /\ \A n \in Sockets : toServer[n] # <<>> => FinalsIn(Tail(toServer[n])) \subseteq FinalsIn(toServer[n])
         /\ \A n \in Sockets : toServer[n] # <<>> /\ Head(toServer[n]).type = "final" =>
              Head(toServer[n]).recording \in FinalsIn(toServer[n])
         /\ \A w \in Windows, s \in Seq(FromExtension) : Sent(w, s) =>
              \A k \in Sockets : FinalsIn(toServer'[k]) \subseteq FinalsIn(toServer[k]) \cup FinalsIn(s)
<1>1. toServer \in [Sockets -> Seq(FromExtension)] BY DEF BridgeTypeOK
<1>2. ASSUME NEW n \in Sockets, toServer[n] # <<>>
      PROVE  /\ FinalsIn(Tail(toServer[n])) \subseteq FinalsIn(toServer[n])
             /\ Head(toServer[n]).type = "final" => Head(toServer[n]).recording \in FinalsIn(toServer[n])
  <2>1. toServer[n] \in Seq(FromExtension) BY <1>1
  <2>2. \A i \in DOMAIN Tail(toServer[n]) : Tail(toServer[n])[i] = toServer[n][i + 1] /\ i + 1 \in DOMAIN toServer[n]
    BY <1>2, <2>1, QueueTaken
  <2>3. Head(toServer[n]) = toServer[n][1] /\ 1 \in DOMAIN toServer[n] BY <1>2, <2>1
  <2> QED BY <2>2, <2>3 DEF FinalsIn
<1>3. ASSUME NEW w \in Windows, NEW s \in Seq(FromExtension), Sent(w, s), NEW k \in Sockets
      PROVE  FinalsIn(toServer'[k]) \subseteq FinalsIn(toServer[k]) \cup FinalsIn(s)
  <2>1. toServer'[k] = toServer[k] \/ toServer'[k] = toServer[k] \o s BY <1>1, <1>3 DEF Sent
  <2>2. toServer[k] \in Seq(FromExtension) BY <1>1
  <2>3. \A i \in DOMAIN (toServer[k] \o s) :
          \/ i \in DOMAIN toServer[k] /\ (toServer[k] \o s)[i] = toServer[k][i]
          \/ i - Len(toServer[k]) \in DOMAIN s /\ (toServer[k] \o s)[i] = s[i - Len(toServer[k])]
    BY <2>2, QueueGrows
  <2>4. FinalsIn(toServer[k] \o s) \subseteq FinalsIn(toServer[k]) \cup FinalsIn(s)
    <3> DEFINE u == toServer[k] \o s
    <3> HIDE DEF u
    <3> SUFFICES ASSUME NEW i \in DOMAIN u, u[i].type = "final"
                 PROVE  u[i].recording \in FinalsIn(toServer[k]) \cup FinalsIn(s)
      BY DEF FinalsIn, u
    <3> QED BY <2>3 DEF FinalsIn, u
  <2> QED BY <2>1, <2>4
<1> QED BY <1>2, <1>3

-----------------------------------------------------------------------------
(* Connections, where none was lost *)

\* A connection that was lost stays so (MaxUpsets bounds what is lost, nothing bounds what was): a calm
\* step comes from a calm state, and neither a client's close nor the end of the server is one.
LEMMA CalmBefore ==
  ASSUME BridgeTypeOK, [BridgeNext]_bridgeVars, Calm'
  PROVE  Calm /\ ~ServerRestarts /\ \A w \in Windows : ~ClientCloses(w)
<1>1. /\ sock \in [Sockets -> SocketStates] /\ client \in [Windows -> Sockets \cup {0}]
      /\ \A n \in Sockets : sock[n].open => sock[n].side # None
  <2>1. sock \in [Sockets -> SocketStates] /\ client \in [Windows -> Sockets \cup {0}] BY DEF BridgeTypeOK
  <2>2. ASSUME NEW n \in Sockets, sock[n].open PROVE sock[n].side # None
    <3>1. sock[n] \in SocketStates BY <2>1
    <3> QED BY <2>2, <3>1, SocketState
  <2> QED BY <2>1, <2>2
<1>2. \A n \in Sockets : sock'[n].side # None => sock'[n].open BY DEF Calm, Lost
<1>3. Calm
  <2> SUFFICES ASSUME NEW n \in Sockets, sock[n].side # None, ~sock[n].open PROVE FALSE BY DEF Calm, Lost
  <2>1. CASE \E w \in Windows : ClientConnects(w)
    <3>1. PICK w \in Windows : ClientConnects(w) BY <2>1
    <3>2. PICK k \in Sockets : sock[k].side = None /\ sock' = [sock EXCEPT ![k] = [window |-> w, side |-> "open", open |-> TRUE]]
      BY <3>1 DEF ClientConnects
    <3>3. sock'[n] = sock[n] BY <1>1, <3>2
    <3> QED BY <1>2, <3>3
  <2>2. CASE ~\E w \in Windows : ClientConnects(w)
    <3>1. (sock'[n].open => sock[n].open) /\ sock'[n].side # None BY <2>2, ConnectionsChange
    <3> QED BY <1>2, <3>1
  <2> QED BY <2>1, <2>2
<1>4. ASSUME NEW w \in Windows, ClientCloses(w) PROVE FALSE
  <2> DEFINE n == client[w]
  <2>1. n \in Sockets /\ sock[n].open /\ sock' = [sock EXCEPT ![n].open = FALSE] BY <1>1, <1>4 DEF ClientCloses, ClientOpen
  <2> HIDE DEF n
  <2>2. sock'[n] = [sock[n] EXCEPT !.open = FALSE] /\ sock[n] \in SocketStates BY <1>1, <2>1
  <2>3. [sock[n] EXCEPT !.open = FALSE].side = sock[n].side /\ ~[sock[n] EXCEPT !.open = FALSE].open BY <2>2 DEF SocketStates
  <2> QED BY <1>1, <1>2, <2>1, <2>2, <2>3
<1>5. ASSUME ServerRestarts PROVE FALSE
  <2>1. PICK w \in Windows : ClientOpen(w) BY <1>5 DEF ServerRestarts
  <2> DEFINE n == client[w]
  <2>2. n \in Sockets /\ sock[n].open BY <1>1, <2>1 DEF ClientOpen
  <2>3. sock' = [k \in Sockets |-> IF sock[k].side = None THEN sock[k] ELSE [sock[k] EXCEPT !.side = "closed", !.open = FALSE]]
    BY <1>5 DEF ServerRestarts
  <2> HIDE DEF n
  <2>4. sock'[n] = [sock[n] EXCEPT !.side = "closed", !.open = FALSE] /\ sock[n] \in SocketStates BY <1>1, <2>2, <2>3
  <2>5. sock'[n].side = "closed" /\ ~sock'[n].open BY <2>4 DEF SocketStates
  <2> QED BY <1>2, <2>2, <2>5 DEF None
<1> QED BY <1>3, <1>4, <1>5

\* Where none was lost, a window's connection is the one it has, and stands.
LEMMA CalmConns ==
  ASSUME BridgeTypeOK, SocketsFit, OpenIsClients, ConnsLast, Calm
  PROVE  /\ \A w \in Windows : client[w] # 0 =>
              /\ client[w] \in Sockets /\ ClientOpen(w) /\ sock[client[w]].window = w /\ sock[client[w]].side # None
         /\ \A w \in Windows : handle[w] # 0 => handle[w] = client[w] /\ sock[handle[w]].side = "registered"
         /\ \A n \in Sockets : sock[n].side # None =>
              sock[n].open /\ sock[n].window \in Windows /\ client[sock[n].window] = n
         /\ \A n \in Sockets : ~CloseFrame(n) /\ ~ExtensionDisconnected(n)
<1>1. /\ sock \in [Sockets -> SocketStates] /\ client \in [Windows -> Sockets \cup {0}] /\ handle \in [Windows -> Sockets \cup {0}]
      /\ None \notin Windows
  BY BridgeAssumption DEF BridgeTypeOK, None
<1>2. ASSUME NEW n \in Sockets, sock[n].side # None
      PROVE  sock[n].open /\ sock[n].window \in Windows /\ client[sock[n].window] = n
  <2>1. sock[n] \in SocketStates BY <1>1
  <2> QED BY <1>2, <2>1, SocketState DEF Calm, Lost, OpenIsClients
<1>3. ASSUME NEW w \in Windows, client[w] # 0
      PROVE  client[w] \in Sockets /\ ClientOpen(w) /\ sock[client[w]].window = w /\ sock[client[w]].side # None
  <2>1. client[w] \in Sockets BY <1>1, <1>3
  <2>2. sock[client[w]].window = w BY <1>3 DEF SocketsFit, ClientsFit
  <2>3. sock[client[w]] \in SocketStates BY <1>1, <2>1
  <2>4. sock[client[w]].side # None BY <1>1, <2>2, <2>3, SocketState
  <2> QED BY <1>2, <1>3, <2>1, <2>2, <2>4 DEF ClientOpen
<1>4. ASSUME NEW w \in Windows, handle[w] # 0
      PROVE  handle[w] = client[w] /\ sock[handle[w]].side = "registered"
  <2>1. handle[w] \in Sockets /\ sock[handle[w]].window = w /\ sock[handle[w]].side \in {"registered", "closing"}
    BY <1>1, <1>4 DEF SocketsFit, HandlesFit
  <2>2. sock[handle[w]].side = "registered" BY <2>1 DEF ConnsLast, None
  <2>3. sock[handle[w]].side # None BY <2>2 DEF None
  <2> QED BY <1>2, <2>1, <2>2, <2>3
<1>5. ASSUME NEW n \in Sockets PROVE ~CloseFrame(n) /\ ~ExtensionDisconnected(n)
  BY <1>2 DEF CloseFrame, ExtensionDisconnected, ConnsLast, None
<1> QED BY <1>2, <1>3, <1>4, <1>5

\* It stays so: a window that has a connection does not connect anew, and registers it once.
LEMMA ConnsLastStay ==
  ASSUME BridgeTypeOK, SocketsFit, OpenIsClients, ConnsLast, [BridgeNext]_bridgeVars, Calm, Calm'
  PROVE  /\ ConnsLast'
         /\ \A w \in Windows : client[w] # 0 =>
              client'[w] = client[w] /\ (sock[client[w]].side = "registered" => sock'[client[w]].side = "registered")
         /\ \A w \in Windows : handle[w] # 0 => handle'[w] = handle[w]
<1>1. /\ sock \in [Sockets -> SocketStates] /\ client \in [Windows -> Sockets \cup {0}] /\ handle \in [Windows -> Sockets \cup {0}]
  BY DEF BridgeTypeOK
<1>2. /\ \A w \in Windows : client[w] # 0 => client[w] \in Sockets /\ ClientOpen(w) /\ sock[client[w]].side # None
      /\ \A w \in Windows : handle[w] # 0 => handle[w] = client[w] /\ sock[handle[w]].side = "registered"
      /\ \A n \in Sockets : sock[n].side # None => client[sock[n].window] = n /\ sock[n].window \in Windows
      /\ \A n \in Sockets : ~CloseFrame(n) /\ ~ExtensionDisconnected(n)
  BY CalmConns
<1>3. ~ServerRestarts /\ \A w \in Windows : ~ClientCloses(w) BY CalmBefore
<1>4. CASE UNCHANGED <<sock, handle, client, serverLives>> BY <1>4 DEF ConnsLast
<1>5. ASSUME NEW w \in Windows, ClientConnects(w)
      PROVE  /\ ConnsLast' /\ handle' = handle
             /\ \A v \in Windows : client[v] # 0 => client'[v] = client[v] /\ sock'[client[v]] = sock[client[v]]
  <2>1. PICK n \in Sockets :
           /\ sock[n].side = None /\ sock' = [sock EXCEPT ![n] = [window |-> w, side |-> "open", open |-> TRUE]]
           /\ client' = [client EXCEPT ![w] = n]
    BY <1>5 DEF ClientConnects
  <2>2. ~ClientOpen(w) /\ UNCHANGED <<handle, serverLives>> BY <1>5 DEF ClientConnects, serverVars
  <2>3. sock'[n].side = "open" /\ \A k \in Sockets \ {n} : sock'[k] = sock[k] BY <1>1, <2>1
  <2>4. \A v \in Windows : client[v] # 0 => client[v] # n /\ v # w
    BY <1>2, <2>1, <2>2
  <2>5. ConnsLast' BY <2>2, <2>3 DEF ConnsLast
  <2> QED BY <1>1, <1>2, <2>1, <2>2, <2>3, <2>4, <2>5
<1>6. ASSUME NEW n \in Sockets, HandleRegistration(n), UNCHANGED <<client, serverLives>>, sock[n].side = "open"
      PROVE  /\ ConnsLast'
             /\ \A w \in Windows : client[w] # 0 /\ sock[client[w]].side = "registered" => sock'[client[w]].side = "registered"
             /\ \A w \in Windows : handle[w] # 0 => handle'[w] = handle[w]
  <2> DEFINE w == sock[n].window
  <2>1. w \in Windows /\ client[w] = n BY <1>2, <1>6 DEF None
  <2>2. handle[w] = 0 BY <1>2, <1>6, <2>1
  <2>3. /\ sock' = [k \in Sockets |-> IF k = n THEN [sock[k] EXCEPT !.side = "registered"] ELSE sock[k]]
        /\ handle' = [handle EXCEPT ![w] = n]
    BY <1>6, <2>2 DEF HandleRegistration, IsOpen
  <2>4. sock'[n] = [sock[n] EXCEPT !.side = "registered"] /\ sock[n] \in SocketStates /\ \A k \in Sockets \ {n} : sock'[k] = sock[k]
    BY <1>1, <2>3
  <2>5. sock'[n].side = "registered" /\ sock'[n].window = w BY <2>4 DEF SocketStates
  <2> HIDE DEF w
  <2>6. handle'[w] = n /\ \A v \in Windows \ {w} : handle'[v] = handle[v] BY <1>1, <2>1, <2>3
  <2>7. \A k \in Sockets : sock[k].side = "registered" => sock[k].window # w
    BY <1>2, <1>6, <2>1 DEF None
  <2>8. \A k \in Sockets : sock'[k].side = "registered" => handle'[sock'[k].window] = k
    <3> SUFFICES ASSUME NEW k \in Sockets, sock'[k].side = "registered" PROVE handle'[sock'[k].window] = k OBVIOUS
    <3>1. CASE k = n BY <2>5, <2>6, <3>1
    <3>2. CASE k # n
      <4>1. sock'[k] = sock[k] /\ sock[k].side = "registered" /\ sock[k].window # w BY <2>4, <2>7, <3>2
      <4>2. sock[k].window \in Windows /\ handle[sock[k].window] = k BY <1>2, <4>1 DEF ConnsLast, None
      <4> QED BY <2>6, <4>1, <4>2
    <3> QED BY <3>1, <3>2
  <2>9. ConnsLast' BY <1>6, <2>4, <2>5, <2>8 DEF ConnsLast
  <2> QED BY <1>2, <2>2, <2>4, <2>5, <2>6, <2>9
<1>7. ASSUME NEW n \in Sockets, ServerReceives(n)
      PROVE  \/ UNCHANGED <<sock, handle>>
             \/ HandleRegistration(n) /\ sock[n].side = "open"
  <2>1. Head(toServer[n]) \in FromExtension BY <1>7 DEF ServerReceives, BridgeTypeOK
  <2>2. Head(toServer[n]).type \in {"register", "response", "final", "changed"} BY <2>1 DEF FromExtension
  <2>3. Head(toServer[n]).type = "register" => sock[n].side = "open" BY <1>7, RegistersReceived DEF SocketsFit
  <2> QED BY <1>7, <2>2, <2>3 DEF ServerReceives
<1>8. ASSUME NEW n \in Sockets, ServerReceives(n) PROVE UNCHANGED <<client, serverLives>>
  BY <1>8 DEF ServerReceives, windowVars
<1> QED
  BY <1>2, <1>3, <1>4, <1>5, <1>6, <1>7, <1>8
     DEF BridgeNext, BridgeProgress, bridgeVars, sockVars, serverVars, cliVars, windowVars,
         WindowReceives, RecordingBegins, CommandEnds, RecordingEnds, SessionChanges, CliDisconnects, CliRequest

-----------------------------------------------------------------------------
(* Requests are asked once *)

\* A step that asks for nothing new, and answers what is in no other place.
LEMMA OneNumberKept ==
  ASSUME OneNumber,
         \A x \in pending' : x \in pending,
         \A n \in Sockets : AskedIn(toExt'[n]) \subseteq AskedIn(toExt[n]),
         \A w \in Windows : \A r \in running'[w] :
           \/ \E s \in running[w] : s.relay = r.relay /\ s.request = r.request
           \/ \E n \in Sockets : \E m \in AskedIn(toExt[n]) : m.relay = r.relay /\ m.request = r.request,
         \A x \in Items' : answer[x.request] = "waiting" => answer'[x.request] = "waiting"
  PROVE  OneNumber'
<1>1. ASSUME NEW x \in Items' PROVE \E y \in Items : y.relay = x.relay /\ y.request = x.request
  <2>1. CASE x \in pending' BY <2>1 DEF Items
  <2>2. CASE \E n \in Sockets : x \in AskedIn(toExt'[n]) BY <2>2 DEF Items
  <2>3. CASE \E w \in Windows : x \in running'[w]
    <3>1. PICK w \in Windows : x \in running'[w] BY <2>3
    <3>2. CASE \E s \in running[w] : s.relay = x.relay /\ s.request = x.request BY <3>2 DEF Items
    <3>3. CASE \E n \in Sockets : \E m \in AskedIn(toExt[n]) : m.relay = x.relay /\ m.request = x.request
      BY <3>3 DEF Items
    <3> QED BY <3>1, <3>2, <3>3
  <2> QED BY <1>1, <2>1, <2>2, <2>3 DEF Items
<1>2. \A x \in Items' : answer'[x.request] = "waiting" BY <1>1 DEF OneNumber
<1>3. ASSUME NEW x \in Items', NEW y \in Items', x.request = y.request PROVE x.relay = y.relay
  <2>1. PICK a \in Items : a.relay = x.relay /\ a.request = x.request BY <1>1
  <2>2. PICK b \in Items : b.relay = y.relay /\ b.request = y.request BY <1>1
  <2> QED BY <1>3, <2>1, <2>2 DEF OneNumber
<1> QED BY <1>2, <1>3 DEF OneNumber

\* What is put into the queues for a CLI that is gone asks for nothing (handleDisconnect).
LEMMA GoneAsksNothing ==
  ASSUME BridgeTypeOK, NEW c \in Clis, CliDisconnects(c)
  PROVE  \A n \in Sockets : AskedIn(toExt'[n]) \subseteq AskedIn(toExt[n])
<1> SUFFICES ASSUME NEW n \in Sockets PROVE AskedIn(toExt'[n]) \subseteq AskedIn(toExt[n]) OBVIOUS
<1>1. toExt[n] \in Seq(ToExtension) BY DEF BridgeTypeOK
<1>2. /\ StopsTo(c, n) \in Seq(ToExtension) /\ AskedIn(StopsTo(c, n)) = {}
      /\ AbortsTo(c, n) \in Seq(ToExtension) /\ AskedIn(AbortsTo(c, n)) = {}
  BY StopsAre, AbortsAre DEF AskedIn
<1>3. toExt[n] \o StopsTo(c, n) \in Seq(ToExtension) /\ AskedIn(toExt[n] \o StopsTo(c, n)) \subseteq AskedIn(toExt[n])
  BY <1>1, <1>2, QueueGrows
<1>4. AskedIn((toExt[n] \o StopsTo(c, n)) \o AbortsTo(c, n)) \subseteq AskedIn(toExt[n] \o StopsTo(c, n))
  BY <1>2, <1>3, QueueGrows
<1>5. toExt'[n] = toExt[n] \/ toExt'[n] = (toExt[n] \o StopsTo(c, n)) \o AbortsTo(c, n) BY DEF CliDisconnects
<1> QED BY <1>3, <1>4, <1>5

\* A message that a window takes is no longer in the queue; the others are.
LEMMA WindowTakes ==
  ASSUME BridgeTypeOK, NEW w \in Windows, WindowReceives(w)
  PROVE  LET n == client[w] IN
         /\ n \in Sockets /\ toExt[n] \in Seq(ToExtension) /\ toExt[n] # <<>> /\ toExt'[n] = Tail(toExt[n])
         /\ \A k \in Sockets \ {n} : toExt'[k] = toExt[k]
         /\ \A k \in Sockets : AskedIn(toExt'[k]) \subseteq AskedIn(toExt[k])
         /\ Head(toExt[n]) \in ToExtension /\ Head(toExt[n]).type \in {"request", "abort", "stop"}
         /\ Head(toExt[n]).type = "request" => Head(toExt[n]) \in AskedIn(toExt[n])
<1> DEFINE n == client[w]
<1>1. /\ n \in Sockets /\ toExt[n] \in Seq(ToExtension) /\ toExt[n] # <<>> /\ toExt' = [toExt EXCEPT ![n] = Tail(@)]
      /\ toExt \in [Sockets -> Seq(ToExtension)]
  BY DEF WindowReceives, ClientOpen, BridgeTypeOK
<1> HIDE DEF n
<1>2. toExt'[n] = Tail(toExt[n]) /\ \A k \in Sockets \ {n} : toExt'[k] = toExt[k] BY <1>1
<1>3. /\ AskedIn(Tail(toExt[n])) \subseteq AskedIn(toExt[n]) /\ Head(toExt[n]) \in ToExtension
      /\ Head(toExt[n]).type = "request" => Head(toExt[n]) \in AskedIn(toExt[n])
  BY <1>1, QueueTaken
<1>4. Head(toExt[n]).type \in {"request", "abort", "stop"} BY <1>3 DEF ToExtension
<1> QED BY <1>1, <1>2, <1>3, <1>4 DEF n

\* What a window does with a message adds a command only for the request that it takes.
LEMMA RunsCome ==
  ASSUME BridgeTypeOK, NEW w \in Windows, WindowReceives(w)
  PROVE  \A v \in Windows : \A r \in running'[v] :
           \/ \E s \in running[v] : s.relay = r.relay /\ s.request = r.request /\ s.begun = r.begun
           \/ \E n \in Sockets : \E m \in AskedIn(toExt[n]) : m.relay = r.relay /\ m.request = r.request
<1> DEFINE n == client[w]
           m == Head(toExt[n])
<1>1. running \in [Windows -> SUBSET Commands] BY DEF BridgeTypeOK
<1>2. /\ n \in Sockets /\ m.type \in {"request", "abort", "stop"}
      /\ m.type = "request" => m \in AskedIn(toExt[n])
  BY WindowTakes
<1>3. CASE UNCHANGED running BY <1>3
<1>4. CASE m.type = "request" /\ Runs(w, n, m) /\ ~UNCHANGED running
  <2> DEFINE s == [relay |-> m.relay, request |-> m.request, conn |-> n,
                   aborted |-> FALSE, abortable |-> TRUE, begun |-> FALSE]
  <2>1. running' = [running EXCEPT ![w] = @ \cup {s}] BY <1>4 DEF Runs
  <2>2. s.relay = m.relay /\ s.request = m.request OBVIOUS
  <2> HIDE DEF s, m, n
  <2>3. \A v \in Windows : \A r \in running'[v] : r \in running[v] \/ r = s BY <1>1, <2>1
  <2> QED BY <1>2, <1>4, <2>2, <2>3
<1>5. CASE Aborts(w, m)
  <2>1. running' = [running EXCEPT ![w] =
          {IF r.relay = m.relay /\ r.abortable THEN [r EXCEPT !.aborted = TRUE] ELSE r : r \in running[w]}]
    BY <1>5 DEF Aborts
  <2>2. \A r \in Commands : LET x == [r EXCEPT !.aborted = TRUE] IN
          x.relay = r.relay /\ x.request = r.request /\ x.begun = r.begun
    BY DEF Commands
  <2> HIDE DEF m, n
  <2>3. \A v \in Windows \ {w} : running'[v] = running[v] BY <1>1, <2>1
  <2>4. \A r \in running'[w] : \E s \in running[w] : s \in Commands /\ (r = s \/ r = [s EXCEPT !.aborted = TRUE]) BY <1>1, <2>1
  <2>5. \A r \in running'[w] : \E s \in running[w] : s.relay = r.relay /\ s.request = r.request /\ s.begun = r.begun
    BY <2>2, <2>4
  <2> QED BY <2>3, <2>5
<1> QED BY <1>2, <1>3, <1>4, <1>5 DEF WindowReceives

\* Every step keeps it, where no connection was lost.
LEMMA OneNumberStays ==
  ASSUME BridgeTypeOK, RequestsFit, RelaysFit, OneNumber, [BridgeNext]_bridgeVars,
         ~ServerRestarts, \A w \in Windows : ~ClientCloses(w), \A n \in Sockets : ~ExtensionDisconnected(n)
  PROVE  OneNumber'
<1> USE DEF sockVars, serverVars, cliVars, windowVars
<1>1. /\ toExt \in [Sockets -> Seq(ToExtension)] /\ running \in [Windows -> SUBSET Commands]
      /\ toServer \in [Sockets -> Seq(FromExtension)] /\ pending \subseteq Waiters /\ nextRelay \in Nat
      /\ answer \in [Requests -> Requests \cup {None, "waiting", "failed"}]
  BY DEF BridgeTypeOK
<1>2. \A n \in Sockets : \A m \in AskedIn(toExt[n]) : m.request \in Requests
  <2> SUFFICES ASSUME NEW n \in Sockets, NEW m \in AskedIn(toExt[n]) PROVE m.request \in Requests OBVIOUS
  <2>1. toExt[n] \in Seq(ToExtension) BY <1>1
  <2>2. m \in ToExtension /\ m.type = "request" BY <2>1 DEF AskedIn
  <2> QED BY <2>2 DEF ToExtension
<1>3. \A x \in Items : x.request \in Requests
  <2>1. \A x \in pending : x.request \in Requests BY <1>1 DEF Waiters
  <2>2. \A w \in Windows : \A x \in running[w] : x.request \in Requests BY <1>1 DEF Commands
  <2> QED BY <1>2, <2>1, <2>2 DEF Items
<1>4. CASE UNCHANGED <<pending, toExt, running, answer>> BY <1>4 DEF OneNumber, Items
<1>5. ASSUME NEW w \in Windows, WindowReceives(w) PROVE OneNumber'
  <2>1. UNCHANGED <<pending, answer>> BY <1>5 DEF WindowReceives
  <2>2. \A n \in Sockets : AskedIn(toExt'[n]) \subseteq AskedIn(toExt[n]) BY <1>5, WindowTakes
  <2>3. \A v \in Windows : \A r \in running'[v] :
           \/ \E s \in running[v] : s.relay = r.relay /\ s.request = r.request
           \/ \E n \in Sockets : \E m \in AskedIn(toExt[n]) : m.relay = r.relay /\ m.request = r.request
    BY <1>5, RunsCome
  <2> QED BY <2>1, <2>2, <2>3, OneNumberKept
<1>6. ASSUME NEW w \in Windows, RecordingBegins(w) \/ CommandEnds(w) PROVE OneNumber'
  <2>1. UNCHANGED <<pending, answer, toExt>> BY <1>6 DEF RecordingBegins, CommandEnds
  <2>2. PICK r \in running[w] :
          running' = [running EXCEPT ![w] = @ \ {r}] \/ running' = [running EXCEPT ![w] = (@ \ {r}) \cup {[r EXCEPT !.begun = TRUE]}]
    BY <1>6 DEF RecordingBegins, CommandEnds
  <2>3. r \in Commands BY <1>1
  <2>4. [r EXCEPT !.begun = TRUE].relay = r.relay /\ [r EXCEPT !.begun = TRUE].request = r.request BY <2>3 DEF Commands
  <2>5. \A v \in Windows : \A x \in running'[v] : x \in running[v] \/ (v = w /\ x = [r EXCEPT !.begun = TRUE]) BY <1>1, <2>2
  <2>6. \A v \in Windows : \A x \in running'[v] : \E s \in running[v] : s.relay = x.relay /\ s.request = x.request
    BY <2>4, <2>5
  <2> QED BY <2>1, <2>6, OneNumberKept
<1>7. ASSUME NEW c \in Clis, CliDisconnects(c) PROVE OneNumber'
  <2>1. pending' \subseteq pending /\ UNCHANGED <<answer, running>> BY <1>7 DEF CliDisconnects
  <2>2. \A n \in Sockets : AskedIn(toExt'[n]) \subseteq AskedIn(toExt[n]) BY <1>7, GoneAsksNothing
  <2> QED BY <2>1, <2>2, OneNumberKept
<1>8. ASSUME NEW q \in Requests, CliRequest(q) PROVE OneNumber'
  <2>1. answer[q] = None /\ UNCHANGED running BY <1>8 DEF CliRequest
  <2>2. \A x \in Items : x.request # q BY <2>1 DEF OneNumber, None
  <2>3. CASE Refuse(q)
    <3>1. answer' = [answer EXCEPT ![q] = "failed"] /\ UNCHANGED <<toExt, pending>> BY <2>3 DEF Refuse
    <3>2. \A x \in Items : answer'[x.request] = answer[x.request] BY <1>1, <1>3, <2>2, <3>1
    <3>3. Items' = Items BY <2>1, <3>1 DEF Items
    <3> QED BY <3>2, <3>3 DEF OneNumber
  <2>4. CASE ~Refuse(q)
    <3> DEFINE w == Resolve(Wants[q])
               n == handle[w]
               p0 == [relay |-> nextRelay, request |-> q, window |-> w, conn |-> n]
               m0 == [type |-> "request", relay |-> nextRelay, request |-> q]
    <3>1. /\ pending' = pending \cup {p0} /\ answer' = [answer EXCEPT ![q] = "waiting"]
          /\ toExt' = toExt \/ toExt' = [toExt EXCEPT ![n] = Append(@, m0)]
      BY <1>8, <2>4 DEF CliRequest, Forward
    <3>2. m0 \in ToExtension /\ m0.type = "request" BY <1>1 DEF ToExtension
    <3>3. p0.relay = nextRelay /\ p0.request = q /\ m0.relay = nextRelay /\ m0.request = q OBVIOUS
    <3> HIDE DEF w, n, p0, m0
    <3>4. ASSUME NEW k \in Sockets PROVE AskedIn(toExt'[k]) \subseteq AskedIn(toExt[k]) \cup {m0}
      <4>1. toExt[k] \in Seq(ToExtension) BY <1>1
      <4>2. toExt'[k] = toExt[k] \/ toExt'[k] = Append(toExt[k], m0) BY <1>1, <3>1
      <4>3. Append(toExt[k], m0) = toExt[k] \o <<m0>> /\ <<m0>> \in Seq(ToExtension) /\ AskedIn(<<m0>>) = {m0}
        BY <3>2, <4>1, MessagePut
      <4>4. AskedIn(toExt[k] \o <<m0>>) \subseteq AskedIn(toExt[k]) \cup AskedIn(<<m0>>) BY <4>1, <4>3, QueueGrows
      <4> QED BY <4>2, <4>3, <4>4
    <3>5. \A x \in Items' : x \in Items \/ x = p0 \/ x = m0 BY <2>1, <3>1, <3>4 DEF Items
    <3>6. \A x \in Items' : (x \in Items /\ x.request # q) \/ (x.request = q /\ x.relay = nextRelay) BY <2>2, <3>3, <3>5
    <3>7. answer'[q] = "waiting" /\ \A x \in Items : answer'[x.request] = answer[x.request] BY <1>1, <1>3, <2>2, <3>1
    <3> QED BY <3>6, <3>7 DEF OneNumber
  <2> QED BY <2>3, <2>4
<1>9. ASSUME NEW n \in Sockets, ServerReceives(n), ~UNCHANGED <<pending, answer>> PROVE OneNumber'
  <2> DEFINE m == Head(toServer[n])
  <2>1. UNCHANGED <<toExt, running>> /\ toServer[n] # <<>> BY <1>9 DEF ServerReceives
  <2>2. toServer[n] \in Seq(FromExtension) BY <1>1
  <2>3. m \in FromExtension /\ (m.type = "response" => m \in AnsweredIn(toServer[n])) BY <2>1, <2>2, QueueTaken
  <2>4. m.type \in {"register", "response", "final", "changed"} BY <2>3 DEF FromExtension
  <2>5. m.type = "response" /\ HandleResponse(m) BY <1>9, <2>4 DEF ServerReceives
  <2> HIDE DEF m
  <2>6. PICK p \in pending : p.relay = m.relay /\ pending' = pending \ {p}
          /\ \E x : answer' = [answer EXCEPT ![p.request] = x]
    BY <1>9, <2>5 DEF HandleResponse
  <2>7. ASSUME NEW x \in Items' PROVE x \in Items /\ x.request # p.request
    <3>1. CASE x \in pending' BY <2>6, <3>1 DEF Items, RequestsFit
    <3>2. CASE \E k \in Sockets : x \in AskedIn(toExt[k])
      <4>1. x.relay # m.relay BY <2>3, <2>5, <3>2 DEF RelaysFit, AskedFit
      <4>2. x \in Items /\ p \in Items BY <3>2 DEF Items
      <4> QED BY <2>6, <4>1, <4>2 DEF OneNumber
    <3>3. CASE \E w \in Windows : x \in running[w]
      <4>1. x.relay # m.relay BY <2>3, <2>5, <3>3 DEF RelaysFit, RunFits
      <4>2. x \in Items /\ p \in Items BY <3>3 DEF Items
      <4> QED BY <2>6, <4>1, <4>2 DEF OneNumber
    <3> QED BY <2>1, <2>7, <3>1, <3>2, <3>3 DEF Items
  <2>8. \A x \in Items' : answer'[x.request] = answer[x.request] BY <1>1, <1>3, <2>6, <2>7
  <2> QED BY <2>7, <2>8 DEF OneNumber
<1>10. ASSUME NEW n \in Sockets, ServerReceives(n) PROVE UNCHANGED <<toExt, running>>
  BY <1>10 DEF ServerReceives
<1> QED
  BY <1>4, <1>5, <1>6, <1>7, <1>8, <1>9, <1>10
     DEF BridgeNext, BridgeProgress, bridgeVars, CloseFrame, ClientConnects, RecordingEnds, SessionChanges

-----------------------------------------------------------------------------
(* A recording begins and ends once *)

\* A step that begins no recording, tells only of ends, and asks only for what was not asked before.
LEMMA RecordedKept ==
  ASSUME BridgeTypeOK, BridgeTypeOK', RecordedOnce,
         \A w \in Windows : recordings'[w] \subseteq recordings[w],
         \A k \in Sockets : \A q \in FinalsIn(toServer'[k]) :
           Recorded(q) /\ ((\E j \in Sockets : q \in FinalsIn(toServer[j])) \/ \A w \in Windows : q \notin recordings'[w]),
         \A q \in Requests : answer[q] # None => answer'[q] # None,
         \A n \in Sockets : \A m \in AskedIn(toExt'[n]) :
           answer[m.request] = None \/ \E k \in Sockets : \E x \in AskedIn(toExt[k]) : x.request = m.request,
         \A w \in Windows : \A r \in running'[w] :
           \/ \E s \in running[w] : s.request = r.request /\ (s.begun => r.begun)
           \/ \E k \in Sockets : \E x \in AskedIn(toExt[k]) : x.request = r.request,
         \A p \in pending' : p \in pending \/ answer[p.request] = None,
         \A w \in Windows : client[w] # 0 => client'[w] # 0
  PROVE  RecordedOnce'
<1>1. recordings \in [Windows -> SUBSET Requests] BY DEF BridgeTypeOK
<1>2. \A q : Recorded(q)' => Recorded(q) BY DEF Recorded
<1>3. ASSUME NEW q \in Requests, Recorded(q)'
      PROVE  /\ answer'[q] # None /\ Kind[q] = "record"
             /\ \A n \in Sockets : \A m \in AskedIn(toExt'[n]) : m.request # q
             /\ \A w \in Windows : \A r \in running'[w] : r.request = q => r.begun
  <2>1. /\ answer[q] # None /\ Kind[q] = "record"
        /\ \A n \in Sockets : \A m \in AskedIn(toExt[n]) : m.request # q
        /\ \A w \in Windows : \A r \in running[w] : r.request = q => r.begun
    BY <1>2, <1>3 DEF RecordedOnce
  <2> QED BY <2>1
<1>4. ASSUME NEW w \in Windows, NEW q \in recordings'[w]
      PROVE  /\ client'[w] # 0
             /\ \A v \in Windows : q \in recordings'[v] => v = w
             /\ \A k \in Sockets : q \notin FinalsIn(toServer'[k])
             /\ \A p \in pending' : p.request = q => p.window = w
  <2>1. q \in recordings[w] /\ q \in Requests BY <1>1
  <2>2. /\ client[w] # 0
        /\ \A v \in Windows : q \in recordings[v] => v = w
        /\ \A k \in Sockets : q \notin FinalsIn(toServer[k])
        /\ \A p \in pending : p.request = q => p.window = w
    BY <2>1 DEF RecordedOnce
  <2>3. answer[q] # None BY <2>1 DEF RecordedOnce, Recorded
  <2> QED BY <1>4, <2>2, <2>3
<1> QED BY <1>3, <1>4 DEF RecordedOnce

\* The recording that begins is of a command that had begun none: its request was not recorded before.
LEMMA RecordedBegins ==
  ASSUME BridgeTypeOK, SocketsFit, OpenIsClients, ConnsLast, Calm, RelaysFit, RunOnce, OneNumber, RecordedOnce,
         NEW w \in Windows, RecordingBegins(w)
  PROVE  RecordedOnce' /\ \A q \in recordings'[w] : answer[q] = "waiting"
<1>1. PICK r \in running[w] :
        /\ Kind[r.request] = "record" /\ ~r.begun /\ recordings' = [recordings EXCEPT ![w] = {r.request}]
        /\ running' = [running EXCEPT ![w] = (@ \ {r}) \cup {[r EXCEPT !.begun = TRUE]}]
  BY DEF RecordingBegins
<1> DEFINE q == r.request
           b == [r EXCEPT !.begun = TRUE]
<1>2. UNCHANGED <<sock, toServer, toExt, pending, answer, client, handle>>
  BY DEF RecordingBegins, sockVars, serverVars, cliVars
<1>3. /\ running \in [Windows -> SUBSET Commands] /\ recordings \in [Windows -> SUBSET Requests]
      /\ toExt \in [Sockets -> Seq(ToExtension)]
  BY DEF BridgeTypeOK
<1>4. r \in Commands BY <1>3
<1>5. q \in Requests /\ r.conn \in Sockets /\ b.request = q /\ b.begun BY <1>4 DEF Commands
<1>6. r \in Items BY DEF Items
<1>7. answer[q] = "waiting" BY <1>6 DEF OneNumber
<1>8. ~Recorded(q) BY <1>1, <1>5 DEF RecordedOnce
\* Nothing else is of that request: it would have its number.
<1>9. \A n \in Sockets : \A m \in AskedIn(toExt[n]) : m.request # q
  <2> SUFFICES ASSUME NEW n \in Sockets, NEW m \in AskedIn(toExt[n]), m.request = q PROVE FALSE OBVIOUS
  <2>1. m \in Items BY DEF Items
  <2>2. m.relay = r.relay BY <1>6, <2>1 DEF OneNumber
  <2> QED BY <2>2 DEF RelaysFit, AskedFit
<1>10. \A v \in Windows : \A s \in running[v] : s.request = q => s = r
  <2> SUFFICES ASSUME NEW v \in Windows, NEW s \in running[v], s.request = q PROVE s = r OBVIOUS
  <2>1. s \in Items BY DEF Items
  <2>2. s.relay = r.relay BY <1>6, <2>1 DEF OneNumber
  <2> QED BY <2>2 DEF RunOnce
<1>11. \A p \in pending : p.request = q => p.window = w
  <2> SUFFICES ASSUME NEW p \in pending, p.request = q PROVE p.window = w OBVIOUS
  <2>1. p \in Items BY DEF Items
  <2>2. p.relay = r.relay BY <1>6, <2>1 DEF OneNumber
  <2>3. p.conn = r.conn BY <2>2 DEF RelaysFit, RunFits
  <2> QED BY <2>3 DEF SocketsFit, ConnsFit
<1>12. client[w] # 0
  <2>1. sock[r.conn].window = w BY DEF SocketsFit, ConnsFit
  <2>2. sock[r.conn].side # None BY <1>5 DEF SocketsFit, QuietBefore, Unregistered
  <2>3. client[w] = r.conn BY <1>5, <2>1, <2>2, CalmConns
  <2> QED BY <1>5, <2>3 DEF Sockets
<1> HIDE DEF q, b
<1>13. /\ recordings'[w] = {q} /\ \A v \in Windows \ {w} : recordings'[v] = recordings[v]
       /\ \A v \in Windows : \A s \in running'[v] : (s \in running[v] /\ s # r) \/ s = b
  <2>1. recordings'[w] = {q} /\ \A v \in Windows \ {w} : recordings'[v] = recordings[v] BY <1>1, <1>3 DEF q
  <2>2. running'[w] = (running[w] \ {r}) \cup {b} /\ \A v \in Windows \ {w} : running'[v] = running[v] BY <1>1, <1>3 DEF b
  <2>3. \A v \in Windows \ {w} : r \notin running[v]
    BY DEF RunOnce
  <2> QED BY <2>1, <2>2, <2>3
<1>14. ASSUME NEW x \in Requests, Recorded(x)'
       PROVE  /\ answer'[x] # None /\ Kind[x] = "record"
              /\ \A n \in Sockets : \A m \in AskedIn(toExt'[n]) : m.request # x
              /\ \A v \in Windows : \A s \in running'[v] : s.request = x => s.begun
  <2>1. CASE x = q
    <3>1. answer'[x] # None /\ Kind[x] = "record" BY <1>1, <1>2, <1>7, <2>1 DEF None, q
    <3>2. \A v \in Windows : \A s \in running'[v] : s.request = x => s.begun BY <1>5, <1>10, <1>13, <2>1
    <3> QED BY <1>2, <1>9, <2>1, <3>1, <3>2
  <2>2. CASE x # q
    <3>1. Recorded(x) BY <1>2, <1>13, <1>14, <2>2 DEF Recorded
    <3>2. /\ answer[x] # None /\ Kind[x] = "record"
          /\ \A n \in Sockets : \A m \in AskedIn(toExt[n]) : m.request # x
          /\ \A v \in Windows : \A s \in running[v] : s.request = x => s.begun
      BY <3>1 DEF RecordedOnce
    <3> QED BY <1>2, <1>5, <1>13, <3>2
  <2> QED BY <2>1, <2>2
<1>15. ASSUME NEW v \in Windows, NEW x \in recordings'[v]
       PROVE  /\ client'[v] # 0
              /\ \A u \in Windows : x \in recordings'[u] => u = v
              /\ \A k \in Sockets : x \notin FinalsIn(toServer'[k])
              /\ \A p \in pending' : p.request = x => p.window = v
  <2>1. CASE x = q
    <3>1. v = w /\ \A u \in Windows : x \in recordings'[u] => u = w BY <1>8, <1>13, <1>15, <2>1 DEF Recorded
    <3> QED BY <1>2, <1>8, <1>11, <1>12, <2>1, <3>1 DEF Recorded
  <2>2. CASE x # q
    <3>1. x \in recordings[v] /\ v # w BY <1>13, <1>15, <2>2
    <3>2. \A u \in Windows : x \in recordings'[u] => x \in recordings[u] BY <1>13, <2>2
    <3> QED BY <1>2, <3>1, <3>2 DEF RecordedOnce
  <2> QED BY <2>1, <2>2
<1> QED BY <1>7, <1>13, <1>14, <1>15 DEF RecordedOnce

\* Every step keeps it, where no connection was lost.
LEMMA RecordedStays ==
  ASSUME BridgeTypeOK, BridgeTypeOK', SocketsFit, OpenIsClients, ConnsLast, RelaysFit, RunOnce, OneNumber, RecordedOnce,
         [BridgeNext]_bridgeVars, Calm, Calm'
  PROVE  RecordedOnce'
<1> USE DEF sockVars, serverVars, cliVars, windowVars
<1>1. /\ toServer \in [Sockets -> Seq(FromExtension)] /\ toExt \in [Sockets -> Seq(ToExtension)]
      /\ recordings \in [Windows -> SUBSET Requests] /\ running \in [Windows -> SUBSET Commands]
      /\ answer \in [Requests -> Requests \cup {None, "waiting", "failed"}]
  BY DEF BridgeTypeOK
<1>2. /\ \A w \in Windows : client[w] # 0 => client'[w] # 0
      /\ ~ServerRestarts /\ \A w \in Windows : ~ClientCloses(w)
      /\ \A n \in Sockets : ~CloseFrame(n) /\ ~ExtensionDisconnected(n)
  BY ConnsLastStay, CalmBefore, CalmConns
<1>3. \A n \in Sockets : \A m \in AskedIn(toExt[n]) : \E k \in Sockets : \E x \in AskedIn(toExt[k]) : x.request = m.request
  OBVIOUS
<1>4. \A k \in Sockets : \A q \in FinalsIn(toServer[k]) : Recorded(q) BY DEF Recorded
<1>5. CASE UNCHANGED <<toServer, toExt, recordings, running, answer, pending, client>>
  BY <1>5 DEF RecordedOnce, Recorded
<1>6. ASSUME NEW w \in Windows, ClientConnects(w) PROVE RecordedOnce'
  <2>1. PICK n \in Sockets : toServer' = [toServer EXCEPT ![n] = <<[type |-> "register"]>>]
    BY <1>6 DEF ClientConnects
  <2>2. UNCHANGED <<toExt, recordings, running, answer, pending>> BY <1>6 DEF ClientConnects
  <2>3. \A k \in Sockets : FinalsIn(toServer'[k]) \subseteq FinalsIn(toServer[k])
    <3>1. toServer'[n] = <<[type |-> "register"]>> /\ \A k \in Sockets \ {n} : toServer'[k] = toServer[k] BY <1>1, <2>1
    <3>2. FinalsIn(<<[type |-> "register"]>>) = {} BY DEF FinalsIn
    <3> QED BY <3>1, <3>2
  <2> QED BY <1>2, <1>3, <1>4, <2>2, <2>3, RecordedKept
<1>7. ASSUME NEW w \in Windows, WindowReceives(w) PROVE RecordedOnce'
  <2> DEFINE m == Head(toExt[client[w]])
  <2>1. UNCHANGED <<answer, pending, client>> BY <1>7 DEF WindowReceives
  <2>2. /\ \A k \in Sockets : AskedIn(toExt'[k]) \subseteq AskedIn(toExt[k])
        /\ m \in ToExtension /\ m.type \in {"request", "abort", "stop"}
    BY <1>7, WindowTakes
  <2>3. \A v \in Windows : \A r \in running'[v] :
           \/ \E s \in running[v] : s.request = r.request /\ (s.begun => r.begun)
           \/ \E n \in Sockets : \E x \in AskedIn(toExt[n]) : x.request = r.request
    BY <1>7, RunsCome
  <2>4. CASE m.type = "stop"
    <3>1. Sent(w, Finals(w)) /\ recordings' = [recordings EXCEPT ![w] = {}] BY <1>7, <2>4 DEF WindowReceives
    <3> HIDE DEF m
    <3>2. recordings'[w] = {} /\ \A v \in Windows \ {w} : recordings'[v] = recordings[v] BY <1>1, <3>1
    <3>3. \A k \in Sockets : \A q \in FinalsIn(toServer'[k]) : q \in FinalsIn(toServer[k]) \/ q \in recordings[w]
      BY <3>1, FinalsAre, FinalsMove, FinalsName
    <3>4. \A q \in recordings[w] : Recorded(q) /\ \A v \in Windows : q \notin recordings'[v]
      BY <3>2 DEF RecordedOnce, Recorded
    <3> QED BY <1>2, <1>3, <1>4, <2>1, <2>2, <2>3, <3>2, <3>3, <3>4, RecordedKept
  <2>5. CASE m.type # "stop"
    <3>1. recordings' = recordings BY <1>7, <2>2, <2>5 DEF WindowReceives
    <3>2. toServer' = toServer \/ (m.type = "request" /\ Sent(w, <<Response(m, FALSE)>>))
      BY <1>7, <2>2, <2>5 DEF WindowReceives, Runs
    <3>3. \A k \in Sockets : FinalsIn(toServer'[k]) \subseteq FinalsIn(toServer[k])
      <4>1. CASE toServer' = toServer BY <4>1
      <4>2. CASE m.type = "request" /\ Sent(w, <<Response(m, FALSE)>>)
        <5>1. m.relay \in Nat /\ m.request \in Requests BY <2>2, <4>2 DEF ToExtension
        <5>2. Response(m, FALSE) \in FromExtension /\ Response(m, FALSE).type = "response" BY <5>1 DEF Response, FromExtension
        <5>3. \A x \in FromExtension : <<x>> \in Seq(FromExtension) /\ (x.type # "final" => FinalsIn(<<x>>) = {})
          BY DEF FinalsIn
        <5>4. <<Response(m, FALSE)>> \in Seq(FromExtension) /\ FinalsIn(<<Response(m, FALSE)>>) = {} BY <5>2, <5>3
        <5> QED BY <4>2, <5>4, FinalsMove
      <4> QED BY <3>2, <4>1, <4>2
    <3> HIDE DEF m
    <3> QED BY <1>2, <1>3, <1>4, <2>1, <2>2, <2>3, <3>1, <3>3, RecordedKept
  <2> QED BY <2>4, <2>5
<1>8. ASSUME NEW w \in Windows, CommandEnds(w) PROVE RecordedOnce'
  <2>1. PICK r \in running[w] : \E ok \in BOOLEAN :
          running' = [running EXCEPT ![w] = @ \ {r}] /\ Sent(w, <<Response(r, ok)>>)
    <3>1. PICK r \in running[w] :
            /\ running' = [running EXCEPT ![w] = @ \ {r}]
            /\ Sent(w, <<Response(r, IF Kind[r.request] = "record" THEN r.begun ELSE ~r.aborted)>>)
      BY <1>8 DEF CommandEnds
    <3>2. r \in Commands BY <1>1
    <3>3. (IF Kind[r.request] = "record" THEN r.begun ELSE ~r.aborted) \in BOOLEAN BY <3>2 DEF Commands
    <3> QED BY <3>1, <3>3
  <2>2. PICK ok \in BOOLEAN : running' = [running EXCEPT ![w] = @ \ {r}] /\ Sent(w, <<Response(r, ok)>>) BY <2>1
  <2>3. UNCHANGED <<toExt, recordings, answer, pending, client>> BY <1>8 DEF CommandEnds
  <2>4. \A v \in Windows : running'[v] \subseteq running[v] BY <1>1, <2>2
  <2>5. r \in Commands BY <1>1
  <2>6. Response(r, ok) \in FromExtension /\ Response(r, ok).type = "response"
    <3>1. r.relay \in Nat /\ r.request \in Requests BY <2>5 DEF Commands
    <3> QED BY <3>1 DEF Response, FromExtension
  <2>7. \A x \in FromExtension : <<x>> \in Seq(FromExtension) /\ (x.type # "final" => FinalsIn(<<x>>) = {})
    BY DEF FinalsIn
  <2>8. <<Response(r, ok)>> \in Seq(FromExtension) /\ FinalsIn(<<Response(r, ok)>>) = {} BY <2>6, <2>7
  <2>9. \A k \in Sockets : FinalsIn(toServer'[k]) \subseteq FinalsIn(toServer[k]) BY <2>2, <2>8, FinalsMove
  <2> QED BY <1>3, <1>4, <2>3, <2>4, <2>9, RecordedKept
<1>9. ASSUME NEW w \in Windows, RecordingEnds(w) PROVE RecordedOnce'
  <2>1. Sent(w, Finals(w)) /\ recordings' = [recordings EXCEPT ![w] = {}] /\ UNCHANGED <<toExt, running, answer, pending, client>>
    BY <1>9 DEF RecordingEnds
  <2>2. recordings'[w] = {} /\ \A v \in Windows \ {w} : recordings'[v] = recordings[v] BY <1>1, <2>1
  <2>3. \A k \in Sockets : \A q \in FinalsIn(toServer'[k]) : q \in FinalsIn(toServer[k]) \/ q \in recordings[w]
    BY <2>1, FinalsAre, FinalsMove, FinalsName
  <2>4. \A q \in recordings[w] : Recorded(q) /\ \A v \in Windows : q \notin recordings'[v]
    BY <2>2 DEF RecordedOnce, Recorded
  <2> QED BY <1>3, <1>4, <2>1, <2>2, <2>3, <2>4, RecordedKept
<1>s. ASSUME NEW w \in Windows, SessionChanges(w) PROVE RecordedOnce'
  <2>1. PICK messages \in Seq(FromExtension) :
          Sent(w, messages) /\ \A i \in DOMAIN messages : messages[i].type = "changed"
    BY <1>s, ChangesAre
  <2>2. UNCHANGED <<toExt, recordings, running, answer, pending, client>> BY <1>s DEF SessionChanges
  <2>3. FinalsIn(messages) = {} BY <2>1 DEF FinalsIn
  <2>4. \A k \in Sockets : FinalsIn(toServer'[k]) \subseteq FinalsIn(toServer[k]) BY <2>1, <2>3, FinalsMove
  <2> QED BY <1>3, <1>4, <2>2, <2>4, RecordedKept
<1>10. ASSUME NEW c \in Clis, CliDisconnects(c) PROVE RecordedOnce'
  <2>1. pending' \subseteq pending /\ UNCHANGED <<toServer, recordings, running, answer, client>> BY <1>10 DEF CliDisconnects
  <2>2. \A n \in Sockets : AskedIn(toExt'[n]) \subseteq AskedIn(toExt[n]) BY <1>10, GoneAsksNothing
  <2> QED BY <1>3, <1>4, <2>1, <2>2, RecordedKept
<1>11. ASSUME NEW q \in Requests, CliRequest(q) PROVE RecordedOnce'
  <2>1. answer[q] = None /\ UNCHANGED <<toServer, recordings, running, client>> BY <1>11 DEF CliRequest
  <2>2. CASE Refuse(q)
    <3>1. answer' = [answer EXCEPT ![q] = "failed"] /\ UNCHANGED <<toExt, pending>> BY <2>2 DEF Refuse
    <3>2. \A x \in Requests : answer[x] # None => answer'[x] # None BY <1>1, <3>1 DEF None
    <3> QED BY <1>3, <1>4, <2>1, <3>1, <3>2, RecordedKept
  <2>3. CASE ~Refuse(q)
    <3> DEFINE w == Resolve(Wants[q])
               n == handle[w]
               p0 == [relay |-> nextRelay, request |-> q, window |-> w, conn |-> n]
               m0 == [type |-> "request", relay |-> nextRelay, request |-> q]
    <3>1. /\ pending' = pending \cup {p0} /\ answer' = [answer EXCEPT ![q] = "waiting"]
          /\ toExt' = toExt \/ toExt' = [toExt EXCEPT ![n] = Append(@, m0)]
      BY <1>11, <2>3 DEF CliRequest, Forward
    <3>2. m0 \in ToExtension /\ m0.type = "request" BY DEF ToExtension, BridgeTypeOK
    <3>3. p0.request = q /\ m0.request = q OBVIOUS
    <3> HIDE DEF w, n, p0, m0
    <3>4. ASSUME NEW k \in Sockets PROVE AskedIn(toExt'[k]) \subseteq AskedIn(toExt[k]) \cup {m0}
      <4>1. toExt[k] \in Seq(ToExtension) BY <1>1
      <4>2. toExt'[k] = toExt[k] \/ toExt'[k] = Append(toExt[k], m0) BY <1>1, <3>1
      <4>3. Append(toExt[k], m0) = toExt[k] \o <<m0>> /\ <<m0>> \in Seq(ToExtension) /\ AskedIn(<<m0>>) = {m0}
        BY <3>2, <4>1, MessagePut
      <4>4. AskedIn(toExt[k] \o <<m0>>) \subseteq AskedIn(toExt[k]) \cup AskedIn(<<m0>>) BY <4>1, <4>3, QueueGrows
      <4> QED BY <4>2, <4>3, <4>4
    <3>5. \A x \in Requests : answer[x] # None => answer'[x] # None BY <1>1, <3>1 DEF None
    <3>6. \A k \in Sockets : \A m \in AskedIn(toExt'[k]) :
            answer[m.request] = None \/ \E j \in Sockets : \E x \in AskedIn(toExt[j]) : x.request = m.request
      BY <2>1, <3>3, <3>4
    <3>7. \A p \in pending' : p \in pending \/ answer[p.request] = None BY <2>1, <3>1, <3>3
    <3> QED BY <1>4, <2>1, <3>5, <3>6, <3>7, RecordedKept
  <2> QED BY <2>2, <2>3
<1>12. ASSUME NEW n \in Sockets, ServerReceives(n) PROVE RecordedOnce'
  <2> DEFINE m == Head(toServer[n])
  <2>1. UNCHANGED <<toExt, recordings, running, client>> /\ toServer[n] # <<>> /\ toServer' = [toServer EXCEPT ![n] = Tail(@)]
    BY <1>12 DEF ServerReceives
  <2>2. \A k \in Sockets : FinalsIn(toServer'[k]) \subseteq FinalsIn(toServer[k])
    <3>1. toServer'[n] = Tail(toServer[n]) /\ \A k \in Sockets \ {n} : toServer'[k] = toServer[k] BY <1>1, <2>1
    <3> QED BY <2>1, <3>1, FinalsMove
  <2>3. toServer[n] \in Seq(FromExtension) BY <1>1
  <2>4. m \in FromExtension BY <2>1, <2>3, QueueTaken
  <2>5. m.type \in {"register", "response", "final", "changed"} BY <2>4 DEF FromExtension
  <2>6. UNCHANGED <<pending, answer>> \/ (m.type = "response" /\ HandleResponse(m)) BY <1>12, <2>5 DEF ServerReceives
  <2>7. m.type = "response" => m.request \in Requests BY <2>4 DEF FromExtension
  <2> HIDE DEF m
  <2>8. pending' \subseteq pending /\ \A x \in Requests : answer[x] # None => answer'[x] # None
    <3>1. CASE UNCHANGED <<pending, answer>> BY <3>1
    <3>2. CASE m.type = "response" /\ HandleResponse(m) /\ ~UNCHANGED <<pending, answer>>
      <4>1. PICK p \in pending : pending' = pending \ {p} /\
              (answer' = [answer EXCEPT ![p.request] = m.request] \/ answer' = [answer EXCEPT ![p.request] = "failed"])
        BY <3>2 DEF HandleResponse
      <4>2. m.request # None BY <2>7, <3>2, BridgeAssumption DEF None
      <4> QED BY <1>1, <4>1, <4>2 DEF None
    <3> QED BY <2>6, <3>1, <3>2
  <2> QED BY <1>3, <1>4, <2>1, <2>2, <2>8, RecordedKept
<1>13. ASSUME NEW w \in Windows, RecordingBegins(w) PROVE RecordedOnce' BY <1>13, RecordedBegins
<1> QED
  BY <1>2, <1>5, <1>6, <1>7, <1>8, <1>9, <1>s, <1>10, <1>11, <1>12, <1>13 DEF BridgeNext, BridgeProgress, bridgeVars

-----------------------------------------------------------------------------
(* Leases and stops *)

\* A step after which no more is asked of leases than before, and which keeps those asked for.
LEMMA LeasesKept ==
  ASSUME BridgeTypeOK, SocketsFit, OpenIsClients, ConnsLast, RecordedOnce, LeasesFit,
         [BridgeNext]_bridgeVars, Calm, Calm',
         \A w \in Windows : \A q \in recordings'[w] : answer'[q] = q /\ cli'[Issuer[q]] = "connected" =>
           /\ q \in recordings[w] /\ answer[q] = q /\ cli[Issuer[q]] = "connected"
           /\ \A l \in leases : l.recording = q /\ l.cli = Issuer[q] => l \in leases'
  PROVE  LeasesFit'
<1> SUFFICES ASSUME NEW w \in Windows, NEW q \in recordings'[w], answer'[q] = q, cli'[Issuer[q]] = "connected"
             PROVE  /\ handle'[w] = client'[w] /\ sock'[client'[w]].side = "registered"
                    /\ \E l \in leases' : l.recording = q /\ l.cli = Issuer[q] /\ l.window = w
  BY DEF LeasesFit
<1>1. /\ q \in recordings[w] /\ answer[q] = q /\ cli[Issuer[q]] = "connected"
      /\ \A l \in leases : l.recording = q /\ l.cli = Issuer[q] => l \in leases'
  OBVIOUS
<1>2. /\ handle[w] = client[w] /\ sock[client[w]].side = "registered"
      /\ \E l \in leases : l.recording = q /\ l.cli = Issuer[q] /\ l.window = w
  BY <1>1 DEF LeasesFit
<1>3. client[w] # 0 BY <1>1 DEF RecordedOnce
<1>4. client'[w] = client[w] /\ handle'[w] = handle[w] /\ sock'[client[w]].side = "registered"
  BY <1>2, <1>3, ConnsLastStay
<1> QED BY <1>1, <1>2, <1>4

\* The same of stops.
LEMMA StopsKept ==
  ASSUME BridgeTypeOK, SocketsFit, OpenIsClients, ConnsLast, RecordedOnce, StopsFit,
         [BridgeNext]_bridgeVars, Calm, Calm',
         \A w \in Windows : \A q \in recordings'[w] : answer'[q] = q /\ cli'[Issuer[q]] = "gone" =>
           q \in recordings[w] /\ answer[q] = q /\ cli[Issuer[q]] = "gone",
         \A n \in Sockets : \A i \in DOMAIN toExt[n] : toExt[n][i].type = "stop" =>
           \E j \in DOMAIN toExt'[n] : toExt'[n][j].type = "stop"
  PROVE  StopsFit'
<1> SUFFICES ASSUME NEW w \in Windows, NEW q \in recordings'[w], answer'[q] = q, cli'[Issuer[q]] = "gone"
             PROVE  \E i \in DOMAIN toExt'[client'[w]] : toExt'[client'[w]][i].type = "stop"
  BY DEF StopsFit
<1>1. q \in recordings[w] /\ answer[q] = q /\ cli[Issuer[q]] = "gone" OBVIOUS
<1>2. \E i \in DOMAIN toExt[client[w]] : toExt[client[w]][i].type = "stop" BY <1>1 DEF StopsFit
<1>3. client[w] # 0 BY <1>1 DEF RecordedOnce
<1>4. client'[w] = client[w] /\ client[w] \in Sockets BY <1>3, ConnsLastStay, CalmConns
<1> QED BY <1>2, <1>4

\* Who has an answer has connected, and is not gone as long as it asks; only an answer of its own
\* tells a CLI of a recording (handleExtensionResponse).
LEMMA AnswersCome ==
  ASSUME BridgeTypeOK, RequestsFit, ConnsLast, [BridgeNext]_bridgeVars, ~ServerRestarts,
         \A n \in Sockets : ~ServerReceives(n) /\ ~ExtensionDisconnected(n),
         NEW q \in Requests, answer'[q] = q
  PROVE  /\ answer[q] = q
         /\ cli'[Issuer[q]] = "connected" => cli[Issuer[q]] = "connected"
         /\ cli'[Issuer[q]] = "gone" => cli[Issuer[q]] = "gone" \/ CliDisconnects(Issuer[q])
<1> USE DEF sockVars, serverVars, cliVars, windowVars
<1>1. /\ answer \in [Requests -> Requests \cup {None, "waiting", "failed"}] /\ cli \in [Clis -> {"away", "connected", "gone"}]
      /\ Issuer \in [Requests -> Clis] /\ q # None /\ q # "waiting" /\ q # "failed"
  BY BridgeAssumption DEF BridgeTypeOK, RequestsFit, None
<1>2. Issuer[q] \in Clis BY <1>1
<1>3. CASE UNCHANGED <<answer, cli>> BY <1>3
<1>4. ASSUME NEW c \in Clis, CliDisconnects(c)
      PROVE  /\ answer[q] = q
             /\ cli'[Issuer[q]] = "connected" => cli[Issuer[q]] = "connected"
             /\ cli'[Issuer[q]] = "gone" => cli[Issuer[q]] = "gone" \/ CliDisconnects(Issuer[q])
  <2>1. answer' = answer /\ cli' = [cli EXCEPT ![c] = "gone"] BY <1>4 DEF CliDisconnects
  <2>2. CASE Issuer[q] = c BY <1>1, <1>2, <1>4, <2>1, <2>2
  <2>3. CASE Issuer[q] # c BY <1>1, <1>2, <2>1, <2>3
  <2> QED BY <2>2, <2>3
<1>5. ASSUME NEW x \in Requests, CliRequest(x)
      PROVE  /\ answer[q] = q
             /\ cli'[Issuer[q]] = "connected" => cli[Issuer[q]] = "connected"
             /\ cli'[Issuer[q]] = "gone" => cli[Issuer[q]] = "gone" \/ CliDisconnects(Issuer[q])
  <2>1. /\ cli' = [cli EXCEPT ![Issuer[x]] = "connected"] /\ cli[Issuer[x]] # "gone"
        /\ answer' = [answer EXCEPT ![x] = "waiting"] \/ answer' = [answer EXCEPT ![x] = "failed"]
    BY <1>5 DEF CliRequest, Refuse, Forward
  <2>2. answer[q] = q BY <1>1, <2>1
  <2>3. cli[Issuer[q]] # "away" BY <1>1, <2>2 DEF RequestsFit
  <2>4. cli[Issuer[q]] \in {"away", "connected", "gone"} BY <1>1, <1>2
  <2>5. cli'[Issuer[q]] = cli[Issuer[q]] \/ (Issuer[q] = Issuer[x] /\ cli'[Issuer[q]] = "connected") BY <1>1, <1>2, <2>1
  <2> QED BY <2>1, <2>2, <2>3, <2>4, <2>5
<1> QED
  BY <1>3, <1>4, <1>5
     DEF BridgeNext, BridgeProgress, bridgeVars, CloseFrame, ClientConnects, WindowReceives, RecordingBegins, CommandEnds,
         ClientCloses, RecordingEnds, SessionChanges

\* What is recorded after a step was recorded before, or is not answered yet.
LEMMA RecordingsCome ==
  ASSUME BridgeTypeOK, SocketsFit, OpenIsClients, ConnsLast, Calm, RelaysFit, RunOnce, OneNumber, RecordedOnce,
         [BridgeNext]_bridgeVars, NEW w \in Windows, NEW q \in recordings'[w]
  PROVE  q \in Requests /\ (q \in recordings[w] \/ answer'[q] = "waiting")
<1> USE DEF sockVars, serverVars, cliVars, windowVars
<1>1. recordings \in [Windows -> SUBSET Requests] /\ running \in [Windows -> SUBSET Commands] BY DEF BridgeTypeOK
<1>2. CASE recordings' = recordings BY <1>1, <1>2
<1>3. ASSUME NEW v \in Windows, RecordingBegins(v) PROVE q \in Requests /\ (q \in recordings[w] \/ answer'[q] = "waiting")
  <2>1. PICK r \in running[v] : recordings' = [recordings EXCEPT ![v] = {r.request}] BY <1>3 DEF RecordingBegins
  <2>2. r.request \in Requests
    <3>1. r \in Commands BY <1>1
    <3> QED BY <3>1 DEF Commands
  <2>3. answer' = answer BY <1>3 DEF RecordingBegins
  <2>4. CASE w = v
    <3>1. answer[q] = "waiting" BY <1>3, <2>4, RecordedBegins
    <3> QED BY <1>1, <2>1, <2>2, <2>3, <2>4, <3>1
  <2>5. CASE w # v BY <1>1, <2>1, <2>5
  <2> QED BY <2>4, <2>5
<1>4. ASSUME NEW v \in Windows, recordings' = [recordings EXCEPT ![v] = {}] PROVE q \in Requests /\ q \in recordings[w]
  BY <1>1, <1>4
<1>5. ASSUME NEW v \in Windows, WindowReceives(v) PROVE recordings' = recordings \/ recordings' = [recordings EXCEPT ![v] = {}]
  <2>1. Head(toExt[client[v]]).type \in {"request", "abort", "stop"} BY <1>5, WindowTakes
  <2> QED BY <1>5, <2>1 DEF WindowReceives
<1>6. ASSUME NEW v \in Windows, RecordingEnds(v) PROVE recordings' = [recordings EXCEPT ![v] = {}]
  BY <1>6 DEF RecordingEnds
<1> QED
  BY <1>2, <1>3, <1>4, <1>5, <1>6
     DEF BridgeNext, BridgeProgress, bridgeVars, CloseFrame, ExtensionDisconnected, ServerReceives, ClientConnects,
         CommandEnds, ClientCloses, SessionChanges, CliDisconnects, CliRequest, ServerRestarts

\* Whoever is told of a recording gets the lease for it, on the connection that carries the stop.
LEMMA AnswerGivesLease ==
  ASSUME BridgeTypeOK, SocketsFit, OpenIsClients, ConnsLast, RequestsFit, RecordedOnce, Calm,
         NEW m \in FromExtension, m.type = "response", HandleResponse(m),
         NEW w \in Windows, NEW q \in recordings[w], q \in Requests, answer'[q] = q
  PROVE  \/ answer[q] = q /\ leases \subseteq leases'
         \/ /\ handle[w] = client[w] /\ sock[client[w]].side = "registered" /\ cli[Issuer[q]] = "connected"
            /\ \E l \in leases' : l.recording = q /\ l.cli = Issuer[q] /\ l.window = w
<1>1. answer \in [Requests -> Requests \cup {None, "waiting", "failed"}] /\ pending \subseteq Waiters /\ q # "failed"
  BY BridgeAssumption DEF BridgeTypeOK
<1>2. CASE UNCHANGED <<leases, answer>> BY <1>2
<1>3. CASE ~UNCHANGED <<leases, answer>>
  <2>1. PICK p \in pending :
          /\ leases' = IF m.ok /\ Kind[m.request] = Kind[p.request] /\ Kind[p.request] = "record"
                       THEN leases \cup {[recording |-> m.request, cli |-> Issuer[p.request], window |-> p.window]}
                       ELSE leases
          /\ answer' = [answer EXCEPT ![p.request] =
                          IF m.ok /\ Kind[m.request] = Kind[p.request] THEN m.request ELSE "failed"]
    BY <1>3 DEF HandleResponse
  <2>2. leases \subseteq leases' BY <2>1
  <2>3. CASE p.request # q BY <1>1, <2>1, <2>2, <2>3
  <2>4. CASE p.request = q
    <3>1. answer'[q] = IF m.ok /\ Kind[m.request] = Kind[q] THEN m.request ELSE "failed" BY <1>1, <2>1, <2>4
    <3>2. m.ok /\ Kind[m.request] = Kind[q] /\ m.request = q BY <1>1, <3>1
    <3>3. Kind[q] = "record" /\ p.window = w BY <2>4 DEF RecordedOnce, Recorded
    <3> DEFINE l == [recording |-> m.request, cli |-> Issuer[p.request], window |-> p.window]
    <3>4. l \in leases' BY <2>1, <2>4, <3>2, <3>3
    <3>5. l.recording = q /\ l.cli = Issuer[q] /\ l.window = w BY <2>4, <3>2, <3>3
    <3> HIDE DEF l
    <3>6. p.conn \in Sockets /\ sock[p.conn].window = w /\ ~Unregistered(p.conn)
      BY <1>1, <3>3 DEF Waiters, SocketsFit, ConnsFit, QuietBefore
    <3>7. sock[p.conn].side = "registered" /\ sock[p.conn].side # None BY <3>6 DEF ConnsLast, Unregistered, None
    <3>8. handle[w] = p.conn /\ client[w] = p.conn BY <3>6, <3>7, CalmConns DEF ConnsLast
    <3>9. cli[Issuer[q]] = "connected" BY <2>4 DEF RequestsFit
    <3> QED BY <3>4, <3>5, <3>7, <3>8, <3>9
  <2> QED BY <2>3, <2>4
<1> QED BY <1>2, <1>3

\* Every step keeps the leases, where no connection was lost.
LEMMA LeasesStay ==
  ASSUME BridgeTypeOK, SocketsFit, OpenIsClients, ConnsLast, RequestsFit, RelaysFit, RunOnce, OneNumber, RecordedOnce,
         LeasesFit, [BridgeNext]_bridgeVars, Calm, Calm'
  PROVE  LeasesFit'
<1> USE DEF sockVars, serverVars, cliVars, windowVars
<1>1. /\ ~ServerRestarts /\ \A n \in Sockets : ~ExtensionDisconnected(n)
      /\ \A w \in Windows : ~ClientCloses(w)
  BY CalmBefore, CalmConns
<1>2. recordings \in [Windows -> SUBSET Requests] /\ \A q \in Requests : q # "waiting"
  BY BridgeAssumption DEF BridgeTypeOK
<1>3. ASSUME \A n \in Sockets : ~ServerReceives(n) PROVE LeasesFit'
  <2>1. ASSUME NEW w \in Windows, NEW q \in recordings'[w], answer'[q] = q, cli'[Issuer[q]] = "connected"
        PROVE  /\ q \in recordings[w] /\ answer[q] = q /\ cli[Issuer[q]] = "connected"
               /\ \A l \in leases : l.recording = q /\ l.cli = Issuer[q] => l \in leases'
    <3>1. q \in Requests /\ q \in recordings[w] BY <1>2, <2>1, RecordingsCome
    <3>2. answer[q] = q /\ cli[Issuer[q]] = "connected" BY <1>1, <1>3, <2>1, <3>1, AnswersCome
    <3>3. leases' = leases \/ \E c \in Clis : CliDisconnects(c)
      BY <1>1, <1>3
         DEF BridgeNext, BridgeProgress, bridgeVars, CloseFrame, ClientConnects, WindowReceives, RecordingBegins, CommandEnds,
             ClientCloses, RecordingEnds, SessionChanges, CliRequest
    <3>4. ASSUME NEW c \in Clis, CliDisconnects(c), NEW l \in leases, l.cli = Issuer[q] PROVE l \in leases'
      <4>1. cli' = [cli EXCEPT ![c] = "gone"] /\ leases' = {k \in leases : k.cli # c} BY <3>4 DEF CliDisconnects
      <4>2. cli \in [Clis -> {"away", "connected", "gone"}] BY DEF RequestsFit
      <4>3. Issuer[q] # c BY <2>1, <4>1, <4>2
      <4> QED BY <3>4, <4>1, <4>3
    <3> QED BY <3>1, <3>2, <3>3, <3>4
  <2> QED BY <2>1, LeasesKept
<1>4. ASSUME NEW n \in Sockets, ServerReceives(n) PROVE LeasesFit'
  <2> DEFINE m == Head(toServer[n])
  <2>1. UNCHANGED <<recordings, cli, client>> /\ toServer[n] # <<>> BY <1>4 DEF ServerReceives
  <2>2. toServer[n] \in Seq(FromExtension) BY DEF BridgeTypeOK
  <2>3. m \in FromExtension BY <2>1, <2>2, QueueTaken
  <2>4. m.type \in {"register", "response", "final", "changed"} BY <2>3 DEF FromExtension
  <2>5. CASE m.type \in {"register", "changed"}
    <3>1. UNCHANGED <<leases, answer>> BY <1>4, <2>5 DEF ServerReceives
    <3> QED BY <2>1, <3>1, LeasesKept
  <2>6. CASE m.type = "final"
    <3>1. UNCHANGED answer /\ (leases' = leases \/ leases' = {l \in leases : l.recording # m.recording})
      BY <1>4, <2>6 DEF ServerReceives, HandleFinal
    <3>2. m.recording \in FinalsIn(toServer[n]) BY <2>1, <2>6, FinalsMove
    <3> HIDE DEF m
    <3>3. \A w \in Windows : \A q \in recordings[w] : q # m.recording BY <3>2 DEF RecordedOnce
    <3> QED BY <2>1, <3>1, <3>3, LeasesKept
  <2>7. CASE m.type = "response"
    <3>1. HandleResponse(m) /\ UNCHANGED <<sock, handle>> BY <1>4, <2>7 DEF ServerReceives
    <3> HIDE DEF m
    <3> SUFFICES ASSUME NEW w \in Windows, NEW q \in recordings'[w], answer'[q] = q, cli'[Issuer[q]] = "connected"
                 PROVE  /\ handle'[w] = client'[w] /\ sock'[client'[w]].side = "registered"
                        /\ \E l \in leases' : l.recording = q /\ l.cli = Issuer[q] /\ l.window = w
      BY DEF LeasesFit
    <3>2. q \in recordings[w] /\ q \in Requests BY <1>2, <2>1
    <3>3. \/ answer[q] = q /\ leases \subseteq leases'
          \/ /\ handle[w] = client[w] /\ sock[client[w]].side = "registered"
             /\ \E l \in leases' : l.recording = q /\ l.cli = Issuer[q] /\ l.window = w
      BY <2>3, <2>7, <3>1, <3>2, AnswerGivesLease
    <3>4. CASE answer[q] = q /\ leases \subseteq leases'
      BY <2>1, <3>1, <3>2, <3>4 DEF LeasesFit
    <3> QED BY <2>1, <3>1, <3>3, <3>4
  <2> QED BY <2>4, <2>5, <2>6, <2>7
<1> QED BY <1>3, <1>4

\* Every step keeps the stops: the CLI that goes has the lease, and the stop goes where the window reads.
LEMMA StopsStay ==
  ASSUME BridgeTypeOK, SocketsFit, OpenIsClients, ConnsLast, RequestsFit, RelaysFit, RunOnce, OneNumber, RecordedOnce,
         LeasesFit, StopsFit, [BridgeNext]_bridgeVars, Calm, Calm'
  PROVE  StopsFit'
<1> USE DEF sockVars, serverVars, cliVars, windowVars
<1>1. /\ ~ServerRestarts /\ \A n \in Sockets : ~ExtensionDisconnected(n)
      /\ \A w \in Windows : ~ClientCloses(w)
  BY CalmBefore, CalmConns
<1>2. /\ recordings \in [Windows -> SUBSET Requests] /\ \A q \in Requests : q # "waiting"
      /\ toExt \in [Sockets -> Seq(ToExtension)]
  BY BridgeAssumption DEF BridgeTypeOK
<1>3. ASSUME NEW c \in Clis, CliDisconnects(c) PROVE StopsFit'
  <2>1. /\ cli' = [cli EXCEPT ![c] = "gone"] /\ UNCHANGED <<answer, recordings, client>>
        /\ \A n \in Sockets : toExt'[n] = IF IsOpen(n) /\ sock[n].open
                                          THEN (toExt[n] \o StopsTo(c, n)) \o AbortsTo(c, n) ELSE toExt[n]
    BY <1>3 DEF CliDisconnects
  <2>2. cli \in [Clis -> {"away", "connected", "gone"}] /\ cli[c] = "connected" BY <1>3 DEF RequestsFit, CliDisconnects
  \* What was put into a queue for the CLI leaves what was there; what ends up in it includes the stops.
  <2>3. ASSUME NEW n \in Sockets
        PROVE  /\ \A i \in DOMAIN toExt[n] : \E j \in DOMAIN toExt'[n] : toExt'[n][j] = toExt[n][i]
               /\ IsOpen(n) /\ sock[n].open =>
                    \A i \in DOMAIN StopsTo(c, n) : \E j \in DOMAIN toExt'[n] : toExt'[n][j] = StopsTo(c, n)[i]
    <3> DEFINE s == toExt[n]
               t == StopsTo(c, n)
               u == AbortsTo(c, n)
    <3>1. s \in Seq(ToExtension) /\ t \in Seq(ToExtension) /\ u \in Seq(ToExtension) BY <1>2, StopsAre, AbortsAre
    <3>2. toExt'[n] = (s \o t) \o u \/ (toExt'[n] = s /\ ~(IsOpen(n) /\ sock[n].open)) BY <2>1
    <3> HIDE DEF s, t, u
    <3>3. /\ s \o t \in Seq(ToExtension)
          /\ \A i \in DOMAIN s : i \in DOMAIN (s \o t) /\ (s \o t)[i] = s[i]
          /\ \A i \in DOMAIN t : Len(s) + i \in DOMAIN (s \o t) /\ (s \o t)[Len(s) + i] = t[i]
      BY <3>1, QueueGrows
    <3>4. \A i \in DOMAIN (s \o t) : i \in DOMAIN ((s \o t) \o u) /\ ((s \o t) \o u)[i] = (s \o t)[i]
      BY <3>1, <3>3, QueueGrows
    <3>5. CASE toExt'[n] = (s \o t) \o u BY <3>3, <3>4, <3>5 DEF s, t
    <3>6. CASE toExt'[n] = s /\ ~(IsOpen(n) /\ sock[n].open) BY <3>6 DEF s
    <3> QED BY <3>2, <3>5, <3>6
  <2> SUFFICES ASSUME NEW w \in Windows, NEW q \in recordings'[w], answer'[q] = q, cli'[Issuer[q]] = "gone"
               PROVE  \E i \in DOMAIN toExt'[client'[w]] : toExt'[client'[w]][i].type = "stop"
    BY DEF StopsFit
  <2>4. q \in recordings[w] /\ q \in Requests /\ answer[q] = q /\ client'[w] = client[w] BY <1>2, <2>1
  <2>5. client[w] # 0 BY <2>4 DEF RecordedOnce
  <2>6. client[w] \in Sockets /\ sock[client[w]].open BY <2>5, CalmConns DEF ClientOpen
  <2>7. CASE cli[Issuer[q]] = "gone"
    <3>1. \E i \in DOMAIN toExt[client[w]] : toExt[client[w]][i].type = "stop" BY <2>4, <2>7 DEF StopsFit
    <3> QED BY <2>3, <2>4, <2>6, <3>1
  <2>8. CASE cli[Issuer[q]] # "gone"
    <3>1. Issuer[q] = c BY <2>1, <2>2, <2>8
    <3>2. /\ handle[w] = client[w] /\ sock[client[w]].side = "registered"
          /\ \E l \in leases : l.recording = q /\ l.cli = c /\ l.window = w
      BY <2>2, <2>4, <3>1 DEF LeasesFit
    <3>3. \E i \in DOMAIN StopsTo(c, client[w]) : StopsTo(c, client[w])[i].type = "stop" BY <2>6, <3>2, StopIsSent
    <3>4. IsOpen(client[w]) BY <2>5, <3>2 DEF IsOpen
    <3> QED BY <2>3, <2>4, <2>6, <3>3, <3>4
  <2> QED BY <2>7, <2>8
<1>4. ASSUME NEW w \in Windows, WindowReceives(w) PROVE StopsFit'
  <2> DEFINE n == client[w]
             m == Head(toExt[n])
  <2>1. UNCHANGED <<answer, cli, client>> BY <1>4 DEF WindowReceives
  <2>2. /\ n \in Sockets /\ toExt[n] \in Seq(ToExtension) /\ toExt[n] # <<>> /\ toExt'[n] = Tail(toExt[n])
        /\ \A k \in Sockets \ {n} : toExt'[k] = toExt[k]
        /\ m.type \in {"request", "abort", "stop"}
    BY <1>4, WindowTakes
  <2>3. CASE m.type = "stop"
    <3>1. recordings' = [recordings EXCEPT ![w] = {}] BY <1>4, <2>3 DEF WindowReceives
    <3> HIDE DEF m
    <3> SUFFICES ASSUME NEW v \in Windows, NEW q \in recordings'[v], answer'[q] = q, cli'[Issuer[q]] = "gone"
                 PROVE  \E i \in DOMAIN toExt'[client'[v]] : toExt'[client'[v]][i].type = "stop"
      BY DEF StopsFit
    <3>2. v # w /\ q \in recordings[v] BY <1>2, <3>1
    <3>3. client[v] # 0 /\ client[w] # 0 BY <2>2, <3>2 DEF RecordedOnce, Sockets
    <3>4. client[v] \in Sockets /\ client[v] # n BY <3>2, <3>3, CalmConns
    <3>5. toExt'[client[v]] = toExt[client[v]] BY <2>2, <3>4
    <3>6. \E i \in DOMAIN toExt[client[v]] : toExt[client[v]][i].type = "stop" BY <2>1, <3>2 DEF StopsFit
    <3> QED BY <2>1, <3>5, <3>6
  <2>4. CASE m.type # "stop"
    <3>1. recordings' = recordings BY <1>4, <2>2, <2>4 DEF WindowReceives
    <3>2. ASSUME NEW k \in Sockets, NEW i \in DOMAIN toExt[k], toExt[k][i].type = "stop"
          PROVE  \E j \in DOMAIN toExt'[k] : toExt'[k][j].type = "stop"
      <4>1. CASE k # n BY <2>2, <3>2, <4>1
      <4>2. CASE k = n
        <5>1. i # 1 BY <2>2, <2>4, <3>2, <4>2
        <5> HIDE DEF n, m
        <5>2. i - 1 \in DOMAIN Tail(toExt[k]) /\ Tail(toExt[k])[i - 1] = toExt[k][i] BY <2>2, <4>2, <5>1
        <5>3. toExt'[k] = Tail(toExt[k]) BY <2>2, <4>2
        <5> QED BY <3>2, <5>2, <5>3
      <4> QED BY <4>1, <4>2
    <3> QED BY <2>1, <3>1, <3>2, StopsKept
  <2> QED BY <2>3, <2>4
<1>5. ASSUME NEW n \in Sockets, ServerReceives(n) PROVE StopsFit'
  <2> DEFINE m == Head(toServer[n])
  <2>1. UNCHANGED <<recordings, cli, client, toExt>> /\ toServer[n] # <<>> BY <1>5 DEF ServerReceives
  <2>2. toServer[n] \in Seq(FromExtension) BY DEF BridgeTypeOK
  <2>3. m \in FromExtension BY <2>1, <2>2, QueueTaken
  <2>4. m.type \in {"register", "response", "final", "changed"} BY <2>3 DEF FromExtension
  <2>5. UNCHANGED answer \/ (m.type = "response" /\ HandleResponse(m)) BY <1>5, <2>4 DEF ServerReceives
  <2> HIDE DEF m
  <2>6. ASSUME NEW w \in Windows, NEW q \in recordings'[w], answer'[q] = q, cli'[Issuer[q]] = "gone"
        PROVE  q \in recordings[w] /\ answer[q] = q /\ cli[Issuer[q]] = "gone"
    <3>1. q \in recordings[w] /\ q \in Requests /\ cli[Issuer[q]] = "gone" BY <1>2, <2>1, <2>6
    <3>2. CASE UNCHANGED answer BY <2>6, <3>1, <3>2
    <3>3. CASE m.type = "response" /\ HandleResponse(m)
      BY <2>3, <2>6, <3>1, <3>3, AnswerGivesLease
    <3> QED BY <2>5, <3>1, <3>2, <3>3
  <2> QED BY <2>1, <2>6, StopsKept
<1>6. ASSUME \A n \in Sockets : ~ServerReceives(n), \A c \in Clis : ~CliDisconnects(c), \A w \in Windows : ~WindowReceives(w)
      PROVE  StopsFit'
  <2>1. ASSUME NEW w \in Windows, NEW q \in recordings'[w], answer'[q] = q, cli'[Issuer[q]] = "gone"
        PROVE  q \in recordings[w] /\ answer[q] = q /\ cli[Issuer[q]] = "gone"
    <3>1. q \in Requests /\ q \in recordings[w] BY <1>2, <2>1, RecordingsCome
    <3>2. Issuer[q] \in Clis BY <3>1, BridgeAssumption
    <3> QED BY <1>1, <1>6, <2>1, <3>1, <3>2, AnswersCome
  <2>2. ASSUME NEW n \in Sockets, NEW i \in DOMAIN toExt[n], toExt[n][i].type = "stop"
        PROVE  \E j \in DOMAIN toExt'[n] : toExt'[n][j].type = "stop"
    <3>1. CASE toExt' = toExt BY <2>2, <3>1
    <3>2. ASSUME NEW q \in Requests, CliRequest(q) PROVE toExt' = toExt \/ \E m : toExt'[n] = toExt[n] \/ toExt'[n] = Append(toExt[n], m)
      <4>1. toExt' = toExt \/ Forward(q, Resolve(Wants[q])) BY <3>2 DEF CliRequest, Refuse
      <4> QED BY <1>2, <4>1 DEF Forward
    <3>3. \A m : i \in DOMAIN Append(toExt[n], m) /\ Append(toExt[n], m)[i] = toExt[n][i]
      <4>1. toExt[n] \in Seq(ToExtension) BY <1>2
      <4>2. \A m : DOMAIN Append(toExt[n], m) = 1..(Len(toExt[n]) + 1)
              /\ \A k \in 1..Len(toExt[n]) : Append(toExt[n], m)[k] = toExt[n][k]
        BY <4>1
      <4>3. DOMAIN toExt[n] = 1..Len(toExt[n]) /\ Len(toExt[n]) \in Nat BY <4>1
      <4> QED BY <4>2, <4>3
    <3>4. toExt' = toExt \/ \E q \in Requests : CliRequest(q)
      BY <1>1, <1>6
         DEF BridgeNext, BridgeProgress, bridgeVars, CloseFrame, ClientConnects, RecordingBegins, CommandEnds,
             RecordingEnds, SessionChanges
    <3> QED BY <2>2, <3>1, <3>2, <3>3, <3>4
  <2> QED BY <2>1, <2>2, StopsKept
<1> QED BY <1>3, <1>4, <1>5, <1>6

\* The invariant holds at the start, when nothing is recorded.
LEMMA StopBegins == BridgeInit => StopInv
<1> SUFFICES ASSUME BridgeInit PROVE StopInv OBVIOUS
<1>1. BridgeInv /\ WaitInv BY BridgeBegins, WaitBegins
<1>2. /\ sock = [n \in Sockets |-> [window |-> None, side |-> None, open |-> FALSE]]
      /\ toServer = [n \in Sockets |-> <<>>] /\ toExt = [n \in Sockets |-> <<>>]
      /\ pending = {} /\ serverLives = 1 /\ running = [w \in Windows |-> {}] /\ recordings = [w \in Windows |-> {}]
  BY DEF BridgeInit
<1>3. DOMAIN <<>> = {} OBVIOUS
<1>4. \A n \in Sockets : AskedIn(toExt[n]) = {} /\ FinalsIn(toServer[n]) = {} BY <1>2, <1>3 DEF AskedIn, FinalsIn
<1>5. \A w \in Windows : running[w] = {} /\ recordings[w] = {} BY <1>2
<1>6. ConnsLast BY <1>2 DEF ConnsLast, None
<1>7. Items = {} BY <1>2, <1>4, <1>5 DEF Items
<1>8. OneNumber BY <1>7 DEF OneNumber
<1>9. RecordedOnce BY <1>4, <1>5 DEF RecordedOnce, Recorded
<1>10. LeasesFit /\ StopsFit BY <1>5 DEF LeasesFit, StopsFit
<1> QED BY <1>1, <1>6, <1>8, <1>9, <1>10 DEF StopInv, RecordingsFit

\* Every step keeps it.
LEMMA StopStays ==
  ASSUME StopInv, [BridgeNext]_bridgeVars
  PROVE  StopInv'
<1>1. BridgeInv' /\ WaitInv' BY BridgeInductive, WaitStays DEF StopInv
<1>2. CASE ~Calm' BY <1>1, <1>2 DEF StopInv
<1>3. CASE Calm'
  <2>1. BridgeTypeOK /\ BridgeTypeOK' BY <1>1 DEF StopInv, BridgeInv
  <2>2. Calm /\ ~ServerRestarts /\ \A w \in Windows : ~ClientCloses(w) BY <1>3, <2>1, CalmBefore
  <2>3. ConnsLast /\ OneNumber /\ RecordedOnce /\ LeasesFit /\ StopsFit BY <2>2 DEF StopInv, RecordingsFit
  <2>4. SocketsFit /\ RelaysFit /\ RunOnce BY <2>3 DEF StopInv, BridgeInv, BridgeLive, ConnsLast
  <2>5. RequestsFit /\ OpenIsClients BY DEF StopInv, WaitInv
  <2>6. \A n \in Sockets : ~ExtensionDisconnected(n) BY <2>1, <2>2, <2>3, <2>4, <2>5, CalmConns
  <2>7. ConnsLast' BY <1>3, <2>1, <2>2, <2>3, <2>4, <2>5, ConnsLastStay
  <2>8. OneNumber' BY <2>1, <2>2, <2>3, <2>4, <2>5, <2>6, OneNumberStays
  <2>9. RecordedOnce' BY <1>3, <2>1, <2>2, <2>3, <2>4, <2>5, RecordedStays
  <2>10. LeasesFit' BY <1>3, <2>1, <2>2, <2>3, <2>4, <2>5, LeasesStay
  <2>11. StopsFit' BY <1>3, <2>1, <2>2, <2>3, <2>4, <2>5, StopsStay
  <2> QED BY <1>1, <2>7, <2>8, <2>9, <2>10, <2>11 DEF StopInv, RecordingsFit
<1> QED BY <1>2, <1>3

\* A recording that a CLI was told of is stopped when that CLI goes, as long as no connection was
\* lost: the stop is in the queue that its window reads (activeRecordingLeases, handleDisconnect).
\* This is the safety core of LeaseStopsRecording.
THEOREM RecordingsOfGoneStop == BridgeSpec => []AnsweredRecordingsStop
<1>1. StopInv => AnsweredRecordingsStop BY DEF StopInv, RecordingsFit, StopsFit, AnsweredRecordingsStop, Calm
<1> QED BY <1>1, StopBegins, StopStays, PTL DEF BridgeSpec
=============================================================================
