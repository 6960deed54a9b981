------------------------- MODULE TabServices_proofs -------------------------
(***************************************************************************)
(* What the services of a tab promise, for any number of drivers,          *)
(* captures, requests and handoffs.                                        *)
(*                                                                         *)
(* The debugger is attached for whoever holds it, though the manager's     *)
(* record of the tab is deleted and made anew while callers still wait for *)
(* their turn on the old one: until the browser detaches, one record at a  *)
(* time is busy, everybody lets go at the record that is the tab's, and a  *)
(* release that counts down for another leaves that one its own count.     *)
(* The session is as deep as it has holders, so a driver that may act is   *)
(* told of navigations, and a reference of its current generation was      *)
(* taken from the document that is there.                                  *)
(*                                                                         *)
(* A screencast, a recording and a network capture hold something outside  *)
(* of the extension, and what they hold is known to one of their states,   *)
(* also while a start is overtaken by a stop. A handoff was told what its  *)
(* record says, so it ends once, and its overlay goes with its command.    *)
(***************************************************************************)
EXTENDS TabDebugger, PageScreencast, TabRecording, PageNetwork, Handoff, SequenceTheorems,
  FiniteSetTheorems, TLAPS

-----------------------------------------------------------------------------
(* The debugger of a tab *)

Phases == {"none", "acquiring", "enabling", "ready", "failed"}
DriverStates == [phase : Phases, lifetime : BOOLEAN, closed : BOOLEAN, disposed : BOOLEAN]
Turns == {"idle", "acquiring", "attaching", "evaluating", "using", "releasing", "detaching"}
RefStates == [driver : {0} \cup Drivers, generation : Nat, document : Nat]

TabTypeOK ==
  /\ attached \in BOOLEAN /\ pageEnabled \in BOOLEAN /\ document \in Nat
  /\ table \in {0} \cup TabRecords /\ records \in Nat /\ table <= records
  /\ refCount \in [TabRecords -> Nat] /\ owners \in [TabRecords -> SUBSET Nat]
  /\ serial \in [TabRecords -> Seq(Users)] /\ enabled \in [TabRecords -> BOOLEAN]
  /\ turn \in [Users -> Turns]
  /\ record \in [Users -> {0} \cup TabRecords]
  /\ depth \in Nat /\ tracking \in Nat /\ generation \in Nat
  /\ driver \in [Drivers -> DriverStates]
  /\ entry \in {0} \cup Drivers
  /\ eval \in RefStates /\ ref \in RefStates
  /\ tabSpent \in [evaluations : Nat, detaches : Nat, uses : Nat]

Acquires(u) == turn[u] \in {"acquiring", "attaching"}
Releases(u) == turn[u] \in {"releasing", "detaching"}

\* Whoever waits for its turn is on the list of its record, once, and at its head while Chrome
\* attaches or detaches for it.
QueuesFit ==
  /\ \A k \in TabRecords : \A i \in 1..Len(serial[k]) :
       /\ Acquires(serial[k][i]) \/ Releases(serial[k][i])
       /\ record[serial[k][i]] = k
       /\ \A j \in 1..Len(serial[k]) : serial[k][i] = serial[k][j] => i = j
  /\ \A u \in Users :
       /\ turn[u] \in {"attaching", "detaching"} => serial[record[u]] # <<>> /\ Head(serial[record[u]]) = u
       /\ Acquires(u) \/ Releases(u) => record[u] \in TabRecords
OnList(u) == \E i \in 1..Len(serial[record[u]]) : serial[record[u]][i] = u
AllOnList == \A u \in Users : Acquires(u) \/ Releases(u) => OnList(u)

\* A record that was not made yet is empty; who holds, or acquires, does so at one that was made, a
\* driver that was closed meanwhile not at the tab's.
RecordsFit ==
  /\ \A k \in TabRecords : k > records => refCount[k] = 0 /\ owners[k] = {} /\ ~enabled[k]
  /\ \A u \in Users : Holds(u) => record[u] \in TabRecords
  /\ \A u \in Users : Acquires(u) => record[u] <= records /\ (u \in Drivers /\ driver[u].closed => record[u] # table)
  /\ tracking <= records

\* A driver waits for its lifetime while it acquires it, and lets it go later; one that has the
\* debugger, or is about to, is the registry's, or was disposed.
DriverFits(d) ==
  /\ turn[d] \notin {"evaluating", "using"}
  /\ Acquires(d) <=> driver[d].phase = "acquiring"
  /\ Releases(d) => driver[d].phase \in {"ready", "failed"} /\ ~driver[d].lifetime
  /\ driver[d].lifetime => driver[d].phase \notin {"none", "acquiring"}
  /\ driver[d].phase = "none" => ~driver[d].closed
  /\ driver[d].lifetime \/ driver[d].phase \in {"acquiring", "enabling"} => entry = d \/ driver[d].disposed
DriversFit ==
  /\ \A d \in Drivers : DriverFits(d)
  /\ turn[Op] # "using" /\ \A u \in Tools : turn[u] # "evaluating"

\* Who is counted at a record, or is about to say that it no longer is.
HoldsAt(u, k) == record[u] = k /\ (Holds(u) \/ turn[u] = "releasing")
HoldersAt(k) == {u \in Users : HoldsAt(u, k)}

\* An attached debugger is counted somewhere, and the tab's record counts no more than there are.
CountedFits ==
  /\ attached => \/ \E k \in TabRecords : refCount[k] > 0
                 \/ \E u \in Users : turn[u] = "detaching"
  /\ table # 0 => refCount[table] <= Cardinality(HoldersAt(table))

TabInv ==
  TabTypeOK /\ QueuesFit /\ AllOnList /\ RecordsFit /\ DriversFit /\ CountedFits

\* The list of a record, for its elements.
ListFits(s, k) ==
  \A i \in 1..Len(s) : /\ (Acquires(s[i]) \/ Releases(s[i])) /\ record[s[i]] = k
                       /\ \A j \in 1..Len(s) : s[i] = s[j] => i = j

\* The lists, one record at a time.
LEMMA QueuesAre ==
  QueuesFit <=> /\ \A k \in TabRecords : ListFits(serial[k], k)
                /\ \A u \in Users :
                     /\ turn[u] \in {"attaching", "detaching"} => serial[record[u]] # <<>> /\ Head(serial[record[u]]) = u
                     /\ Acquires(u) \/ Releases(u) => record[u] \in TabRecords
BY DEF QueuesFit, ListFits

\* A list that begins with u, without u.
LEMMA TailIs ==
  ASSUME NEW s \in Seq(Users), NEW u, s # <<>>, Head(s) = u,
         \A i \in 1..Len(s) : \A j \in 1..Len(s) : s[i] = s[j] => i = j
  PROVE  /\ Tail(s) \in Seq(Users)
         /\ \A i \in 1..Len(Tail(s)) : Tail(s)[i] # u /\ \E j \in 1..Len(s) : Tail(s)[i] = s[j]
         /\ \A i, j \in 1..Len(Tail(s)) : Tail(s)[i] = Tail(s)[j] => i = j
<1>1. /\ Tail(s) \in Seq(Users) /\ Len(Tail(s)) = Len(s) - 1 /\ Len(s) \in Nat /\ Len(s) # 0
      /\ \A i \in 1..Len(Tail(s)) : Tail(s)[i] = s[i + 1]
      /\ u = s[1]
  OBVIOUS
<1>2. \A i \in 1..Len(Tail(s)) : i + 1 \in 1..Len(s) /\ i + 1 # 1 BY <1>1
<1>3. 1 \in 1..Len(s) BY <1>1
<1>4. \A i \in 1..Len(Tail(s)) : Tail(s)[i] # u BY <1>1, <1>2, <1>3
<1>5. \A i \in 1..Len(Tail(s)) : \E j \in 1..Len(s) : Tail(s)[i] = s[j] BY <1>1, <1>2
<1>6. \A i, j \in 1..Len(Tail(s)) : Tail(s)[i] = Tail(s)[j] => i = j
  <2> SUFFICES ASSUME NEW i \in 1..Len(Tail(s)), NEW j \in 1..Len(Tail(s)), Tail(s)[i] = Tail(s)[j] PROVE i = j
    OBVIOUS
  <2>1. s[i + 1] = s[j + 1] BY <1>1
  <2>2. i + 1 = j + 1 BY <1>2, <2>1
  <2> QED BY <1>1, <2>2
<1> QED BY <1>1, <1>4, <1>5, <1>6

\* The turn of u ends.
LEMMA TurnEnds ==
  ASSUME TabTypeOK, QueuesFit, NEW u \in Users, Acquires(u) \/ Releases(u),
         serial[record[u]] # <<>>, Head(serial[record[u]]) = u,
         serial' = [serial EXCEPT ![record[u]] = Tail(@)],
         NEW next \in {"idle", "evaluating", "using"}, turn' = [turn EXCEPT ![u] = next], record' = record
  PROVE  /\ QueuesFit' /\ serial' \in [TabRecords -> Seq(Users)] /\ turn' \in [Users -> Turns]
<1> DEFINE r == record[u]
<1>1. r \in TabRecords BY DEF QueuesFit
<1>2. serial \in [TabRecords -> Seq(Users)] /\ turn \in [Users -> Turns] BY DEF TabTypeOK, Turns
<1>3. /\ \A k \in TabRecords : ListFits(serial[k], k)
      /\ \A v \in Users :
           /\ turn[v] \in {"attaching", "detaching"} => serial[record[v]] # <<>> /\ Head(serial[record[v]]) = v
           /\ Acquires(v) \/ Releases(v) => record[v] \in TabRecords
  BY QueuesAre
<1>4. turn' \in [Users -> Turns] /\ turn'[u] = next /\ \A v \in Users \ {u} : turn'[v] = turn[v]
  BY <1>2 DEF Turns
<1> DEFINE s == serial[r]
<1>5. s \in Seq(Users) /\ s # <<>> /\ Head(s) = u /\ ListFits(s, r) BY <1>1, <1>2, <1>3
<1>6. serial' = [serial EXCEPT ![r] = Tail(s)] BY <1>1, <1>2
<1>7. /\ Tail(s) \in Seq(Users)
      /\ \A i \in 1..Len(Tail(s)) : Tail(s)[i] # u /\ \E j \in 1..Len(s) : Tail(s)[i] = s[j]
      /\ \A i, j \in 1..Len(Tail(s)) : Tail(s)[i] = Tail(s)[j] => i = j
  BY <1>5, TailIs DEF ListFits
<1>8. serial'[r] = Tail(s) /\ (\A k \in TabRecords \ {r} : serial'[k] = serial[k]) /\ serial' \in [TabRecords -> Seq(Users)]
  BY <1>1, <1>2, <1>6, <1>7
<1>9. \A v \in Users \ {u} : (Acquires(v) <=> Acquires(v)') /\ (Releases(v) <=> Releases(v)')
  BY <1>4 DEF Acquires, Releases
<1> HIDE DEF s, r
<1>10. ASSUME NEW k \in TabRecords, NEW i \in 1..Len(serial'[k])
       PROVE  /\ (Acquires(serial[k][i])' \/ Releases(serial[k][i])') /\ record'[serial'[k][i]] = k
              /\ \A j \in 1..Len(serial'[k]) : serial'[k][i] = serial'[k][j] => i = j
  <2>1. CASE k = r
    <3>0. serial'[k] = Tail(s) /\ i \in 1..Len(Tail(s)) BY <1>8, <1>10, <2>1
    <3>1. PICK n \in 1..Len(s) : serial'[k][i] = s[n] BY <1>7, <3>0
    <3>2. PICK x \in Users : x = s[n]
      <4>1. s \in Seq(Users) /\ n \in 1..Len(s) BY <1>5
      <4> QED BY <4>1
    <3>3. x # u BY <1>7, <3>0, <3>1, <3>2
    <3>4. (Acquires(x) \/ Releases(x)) /\ record[x] = r BY <1>5, <3>2 DEF ListFits
    <3>5. Acquires(x)' \/ Releases(x)' BY <1>9, <3>3, <3>4
    <3>6. serial'[k][i] = x BY <3>1, <3>2
    <3>7. Acquires(serial[k][i])' \/ Releases(serial[k][i])' BY <3>5, <3>6 DEF Acquires, Releases
    <3>8. serial'[k] = Tail(s) BY <1>8, <2>1
    <3>9. \A j \in 1..Len(serial'[k]) : serial'[k][i] = serial'[k][j] => i = j BY <1>7, <1>10, <3>8
    <3>10. record'[serial'[k][i]] = k BY <2>1, <3>4, <3>6
    <3> QED BY <3>7, <3>9, <3>10
  <2>2. CASE k # r
    <3>1. serial'[k] = serial[k] /\ serial[k] \in Seq(Users) BY <1>2, <1>8, <2>2
    <3>2. PICK x \in Users : x = serial[k][i] BY <1>10, <3>1
    <3>3. (Acquires(x) \/ Releases(x)) /\ record[x] = k /\ \A j \in 1..Len(serial[k]) : x = serial[k][j] => i = j
      BY <1>3, <1>10, <3>1, <3>2 DEF ListFits
    <3>4. x # u BY <2>2, <3>3 DEF r
    <3>5. Acquires(x)' \/ Releases(x)' BY <1>9, <3>3, <3>4
    <3>7. Acquires(serial[k][i])' \/ Releases(serial[k][i])' BY <3>1, <3>2, <3>5 DEF Acquires, Releases
    <3> QED BY <3>1, <3>2, <3>3, <3>7
  <2> QED BY <2>1, <2>2
<1>11. ASSUME NEW v \in Users, Acquires(v)' \/ Releases(v)' PROVE v # u /\ record'[v] \in TabRecords
  <2>1. v # u BY <1>4, <1>11 DEF Acquires, Releases
  <2> QED BY <1>3, <1>9, <1>11, <2>1
<1>12. ASSUME NEW v \in Users, turn'[v] \in {"attaching", "detaching"}
       PROVE  serial'[record'[v]] # <<>> /\ Head(serial'[record'[v]]) = v
  <2>1. v # u /\ record[v] \in TabRecords BY <1>11, <1>12 DEF Acquires, Releases
  <2>2. turn[v] \in {"attaching", "detaching"} BY <1>4, <1>12, <2>1
  <2>3. serial[record[v]] # <<>> /\ Head(serial[record[v]]) = v BY <1>3, <2>2
  <2>4. record[v] # r BY <1>5, <2>1, <2>3 DEF s
  <2> QED BY <1>8, <2>1, <2>3, <2>4
<1>13. QueuesFit'
  <2>1. \A v \in Users : /\ turn'[v] \in {"attaching", "detaching"} => serial'[record'[v]] # <<>> /\ Head(serial'[record'[v]]) = v
                         /\ Acquires(v)' \/ Releases(v)' => record'[v] \in TabRecords
    BY <1>11, <1>12 DEF Acquires, Releases
  <2> QED BY <1>10, <2>1 DEF QueuesFit
<1> QED BY <1>4, <1>8, <1>13

\* A turn goes on at the head of its list.
LEMMA TurnGoes ==
  ASSUME TabTypeOK, QueuesFit, NEW u \in Users, Acquires(u) \/ Releases(u),
         serial[record[u]] # <<>>, Head(serial[record[u]]) = u, serial' = serial, record' = record,
         NEW next \in {"attaching", "detaching"}, turn' = [turn EXCEPT ![u] = next]
  PROVE  QueuesFit' /\ turn' \in [Users -> Turns]
<1>1. serial \in [TabRecords -> Seq(Users)] /\ turn \in [Users -> Turns] BY DEF TabTypeOK, Turns
<1>2. turn' \in [Users -> Turns] /\ turn'[u] = next /\ \A v \in Users \ {u} : turn'[v] = turn[v]
  BY <1>1 DEF Turns
<1>3. \A v \in Users : Acquires(v) \/ Releases(v) <=> Acquires(v)' \/ Releases(v)'
  BY <1>2 DEF Acquires, Releases
<1>4. ASSUME NEW k \in TabRecords, NEW i \in 1..Len(serial'[k])
      PROVE  /\ (Acquires(serial[k][i])' \/ Releases(serial[k][i])') /\ record'[serial'[k][i]] = k
             /\ \A j \in 1..Len(serial'[k]) : serial'[k][i] = serial'[k][j] => i = j
  <2>1. serial[k] \in Seq(Users) /\ i \in 1..Len(serial[k]) BY <1>1, <1>4
  <2>2. PICK x \in Users : x = serial[k][i] BY <2>1
  <2>3. (Acquires(x) \/ Releases(x)) /\ record[x] = k /\ \A j \in 1..Len(serial[k]) : x = serial[k][j] => i = j
    BY <2>1, <2>2 DEF QueuesFit
  <2>4. Acquires(x)' \/ Releases(x)' BY <1>3, <2>3
  <2>5. Acquires(serial[k][i])' \/ Releases(serial[k][i])' BY <2>2, <2>4 DEF Acquires, Releases
  <2> QED BY <2>2, <2>3, <2>5
<1>5. \A v \in Users : /\ turn'[v] \in {"attaching", "detaching"} => serial'[record'[v]] # <<>> /\ Head(serial'[record'[v]]) = v
                       /\ Acquires(v)' \/ Releases(v)' => record'[v] \in TabRecords
  <2> SUFFICES ASSUME NEW v \in Users
               PROVE  /\ turn'[v] \in {"attaching", "detaching"} => serial'[record'[v]] # <<>> /\ Head(serial'[record'[v]]) = v
                      /\ Acquires(v)' \/ Releases(v)' => record'[v] \in TabRecords
    OBVIOUS
  <2>1. CASE v = u BY <1>3, <2>1 DEF QueuesFit
  <2>2. CASE v # u
    <3>1. turn'[v] = turn[v] BY <1>2, <2>2
    <3> QED BY <3>1 DEF QueuesFit, Acquires, Releases
  <2> QED BY <2>1, <2>2
<1> QED BY <1>2, <1>4, <1>5 DEF QueuesFit

\* A user queues at the tab's record.
LEMMA Enqueues ==
  ASSUME TabTypeOK, QueuesFit, NEW u \in Users, turn[u] \in {"idle", "evaluating", "using"},
         NEW step \in {"acquiring", "releasing"}, Enqueue(u, step)
  PROVE  /\ QueuesFit' /\ turn' \in [Users -> Turns] /\ record' \in [Users -> {0} \cup TabRecords]
         /\ serial' \in [TabRecords -> Seq(Users)]
         /\ turn'[u] = step /\ record'[u] = Current /\ Current \in TabRecords
         /\ \A v \in Users \ {u} : turn'[v] = turn[v] /\ record'[v] = record[v]
<1> DEFINE c == Current
<1>1. /\ c \in TabRecords
      /\ record' = [record EXCEPT ![u] = c] /\ serial' = [serial EXCEPT ![c] = Append(@, u)]
      /\ turn' = [turn EXCEPT ![u] = step]
  BY DEF Enqueue, Looked
<1> HIDE DEF c
<1>2. /\ serial \in [TabRecords -> Seq(Users)] /\ turn \in [Users -> Turns]
      /\ record \in [Users -> {0} \cup TabRecords]
  BY DEF TabTypeOK, Turns
<1>3. /\ turn' \in [Users -> Turns] /\ turn'[u] = step /\ (\A v \in Users \ {u} : turn'[v] = turn[v])
      /\ record' \in [Users -> {0} \cup TabRecords] /\ record'[u] = c /\ (\A v \in Users \ {u} : record'[v] = record[v])
  BY <1>1, <1>2 DEF Turns
<1>4. ~Acquires(u) /\ ~Releases(u) BY DEF Acquires, Releases
<1>5. (\A v \in Users \ {u} : (Acquires(v) <=> Acquires(v)') /\ (Releases(v) <=> Releases(v)'))
      /\ (Acquires(u)' \/ Releases(u)')
  BY <1>3 DEF Acquires, Releases
<1> DEFINE s == serial[c]
           t == Append(s, u)
<1>6. /\ s \in Seq(Users) /\ t \in Seq(Users) /\ Len(s) \in Nat /\ Len(t) = Len(s) + 1
      /\ t[Len(s) + 1] = u /\ \A i \in 1..Len(s) : t[i] = s[i]
  <2>1. s \in Seq(Users) BY <1>1, <1>2
  <2> HIDE DEF s
  <2> QED BY <2>1
<1>7. serial'[c] = t /\ (\A k \in TabRecords \ {c} : serial'[k] = serial[k]) /\ serial' \in [TabRecords -> Seq(Users)]
  BY <1>1, <1>2, <1>6
<1>8. \A i \in 1..Len(s) : s[i] # u /\ s[i] \in Users BY <1>1, <1>4, <1>6 DEF QueuesFit
<1> HIDE DEF s, t
<1>9. ASSUME NEW k \in TabRecords, NEW i \in 1..Len(serial'[k])
      PROVE  /\ (Acquires(serial[k][i])' \/ Releases(serial[k][i])') /\ record'[serial'[k][i]] = k
             /\ \A j \in 1..Len(serial'[k]) : serial'[k][i] = serial'[k][j] => i = j
  <2>1. CASE k # c
    <3>1. serial'[k] = serial[k] /\ serial[k] \in Seq(Users) BY <1>2, <1>7, <2>1
    <3>2. PICK x \in Users : x = serial[k][i] BY <1>9, <3>1
    <3>3. (Acquires(x) \/ Releases(x)) /\ record[x] = k /\ \A j \in 1..Len(serial[k]) : x = serial[k][j] => i = j
      BY <1>9, <3>1, <3>2 DEF QueuesFit
    <3>4. x # u BY <1>4, <3>3
    <3>5. Acquires(x)' \/ Releases(x)' BY <1>5, <3>3, <3>4
    <3>6. Acquires(serial[k][i])' \/ Releases(serial[k][i])' BY <3>1, <3>2, <3>5 DEF Acquires, Releases
    <3>7. record'[x] = k BY <1>3, <3>3, <3>4
    <3> QED BY <3>1, <3>2, <3>3, <3>6, <3>7
  <2>2. CASE k = c /\ i # Len(s) + 1
    <3>1. i \in 1..Len(s) /\ serial'[k] = t /\ t[i] = s[i] BY <1>6, <1>7, <1>9, <2>2
    <3>2. PICK x \in Users : x = s[i] BY <1>8, <3>1
    <3>3. (Acquires(x) \/ Releases(x)) /\ record[x] = k /\ \A j \in 1..Len(s) : x = s[j] => i = j
      BY <1>9, <2>2, <3>1, <3>2 DEF QueuesFit, s
    <3>4. x # u BY <1>4, <3>3
    <3>5. Acquires(x)' \/ Releases(x)' BY <1>5, <3>3, <3>4
    <3>6. Acquires(serial[k][i])' \/ Releases(serial[k][i])' BY <3>1, <3>2, <3>5 DEF Acquires, Releases
    <3>7. record'[x] = k BY <1>3, <3>3, <3>4
    <3>8. \A j \in 1..Len(t) : t[j] = (IF j = Len(s) + 1 THEN u ELSE s[j]) /\ (j # Len(s) + 1 => j \in 1..Len(s))
      BY <1>6
    <3>9. \A j \in 1..Len(t) : x = t[j] => i = j BY <3>3, <3>4, <3>8
    <3> QED BY <3>1, <3>2, <3>6, <3>7, <3>9
  <2>3. CASE k = c /\ i = Len(s) + 1
    <3>1. serial'[k] = t /\ t[i] = u BY <1>6, <1>7, <2>3
    <3>2. Acquires(serial[k][i])' \/ Releases(serial[k][i])' BY <1>5, <3>1 DEF Acquires, Releases
    <3>3. \A j \in 1..Len(t) : t[j] = (IF j = Len(s) + 1 THEN u ELSE s[j]) /\ (j # Len(s) + 1 => j \in 1..Len(s))
      BY <1>6
    <3>4. \A j \in 1..Len(t) : u = t[j] => i = j BY <1>8, <2>3, <3>3
    <3> QED BY <1>3, <2>3, <3>1, <3>2, <3>4
  <2> QED BY <2>1, <2>2, <2>3
<1>10. ASSUME NEW v \in Users, turn'[v] \in {"attaching", "detaching"}
       PROVE  serial'[record'[v]] # <<>> /\ Head(serial'[record'[v]]) = v
  <2>1. v # u BY <1>3, <1>10
  <2>2. turn[v] \in {"attaching", "detaching"} BY <1>3, <1>10, <2>1
  <2>3. serial[record[v]] # <<>> /\ Head(serial[record[v]]) = v /\ record[v] \in TabRecords
    BY <2>2 DEF QueuesFit, Acquires, Releases
  <2>4. CASE record[v] # c BY <1>3, <1>7, <2>1, <2>3, <2>4
  <2>5. CASE record[v] = c
    <3>1. Len(s) # 0 /\ s[1] = v BY <1>6, <2>3, <2>5 DEF s
    <3>2. t # <<>> /\ t[1] = v BY <1>6, <3>1
    <3>3. Head(t) = v BY <1>6, <3>2
    <3> QED BY <1>3, <1>7, <2>1, <2>5, <3>2, <3>3
  <2> QED BY <2>4, <2>5
<1>11. \A v \in Users : Acquires(v)' \/ Releases(v)' => record'[v] \in TabRecords
  BY <1>1, <1>3, <1>5 DEF QueuesFit
<1>12. QueuesFit'
  <2>1. \A v \in Users : /\ turn'[v] \in {"attaching", "detaching"} => serial'[record'[v]] # <<>> /\ Head(serial'[record'[v]]) = v
                         /\ Acquires(v)' \/ Releases(v)' => record'[v] \in TabRecords
    BY <1>10, <1>11
  <2> QED BY <1>9, <2>1 DEF QueuesFit
<1> QED BY <1>1, <1>3, <1>7, <1>12 DEF c

\* Records and users are numbers: the evaluation, the drivers, the tools.
LEMMA NumbersAre ==
  /\ TabRecords \subseteq Nat \ {0} /\ 0 \notin TabRecords
  /\ Users = {Op} \cup Drivers \cup Tools /\ Op = 0 /\ Op \notin Drivers \cup Tools
  /\ Drivers \cap Tools = {} /\ Users \subseteq Nat /\ IsFiniteSet(Users)
  /\ Drivers \subseteq Users /\ Op \in Users /\ Tools \subseteq Users /\ 0 \notin Drivers
<1>1. MaxDrivers \in Nat /\ MaxTools \in Nat BY TabBoundsAssumption
<1>2. TabRecords \subseteq Nat \ {0} BY DEF TabRecords
<1>3. IsFiniteSet(Users) BY <1>1, FS_Interval DEF Users
<1>4. Users = {Op} \cup Drivers \cup Tools /\ Users \subseteq Nat BY <1>1 DEF Users, Drivers, Op, Tools
<1>5. Op \notin Drivers \cup Tools /\ Drivers \cap Tools = {} BY <1>1 DEF Drivers, Op, Tools
<1> QED BY <1>2, <1>3, <1>4, <1>5 DEF Op

\* The turn of u ends: the others stay on their lists.
LEMMA EndKeepsLists ==
  ASSUME TabTypeOK, QueuesFit, AllOnList, NEW u \in Users, Acquires(u) \/ Releases(u),
         serial[record[u]] # <<>>, Head(serial[record[u]]) = u,
         serial' = [serial EXCEPT ![record[u]] = Tail(@)],
         NEW next \in {"idle", "evaluating", "using"}, turn' = [turn EXCEPT ![u] = next], record' = record
  PROVE  AllOnList'
<1> SUFFICES ASSUME NEW v \in Users, Acquires(v)' \/ Releases(v)' PROVE OnList(v)'
  BY DEF AllOnList
<1>1. turn'[u] = next /\ \A w \in Users \ {u} : turn'[w] = turn[w] BY DEF TabTypeOK
<1>2. v # u BY <1>1 DEF Acquires, Releases
<1>3. Acquires(v) \/ Releases(v) BY <1>1, <1>2 DEF Acquires, Releases
<1>4. record[u] \in TabRecords /\ record[v] \in TabRecords BY <1>3 DEF QueuesFit
<1> DEFINE s == serial[record[v]]
<1>5. s \in Seq(Users) BY <1>4 DEF TabTypeOK
<1>6. PICK i \in 1..Len(s) : s[i] = v BY <1>3 DEF AllOnList, OnList
<1>7. serial' = [serial EXCEPT ![record[u]] = Tail(serial[record[u]])] /\ serial \in [TabRecords -> Seq(Users)]
  BY DEF TabTypeOK
<1>8. CASE record[v] # record[u]
  <2>1. serial'[record'[v]] = s BY <1>4, <1>7, <1>8
  <2> QED BY <1>6, <2>1 DEF OnList
<1>9. CASE record[v] = record[u]
  <2>1. serial'[record'[v]] = Tail(s) /\ s # <<>> /\ Head(s) = u BY <1>4, <1>7, <1>9
  <2> HIDE DEF s
  <2>2. i # 1 BY <1>2, <1>5, <1>6, <2>1
  <2>3. i - 1 \in 1..Len(Tail(s)) /\ Tail(s)[i - 1] = v BY <1>5, <1>6, <2>1, <2>2
  <2> QED BY <2>1, <2>3 DEF OnList
<1> QED BY <1>8, <1>9

\* Whoever begins to wait is on its list, and the others stay.
LEMMA EnqueueKeepsLists ==
  ASSUME TabTypeOK, QueuesFit, AllOnList, NEW u \in Users, turn[u] \in {"idle", "evaluating", "using"}, NEW step, Enqueue(u, step)
  PROVE  AllOnList'
<1> SUFFICES ASSUME NEW v \in Users, Acquires(v)' \/ Releases(v)' PROVE OnList(v)'
  BY DEF AllOnList
<1> DEFINE c == Current
<1>1. /\ c \in TabRecords /\ record' = [record EXCEPT ![u] = c] /\ serial' = [serial EXCEPT ![c] = Append(serial[c], u)]
      /\ turn' = [turn EXCEPT ![u] = step]
  BY DEF Enqueue, Looked
<1> HIDE DEF c
<1>2. /\ serial \in [TabRecords -> Seq(Users)] /\ serial[c] \in Seq(Users)
      /\ record'[u] = c /\ \A w \in Users \ {u} : turn'[w] = turn[w] /\ record'[w] = record[w]
  BY <1>1 DEF TabTypeOK
<1> DEFINE s == serial[c]
           t == Append(s, u)
<1>3. serial'[c] = t /\ \A k \in TabRecords \ {c} : serial'[k] = serial[k] BY <1>1, <1>2
<1>4. Len(s) \in Nat /\ Len(t) = Len(s) + 1 /\ t[Len(s) + 1] = u /\ \A i \in 1..Len(s) : t[i] = s[i]
  <2>1. s \in Seq(Users) BY <1>2
  <2> HIDE DEF s
  <2> QED BY <2>1
<1> HIDE DEF t
<1>5. CASE v = u
  <2>1. Len(s) + 1 \in 1..Len(t) BY <1>4
  <2> QED BY <1>2, <1>3, <1>4, <1>5, <2>1 DEF OnList
<1>6. CASE v # u
  <2>1. Acquires(v) \/ Releases(v) BY <1>2, <1>6 DEF Acquires, Releases
  <2>2. record[v] \in TabRecords BY <2>1 DEF QueuesFit
  <2>3. PICK i \in 1..Len(serial[record[v]]) : serial[record[v]][i] = v BY <2>1 DEF AllOnList, OnList
  <2>4. CASE record[v] = c
    <3>1. i \in 1..Len(t) /\ t[i] = v BY <1>4, <2>3, <2>4
    <3> QED BY <1>2, <1>3, <1>6, <2>4, <3>1 DEF OnList
  <2>5. CASE record[v] # c BY <1>2, <1>3, <1>6, <2>2, <2>3, <2>5 DEF OnList
  <2> QED BY <2>4, <2>5
<1> QED BY <1>5, <1>6

\* Nobody begins to wait.
LEMMA ListsKept ==
  ASSUME AllOnList, serial' = serial, record' = record,
         \A v \in Users : Acquires(v)' \/ Releases(v)' => Acquires(v) \/ Releases(v)
  PROVE  AllOnList'
BY DEF AllOnList, OnList
\* What a user changes with its turn.
LEMMA TurnOf ==
  ASSUME TabTypeOK, NEW u \in Users, NEW next \in Turns, turn' = [turn EXCEPT ![u] = next]
  PROVE  turn' \in [Users -> Turns] /\ turn'[u] = next /\ \A v \in Users \ {u} : turn'[v] = turn[v]
BY DEF TabTypeOK

\* The manager has a record of the tab when it was looked up (getOrCreateState).
LEMMA LookedAt ==
  ASSUME TabTypeOK, Looked
  PROVE  /\ table' = Current /\ table' \in TabRecords /\ records' \in Nat /\ table' <= records' /\ records <= records'
         /\ table # 0 => table' = table /\ records' = records
         /\ table = 0 => table' = records + 1 /\ records' = records + 1
BY NumbersAre DEF TabTypeOK, Looked, Current

\* A user that is granted the debugger keeps the types.
LEMMA GrantedTypes ==
  ASSUME TabTypeOK, QueuesFit, NEW u \in Users, Acquires(u), serial[record[u]] # <<>>, Granted(u)
  PROVE  /\ refCount' \in [TabRecords -> Nat] /\ owners' \in [TabRecords -> SUBSET Nat]
         /\ serial' \in [TabRecords -> Seq(Users)] /\ turn' \in [Users -> Turns] /\ depth' \in Nat
         /\ driver' \in [Drivers -> DriverStates]
<1>1. record[u] \in TabRecords BY DEF QueuesFit
<1>2. refCount' \in [TabRecords -> Nat] BY <1>1 DEF Granted, TabTypeOK
<1>3. owners' \in [TabRecords -> SUBSET Nat]
  <2>1. Owner(u) \in Nat BY NumbersAre DEF Owner
  <2> QED BY <1>1, <2>1 DEF Granted, TabTypeOK
<1>4. serial' \in [TabRecords -> Seq(Users)]
  <2>1. serial[record[u]] \in Seq(Users) BY <1>1 DEF TabTypeOK
  <2>2. Tail(serial[record[u]]) \in Seq(Users) BY <2>1
  <2> QED BY <1>1, <2>2 DEF Granted, TabTypeOK
<1>5. turn' \in [Users -> Turns] BY DEF Granted, Continues, TabTypeOK, Turns
<1>6. depth' \in Nat BY DEF Granted, TabTypeOK
<1>7. driver' \in [Drivers -> DriverStates]
  <2>1. CASE u \notin Drivers BY <2>1 DEF Granted, Continues, TabTypeOK
  <2>2. CASE u \in Drivers
    <3>1. driver[u] \in DriverStates BY <2>2 DEF TabTypeOK
    <3>2. /\ [driver[u] EXCEPT !.phase = "failed"] \in DriverStates
          /\ [driver[u] EXCEPT !.phase = "enabling", !.lifetime = TRUE] \in DriverStates
      BY <3>1 DEF DriverStates, Phases
    <3> QED BY <2>2, <3>2 DEF Granted, Continues, TabTypeOK
  <2> QED BY <2>1, <2>2
<1> QED BY <1>2, <1>3, <1>4, <1>5, <1>6, <1>7

\* What a turn that ends leaves, with the depth of the session.
LEMMA EndTypes ==
  ASSUME TabTypeOK, QueuesFit, NEW u \in Users, Acquires(u) \/ Releases(u), serial[record[u]] # <<>>, EndTurn(u)
  PROVE  serial' \in [TabRecords -> Seq(Users)] /\ turn' \in [Users -> Turns]
<1>1. record[u] \in TabRecords BY DEF QueuesFit
<1>2. serial[record[u]] \in Seq(Users) BY <1>1 DEF TabTypeOK
<1>3. Tail(serial[record[u]]) \in Seq(Users) BY <1>2
<1> QED BY <1>1, <1>3 DEF EndTurn, TabTypeOK, Turns

\* The turns of a user keep the types.
LEMMA UserTypes ==
  ASSUME TabTypeOK, QueuesFit, NEW u \in Users, UserSteps(u) PROVE TabTypeOK'
<1>1. turn[u] \in {"attaching", "detaching"} => serial[record[u]] # <<>> BY DEF QueuesFit
<1>2. Shallower(u) => depth' \in Nat /\ tracking' \in Nat BY DEF Shallower, TabTypeOK
<1>3. CASE AcquireHeld(u)
  <2>1. Granted(u) /\ Acquires(u) /\ serial[record[u]] # <<>> /\ UNCHANGED chromeVars
    BY <1>3 DEF AcquireHeld, HasTurn, Acquires
  <2> QED BY <2>1, GrantedTypes DEF Granted, TabTypeOK, chromeVars
<1>4. CASE Attached(u)
  <2>1. Granted(u) /\ Acquires(u) /\ serial[record[u]] # <<>> /\ attached' = TRUE /\ UNCHANGED <<pageEnabled, document>>
    BY <1>1, <1>4 DEF Attached, Acquires
  <2> QED BY <2>1, GrantedTypes DEF Granted, TabTypeOK
<1>5. CASE AcquireFirst(u)
  <2>1. turn' \in [Users -> Turns] BY <1>5 DEF AcquireFirst, TabTypeOK, Turns
  <2> QED BY <1>5, <2>1 DEF AcquireFirst, TabTypeOK, chromeVars, sessionVars, driverVars
<1>6. CASE AttachFails(u)
  <2>1. serial' \in [TabRecords -> Seq(Users)] /\ turn' \in [Users -> Turns]
    BY <1>1, <1>6, EndTypes DEF AttachFails, Acquires
  <2>2. driver' \in [Drivers -> DriverStates] /\ entry' \in {0} \cup Drivers
    <3>1. CASE u \notin Drivers BY <1>6, <3>1 DEF AttachFails, TabTypeOK
    <3>2. CASE u \in Drivers
      <4>1. driver[u] \in DriverStates BY <3>2 DEF TabTypeOK
      <4>2. [driver[u] EXCEPT !.phase = "failed", !.disposed = @ \/ entry = u] \in DriverStates
        BY <4>1 DEF DriverStates, Phases
      <4>3. driver' = [driver EXCEPT ![u] = [driver[u] EXCEPT !.phase = "failed", !.disposed = @ \/ entry = u]]
        BY <1>6, <3>2 DEF AttachFails, TabTypeOK
      <4> QED BY <1>6, <3>2, <4>2, <4>3 DEF AttachFails, TabTypeOK
    <3> QED BY <3>1, <3>2
  <2>3. tracking' \in Nat BY <1>6 DEF AttachFails, TabTypeOK
  <2> QED BY <1>6, <2>1, <2>2, <2>3 DEF AttachFails, TabTypeOK, chromeVars
<1>7. CASE ReleaseNothing(u)
  <2>1. serial' \in [TabRecords -> Seq(Users)] /\ turn' \in [Users -> Turns]
    BY <1>7, EndTypes DEF ReleaseNothing, HasTurn, Releases
  <2> QED BY <1>2, <1>7, <2>1 DEF ReleaseNothing, TabTypeOK, chromeVars
<1>8. CASE ReleaseHeld(u)
  <2>1. record[u] \in TabRecords /\ Releases(u) /\ serial[record[u]] # <<>>
    BY <1>8 DEF ReleaseHeld, HasTurn, Releases, QueuesFit
  <2>2. refCount' \in [TabRecords -> Nat] /\ owners' \in [TabRecords -> SUBSET Nat]
    BY <1>8, <2>1 DEF ReleaseHeld, TabTypeOK
  <2>3. serial' \in [TabRecords -> Seq(Users)] /\ turn' \in [Users -> Turns] /\ depth' \in Nat /\ tracking' \in Nat
    <3>1. CASE refCount[record[u]] > 1 BY <1>2, <1>8, <2>1, <3>1, EndTypes DEF ReleaseHeld
    <3>2. CASE ~(refCount[record[u]] > 1) BY <1>8, <3>2 DEF ReleaseHeld, TabTypeOK, Turns
    <3> QED BY <3>1, <3>2
  <2> QED BY <1>8, <2>2, <2>3 DEF ReleaseHeld, TabTypeOK, chromeVars
<1>9. CASE Detached(u)
  <2>1. serial' \in [TabRecords -> Seq(Users)] /\ turn' \in [Users -> Turns]
    BY <1>1, <1>9, EndTypes DEF Detached, Releases
  <2>2. depth' \in Nat /\ tracking' \in Nat BY <1>2, <1>9 DEF Detached
  <2>3. attached' \in BOOLEAN /\ pageEnabled' \in BOOLEAN BY <1>9 DEF Detached
  <2>4. table' \in {0} \cup TabRecords /\ records' \in Nat /\ table' <= records' BY <1>9 DEF Detached, TabTypeOK
  <2> QED BY <1>9, <2>1, <2>2, <2>3, <2>4 DEF Detached, TabTypeOK
<1> QED BY <1>3, <1>4, <1>5, <1>6, <1>7, <1>8, <1>9 DEF UserSteps

\* A driver that was not made yet, or that has its lifetime, waits for nothing.
LEMMA DriverIdle ==
  ASSUME TabTypeOK, DriversFit, NEW d \in Drivers, driver[d].phase \in {"none", "enabling"} \/ driver[d].lifetime
  PROVE  turn[d] = "idle"
<1>1. turn[d] \in Turns BY NumbersAre DEF TabTypeOK
<1>2. /\ turn[d] \notin {"evaluating", "using"}
      /\ Acquires(d) <=> driver[d].phase = "acquiring"
      /\ Releases(d) => driver[d].phase \in {"ready", "failed"} /\ ~driver[d].lifetime
      /\ driver[d].lifetime => driver[d].phase \notin {"none", "acquiring"}
  BY DEF DriversFit, DriverFits
<1>3. ~Acquires(d) /\ ~Releases(d) BY <1>2
<1> QED BY <1>1, <1>2, <1>3 DEF Turns, Acquires, Releases

\* One more of what is counted.
LEMMA SpentMore ==
  ASSUME NEW s \in [evaluations : Nat, detaches : Nat, uses : Nat]
  PROVE  /\ [s EXCEPT !.evaluations = @ + 1] \in [evaluations : Nat, detaches : Nat, uses : Nat]
         /\ [s EXCEPT !.detaches = @ + 1] \in [evaluations : Nat, detaches : Nat, uses : Nat]
         /\ [s EXCEPT !.uses = @ + 1] \in [evaluations : Nat, detaches : Nat, uses : Nat]
         /\ [s EXCEPT !.detaches = @ + 1].detaches # 0
         /\ [s EXCEPT !.evaluations = @ + 1].detaches = s.detaches /\ [s EXCEPT !.uses = @ + 1].detaches = s.detaches
OBVIOUS

\* Every step keeps the types.
LEMMA TypesKept ==
  ASSUME TabTypeOK, QueuesFit, DriversFit, [TabNext]_tabVars PROVE TabTypeOK'
<1>1. \A d \in Drivers : driver[d] \in DriverStates /\ d \in Users BY NumbersAre DEF TabTypeOK
<1>2. ASSUME Looked
      PROVE  table' \in {0} \cup TabRecords /\ records' \in Nat /\ table' <= records'
  BY <1>2, LookedAt
<1>3. ASSUME NEW u \in Users, turn[u] \in {"idle", "evaluating", "using"}, NEW step \in {"acquiring", "releasing"}, Enqueue(u, step)
      PROVE  /\ turn' \in [Users -> Turns] /\ record' \in [Users -> {0} \cup TabRecords] /\ serial' \in [TabRecords -> Seq(Users)]
             /\ table' \in {0} \cup TabRecords /\ records' \in Nat /\ table' <= records'
             /\ UNCHANGED <<refCount, owners, enabled>>
  BY <1>2, <1>3, Enqueues DEF Enqueue
<1>4. ASSUME EnsuresPage
      PROVE  /\ enabled' \in [TabRecords -> BOOLEAN] /\ pageEnabled' \in BOOLEAN
             /\ table' \in {0} \cup TabRecords /\ records' \in Nat /\ table' <= records'
  BY <1>2, <1>4 DEF EnsuresPage, TabTypeOK
<1>5. ASSUME Install PROVE tracking' \in Nat
  <2>1. Current \in Nat BY NumbersAre DEF Current, TabTypeOK
  <2> QED BY <1>5, <2>1 DEF Install, TabTypeOK
<1>6. ASSUME NEW u \in Users, UserSteps(u) PROVE TabTypeOK' BY <1>6, UserTypes
<1>7. ASSUME NEW d \in Drivers, EnablePage(d) PROVE TabTypeOK'
  <2>1. [driver[d] EXCEPT !.phase = IF driver[d].closed THEN "failed" ELSE "ready"] \in DriverStates
    BY <1>1 DEF DriverStates, Phases
  <2>2. driver' \in [Drivers -> DriverStates]
    <3>1. driver' = [driver EXCEPT ![d] = [driver[d] EXCEPT !.phase = IF driver[d].closed THEN "failed" ELSE "ready"]]
      BY <1>7 DEF EnablePage, TabTypeOK
    <3> QED BY <2>1, <3>1 DEF TabTypeOK
  <2> QED BY <1>4, <1>7, <2>2 DEF EnablePage, TabTypeOK, sessionVars
<1>8. ASSUME NEW d \in Drivers, EnableFails(d) PROVE TabTypeOK'
  <2>1. [driver[d] EXCEPT !.phase = "failed", !.lifetime = FALSE, !.disposed = @ \/ entry = d] \in DriverStates
    BY <1>1 DEF DriverStates, Phases
  <2>2. driver' \in [Drivers -> DriverStates] /\ entry' \in {0} \cup Drivers
    <3>1. driver' = [driver EXCEPT ![d] = [driver[d] EXCEPT !.phase = "failed", !.lifetime = FALSE, !.disposed = @ \/ entry = d]]
      BY <1>8 DEF EnableFails, TabTypeOK
    <3> QED BY <1>8, <2>1, <3>1 DEF EnableFails, TabTypeOK
  <2>3. turn[d] = "idle" BY <1>8, DriverIdle DEF EnableFails
  <2>4. CASE driver[d].lifetime
    <3>1. Enqueue(d, "releasing") BY <1>8, <2>4 DEF EnableFails
    <3> QED BY <1>1, <1>3, <1>8, <2>2, <2>3, <3>1 DEF EnableFails, TabTypeOK, chromeVars, sessionVars
  <2>5. CASE ~driver[d].lifetime
    BY <1>2, <1>8, <2>2, <2>5 DEF EnableFails, TabTypeOK, chromeVars, sessionVars
  <2> QED BY <2>4, <2>5
<1>9. ASSUME NEW d \in Drivers, ReleaseLifetime(d) PROVE TabTypeOK'
  <2>1. turn[d] = "idle" BY <1>9, DriverIdle DEF ReleaseLifetime
  <2>2. driver' \in [Drivers -> DriverStates]
    <3>1. [driver[d] EXCEPT !.lifetime = FALSE] \in DriverStates BY <1>1 DEF DriverStates
    <3> QED BY <1>9, <3>1 DEF ReleaseLifetime, TabTypeOK
  <2> QED BY <1>1, <1>3, <1>9, <2>1, <2>2 DEF ReleaseLifetime, TabTypeOK, chromeVars, sessionVars
<1>10. CASE Evaluated
  <2>1. eval' \in RefStates
    <3>1. [eval EXCEPT !.document = IF attached /\ Usable(eval.driver) THEN document ELSE 0] \in RefStates
      BY DEF TabTypeOK, RefStates
    <3> QED BY <1>10, <3>1 DEF Evaluated
  <2> QED BY <1>3, <1>10, <2>1, NumbersAre DEF Evaluated, TabTypeOK, chromeVars, sessionVars
<1>11. NoRef \in RefStates BY DEF NoRef, RefStates
<1>12. CASE Remember BY <1>11, <1>12 DEF Remember, TabTypeOK, chromeVars, managerVars, sessionVars
<1>13. ASSUME NEW u \in Tools, ToolAsks(u) PROVE TabTypeOK'
  <2>1. tabSpent' \in [evaluations : Nat, detaches : Nat, uses : Nat] BY <1>13, SpentMore DEF ToolAsks, TabTypeOK
  <2> QED BY <1>3, <1>13, <2>1, NumbersAre DEF ToolAsks, TabTypeOK, chromeVars, sessionVars
<1>14. ASSUME NEW u \in Tools, ToolEnablesPage(u) PROVE TabTypeOK'
  BY <1>4, <1>14 DEF ToolEnablesPage, TabTypeOK, sessionVars, driverVars
<1>15. ASSUME NEW u \in Tools, ToolDone(u) PROVE TabTypeOK'
  BY <1>3, <1>15, NumbersAre DEF ToolDone, TabTypeOK, chromeVars, sessionVars, driverVars
<1>16. CASE MakeDriver
  <2>1. PICK d \in Drivers : /\ driver[d].phase = "none" /\ Install /\ Enqueue(d, "acquiring")
                             /\ driver' = [driver EXCEPT ![d].phase = "acquiring"] /\ entry' = d
    BY <1>16 DEF MakeDriver
  <2>2. turn[d] = "idle" BY <2>1, DriverIdle
  <2>3. driver' \in [Drivers -> DriverStates]
    <3>1. [driver[d] EXCEPT !.phase = "acquiring"] \in DriverStates BY <1>1 DEF DriverStates, Phases
    <3> QED BY <2>1, <3>1 DEF TabTypeOK
  <2> QED BY <1>1, <1>3, <1>5, <1>16, <2>1, <2>2, <2>3 DEF MakeDriver, TabTypeOK, chromeVars
<1>17. CASE ReleaseEntry
  <2>1. entry \in Drivers BY <1>17 DEF ReleaseEntry, TabTypeOK
  <2>2. [driver[entry] EXCEPT !.disposed = TRUE] \in DriverStates BY <1>1, <2>1 DEF DriverStates
  <2>3. driver' \in [Drivers -> DriverStates] BY <1>17, <2>1, <2>2 DEF ReleaseEntry, TabTypeOK
  <2> QED BY <1>17, <2>3 DEF ReleaseEntry, TabTypeOK, chromeVars, managerVars, sessionVars
<1>18. CASE StartEvaluation
  <2>1. eval' \in RefStates
    <3>1. [driver |-> entry, generation |-> generation, document |-> 0] \in RefStates BY DEF TabTypeOK, RefStates
    <3> QED BY <1>18, <3>1 DEF StartEvaluation
  <2>2. tabSpent' \in [evaluations : Nat, detaches : Nat, uses : Nat] BY <1>18, SpentMore DEF StartEvaluation, TabTypeOK
  <2> QED BY <1>3, <1>5, <1>18, <2>1, <2>2, NumbersAre DEF StartEvaluation, TabTypeOK, chromeVars
<1>19. CASE Navigate BY <1>19 DEF Navigate, TabTypeOK, managerVars, driverVars
<1>20. CASE BrowserDetaches
  <2> DEFINE heard == table # 0 /\ tracking = table
             closing(d) == heard /\ driver[d].phase # "none" /\ ~driver[d].disposed
  <2>1. driver' \in [Drivers -> DriverStates]
    <3>1. \A d \in Drivers : [driver[d] EXCEPT !.closed = @ \/ closing(d), !.lifetime = @ /\ ~closing(d),
                                               !.disposed = @ \/ (Evicted /\ d = entry)] \in DriverStates
      <4> SUFFICES ASSUME NEW d \in Drivers
                   PROVE  [driver[d] EXCEPT !.closed = @ \/ closing(d), !.lifetime = @ /\ ~closing(d),
                                            !.disposed = @ \/ (Evicted /\ d = entry)] \in DriverStates
        OBVIOUS
      <4>1. driver[d] \in DriverStates BY <1>1
      <4> HIDE DEF closing
      <4> QED BY <4>1 DEF DriverStates
    <3> QED BY <1>20, <3>1 DEF BrowserDetaches
  <2>2. tabSpent' \in [evaluations : Nat, detaches : Nat, uses : Nat] BY <1>20, SpentMore DEF BrowserDetaches, TabTypeOK
  <2>3. tracking' \in Nat /\ generation' \in Nat /\ entry' \in {0} \cup Drivers
    <3>1. /\ generation' = IF heard THEN generation + 1 ELSE generation
          /\ tracking' = IF heard THEN 0 ELSE tracking
          /\ entry' = IF Evicted THEN 0 ELSE entry
      BY <1>20 DEF BrowserDetaches
    <3> HIDE DEF heard
    <3> QED BY <3>1 DEF TabTypeOK
  <2>4. attached' \in BOOLEAN /\ pageEnabled' \in BOOLEAN /\ table' = 0 BY <1>20 DEF BrowserDetaches
  <2>5. UNCHANGED <<document, records, refCount, owners, serial, enabled, turn, record, depth, watch, eval, ref>>
    BY <1>20 DEF BrowserDetaches
  <2> QED BY <2>1, <2>2, <2>3, <2>4, <2>5 DEF TabTypeOK
<1>21. CASE UNCHANGED tabVars
  BY <1>21 DEF tabVars, chromeVars, managerVars, sessionVars, driverVars, TabTypeOK
<1> QED BY <1>6, <1>7, <1>8, <1>9, <1>10, <1>12, <1>13, <1>14, <1>15, <1>16, <1>17, <1>18, <1>19, <1>20, <1>21
     DEF TabNext, TabProgress

\* What a step does to the manager and its holders.  One that looks up the tab's record, at most:
SameHolders == \A v \in Users : (Holds(v))' <=> Holds(v)
Quiet ==
  /\ UNCHANGED <<attached, refCount, owners, serial, turn, record>>
  /\ Looked \/ UNCHANGED <<table, records>>
  /\ SameHolders

\* user u begins to wait for the debugger, or to let go what it holds;
Asks(u) ==
  /\ turn[u] = "idle" /\ Enqueue(u, "acquiring") /\ UNCHANGED attached
  /\ u \in Drivers => ~driver[u].closed
  /\ ~Holds(u) /\ SameHolders
Lets(u) ==
  /\ turn[u] \in {"idle", "evaluating", "using"} /\ Enqueue(u, "releasing") /\ UNCHANGED attached
  /\ Holds(u) /\ ~(Holds(u))' /\ \A v \in Users \ {u} : (Holds(v))' <=> Holds(v)

\* it is at the head of its list,
AtHead(u) == (Acquires(u) \/ Releases(u)) /\ serial[record[u]] # <<>> /\ Head(serial[record[u]]) = u

\* is granted the debugger, makes Chrome attach it, or fails to.
Grants(u) ==
  /\ AtHead(u) /\ Acquires(u)
  /\ \/ refCount[record[u]] > 0 /\ UNCHANGED attached
     \/ ~attached /\ attached'
  /\ refCount' = [refCount EXCEPT ![record[u]] = @ + 1]
  /\ owners' = [owners EXCEPT ![record[u]] = @ \cup {Owner(u)}]
  /\ serial' = [serial EXCEPT ![record[u]] = Tail(@)]
  /\ \E next \in {"idle", "evaluating", "using"} : turn' = [turn EXCEPT ![u] = next]
  /\ UNCHANGED <<table, records, record>>
  /\ ~Holds(u) /\ ((Holds(u))' \/ (u \in Drivers /\ driver[u].closed))
  /\ \A v \in Users \ {u} : (Holds(v))' <=> Holds(v)
Waits(u) ==
  /\ AtHead(u) /\ Acquires(u)
  /\ turn' = [turn EXCEPT ![u] = "attaching"]
  /\ UNCHANGED <<attached, table, records, refCount, owners, serial, record>>
  /\ ~Holds(u) /\ SameHolders
Fails(u) ==
  /\ AtHead(u) /\ Acquires(u)
  /\ EndTurn(u)
  /\ UNCHANGED <<attached, table, records, refCount, owners, record>>
  /\ ~Holds(u) /\ SameHolders

\* Nobody holds, or stops to, but for a change of its turn or of its driver.
LEMMA HoldersStay ==
  ASSUME TabTypeOK, DriversFit, NEW u \in Users, NEW next \in Turns \ {"evaluating", "using"},
         turn[u] \notin {"evaluating", "using"},
         turn' = turn \/ turn' = [turn EXCEPT ![u] = next],
         \A d \in Drivers : driver'[d].lifetime <=> driver[d].lifetime
  PROVE  SameHolders
<1>1. \A v \in Users \ {u} : turn'[v] = turn[v] BY DEF TabTypeOK
<1>2. turn'[u] \notin {"evaluating", "using"} BY DEF TabTypeOK
<1> QED BY <1>1, <1>2 DEF SameHolders, Holds

\* What a user does with its turn.
LEMMA UserKinds ==
  ASSUME TabTypeOK, QueuesFit, DriversFit, NEW u \in Users, UserSteps(u)
  PROVE  Grants(u) \/ Waits(u) \/ Fails(u) \/ ReleaseNothing(u) \/ ReleaseHeld(u) \/ Detached(u)
<1>1. turn[u] = "attaching" => AtHead(u) BY DEF QueuesFit, AtHead, Acquires
<1>2. Acquires(u) => ~Holds(u) /\ turn[u] \notin {"evaluating", "using"} BY DEF Acquires, DriversFit, DriverFits, Holds
<1>3. ASSUME Granted(u), Acquires(u), AtHead(u),
             (refCount[record[u]] > 0 /\ UNCHANGED attached) \/ (~attached /\ attached')
      PROVE  Grants(u)
  <2>1. /\ refCount' = [refCount EXCEPT ![record[u]] = @ + 1]
        /\ owners' = [owners EXCEPT ![record[u]] = @ \cup {Owner(u)}]
        /\ serial' = [serial EXCEPT ![record[u]] = Tail(@)]
        /\ UNCHANGED <<table, records, record>>
    BY <1>3 DEF Granted
  <2>2. CASE u \notin Drivers
    <3>1. turn' = [turn EXCEPT ![u] = IF u = Op THEN "evaluating" ELSE "using"] /\ driver' = driver
      BY <1>3, <2>2 DEF Granted, Continues
    <3>2. turn'[u] \in {"evaluating", "using"} /\ \A v \in Users \ {u} : turn'[v] = turn[v] BY <3>1 DEF TabTypeOK
    <3>3. (Holds(u))' BY <2>2, <3>2 DEF Holds
    <3>4. \A v \in Users \ {u} : (Holds(v))' <=> Holds(v) BY <3>1, <3>2 DEF Holds
    <3> QED BY <1>2, <1>3, <2>1, <3>1, <3>3, <3>4 DEF Grants
  <2>3. CASE u \in Drivers
    <3>1. /\ turn' = [turn EXCEPT ![u] = "idle"]
          /\ driver' = [driver EXCEPT ![u] = IF driver[u].closed THEN [driver[u] EXCEPT !.phase = "failed"]
                                             ELSE [driver[u] EXCEPT !.phase = "enabling", !.lifetime = TRUE]]
      BY <1>3, <2>3 DEF Granted, Continues
    <3>2. \A v \in Users \ {u} : turn'[v] = turn[v] BY <3>1 DEF TabTypeOK
    <3>3. \A d \in Drivers \ {u} : driver'[d] = driver[d] BY <3>1 DEF TabTypeOK
    <3>4. ~driver[u].closed => driver'[u].lifetime BY <2>3, <3>1 DEF TabTypeOK, DriverStates
    <3>5. (Holds(u))' \/ (u \in Drivers /\ driver[u].closed) BY <2>3, <3>4 DEF Holds
    <3>6. \A v \in Users \ {u} : (Holds(v))' <=> Holds(v) BY <3>2, <3>3 DEF Holds
    <3> QED BY <1>2, <1>3, <2>1, <3>1, <3>5, <3>6 DEF Grants
  <2> QED BY <2>2, <2>3
<1>4. CASE AcquireHeld(u)
  <2>1. Granted(u) /\ Acquires(u) /\ AtHead(u) /\ refCount[record[u]] > 0 /\ UNCHANGED attached
    BY <1>4 DEF AcquireHeld, HasTurn, AtHead, Acquires, chromeVars
  <2> QED BY <1>3, <2>1
<1>5. CASE Attached(u)
  <2>1. Granted(u) /\ Acquires(u) /\ AtHead(u) /\ ~attached /\ attached' BY <1>1, <1>5 DEF Attached, Acquires
  <2> QED BY <1>3, <2>1
<1>6. CASE AcquireFirst(u)
  <2>1. Acquires(u) /\ AtHead(u) BY <1>6 DEF AcquireFirst, HasTurn, AtHead, Acquires
  <2>2. turn' = [turn EXCEPT ![u] = "attaching"] /\ driver' = driver BY <1>6 DEF AcquireFirst, driverVars
  <2>3. SameHolders BY <1>2, <2>1, <2>2, HoldersStay DEF Turns
  <2> QED BY <1>2, <1>6, <2>1, <2>3 DEF Waits, AcquireFirst, chromeVars
<1>7. CASE AttachFails(u)
  <2>1. Acquires(u) /\ AtHead(u) /\ EndTurn(u) /\ UNCHANGED <<attached, table, records, refCount, owners, record>>
    BY <1>1, <1>7 DEF AttachFails, Acquires, chromeVars
  <2>2. \A d \in Drivers : driver'[d].lifetime <=> driver[d].lifetime
    <3>1. CASE u \notin Drivers BY <1>7, <3>1 DEF AttachFails
    <3>2. CASE u \in Drivers
      <4>1. driver' = [driver EXCEPT ![u].phase = "failed", ![u].disposed = @ \/ entry = u]
        BY <1>7, <3>2 DEF AttachFails
      <4> QED BY <3>2, <4>1 DEF TabTypeOK, DriverStates
    <3> QED BY <3>1, <3>2
  <2>3. SameHolders BY <1>2, <2>1, <2>2, HoldersStay DEF Turns, EndTurn
  <2> QED BY <1>2, <2>1, <2>3 DEF Fails
<1> QED BY <1>4, <1>5, <1>6, <1>7 DEF UserSteps

\* What the other steps do.
LEMMA StepKinds ==
  ASSUME TabTypeOK, QueuesFit, DriversFit, [TabNext]_tabVars
  PROVE  \/ Quiet \/ BrowserDetaches
         \/ \E u \in Users : \/ Asks(u) \/ Lets(u) \/ Grants(u) \/ Waits(u) \/ Fails(u)
                             \/ ReleaseNothing(u) \/ ReleaseHeld(u) \/ Detached(u)
<1>1. ASSUME NEW u \in Users, UserSteps(u)
      PROVE  Grants(u) \/ Waits(u) \/ Fails(u) \/ ReleaseNothing(u) \/ ReleaseHeld(u) \/ Detached(u)
  BY <1>1, UserKinds
<1>2. ASSUME UNCHANGED <<attached, refCount, owners, serial, turn, record>>, Looked \/ UNCHANGED <<table, records>>,
             \A d \in Drivers : driver'[d].lifetime <=> driver[d].lifetime
      PROVE  Quiet
  BY <1>2 DEF Quiet, SameHolders, Holds
<1>3. ASSUME NEW d \in Drivers, EnablePage(d) PROVE Quiet
  <2>1. driver' = [driver EXCEPT ![d].phase = IF driver[d].closed THEN "failed" ELSE "ready"] BY <1>3 DEF EnablePage
  <2>2. \A e \in Drivers : driver'[e].lifetime <=> driver[e].lifetime BY <2>1 DEF TabTypeOK, DriverStates
  <2> QED BY <1>2, <1>3, <2>2 DEF EnablePage, EnsuresPage
<1>4. ASSUME NEW d \in Drivers, driver[d].lifetime, turn[d] = "idle", driver' = [driver EXCEPT ![d] = driver'[d]],
             ~driver'[d].lifetime, Enqueue(d, "releasing"), UNCHANGED attached
      PROVE  Lets(d)
  <2>1. turn' = [turn EXCEPT ![d] = "releasing"] /\ d \in Users BY <1>4, NumbersAre DEF Enqueue
  <2>2. \A v \in Users \ {d} : turn'[v] = turn[v] BY <2>1 DEF TabTypeOK
  <2>3. \A e \in Drivers \ {d} : driver'[e] = driver[e] BY <1>4 DEF TabTypeOK
  <2>4. \A v \in Users \ {d} : (Holds(v))' <=> Holds(v) BY <2>2, <2>3 DEF Holds
  <2>5. Holds(d) /\ ~(Holds(d))' BY <1>4 DEF Holds
  <2> QED BY <1>4, <2>4, <2>5 DEF Lets
<1>5. ASSUME NEW d \in Drivers, EnableFails(d) PROVE Quiet \/ Lets(d)
  <2>1. driver' = [driver EXCEPT ![d].phase = "failed", ![d].lifetime = FALSE, ![d].disposed = @ \/ entry = d]
        /\ UNCHANGED attached
    BY <1>5 DEF EnableFails, chromeVars
  <2>2. CASE driver[d].lifetime
    <3>1. turn[d] = "idle" BY <2>2, DriverIdle
    <3>2. driver' = [driver EXCEPT ![d] = driver'[d]] /\ ~driver'[d].lifetime BY <2>1 DEF TabTypeOK, DriverStates
    <3> QED BY <1>4, <1>5, <2>1, <2>2, <3>1, <3>2 DEF EnableFails
  <2>3. CASE ~driver[d].lifetime
    <3>1. \A e \in Drivers : driver'[e].lifetime <=> driver[e].lifetime BY <2>1, <2>3 DEF TabTypeOK, DriverStates
    <3> QED BY <1>2, <1>5, <2>1, <2>3, <3>1 DEF EnableFails
  <2> QED BY <2>2, <2>3
<1>6. ASSUME NEW d \in Drivers, ReleaseLifetime(d) PROVE Lets(d)
  <2>1. driver' = [driver EXCEPT ![d].lifetime = FALSE] /\ driver[d].lifetime /\ UNCHANGED attached
        /\ Enqueue(d, "releasing")
    BY <1>6 DEF ReleaseLifetime, chromeVars
  <2>2. driver' = [driver EXCEPT ![d] = driver'[d]] /\ ~driver'[d].lifetime BY <2>1 DEF TabTypeOK, DriverStates
  <2> QED BY <1>4, <2>1, <2>2, DriverIdle
<1>7. ASSUME NEW u \in Users, u \notin Drivers, turn[u] \in {"evaluating", "using"}, Enqueue(u, "releasing"),
             UNCHANGED <<attached, driver>>
      PROVE  Lets(u)
  <2>1. turn' = [turn EXCEPT ![u] = "releasing"] BY <1>7 DEF Enqueue
  <2>2. \A v \in Users \ {u} : turn'[v] = turn[v] BY <2>1 DEF TabTypeOK
  <2>3. turn'[u] = "releasing" BY <2>1 DEF TabTypeOK
  <2> QED BY <1>7, <2>2, <2>3 DEF Lets, Holds
<1>8. CASE Evaluated BY <1>7, <1>8, NumbersAre DEF Evaluated, chromeVars
<1>9. ASSUME NEW u \in Tools, ToolDone(u) PROVE Lets(u)
  <2>1. u \in Users /\ u \notin Drivers BY NumbersAre
  <2> QED BY <1>7, <1>9, <2>1 DEF ToolDone, chromeVars, driverVars
<1>10. ASSUME NEW u \in Users, turn[u] = "idle", ~Holds(u), u \in Drivers => ~driver[u].closed,
              Enqueue(u, "acquiring"), UNCHANGED attached,
              \A e \in Drivers : driver'[e].lifetime <=> driver[e].lifetime
       PROVE  Asks(u)
  <2>1. turn' = [turn EXCEPT ![u] = "acquiring"] BY <1>10 DEF Enqueue
  <2>2. SameHolders BY <1>10, <2>1, HoldersStay DEF Turns
  <2> QED BY <1>10, <2>2 DEF Asks
<1>11. ASSUME NEW u \in Tools, ToolAsks(u) PROVE Asks(u)
  <2>1. u \in Users /\ u \notin Drivers BY NumbersAre
  <2>2. ~Holds(u) /\ turn[u] = "idle" BY <1>11, <2>1 DEF ToolAsks, Holds
  <2> QED BY <1>10, <1>11, <2>1, <2>2 DEF ToolAsks, chromeVars
<1>12. CASE StartEvaluation
  <2>1. Op \in Users /\ Op \notin Drivers BY NumbersAre
  <2>2. ~Holds(Op) /\ turn[Op] = "idle" BY <1>12, <2>1 DEF StartEvaluation, Holds
  <2> QED BY <1>10, <1>12, <2>1, <2>2 DEF StartEvaluation, chromeVars
<1>13. ASSUME MakeDriver PROVE \E u \in Users : Asks(u)
  <2>1. PICK d \in Drivers : /\ driver[d].phase = "none" /\ Enqueue(d, "acquiring")
                             /\ driver' = [driver EXCEPT ![d].phase = "acquiring"]
    BY <1>13 DEF MakeDriver
  <2>2. turn[d] = "idle" /\ d \in Users BY <2>1, DriverIdle, NumbersAre
  <2>3. ~driver[d].lifetime /\ ~driver[d].closed BY <2>1 DEF DriversFit, DriverFits
  <2>4. ~Holds(d) BY <2>3 DEF Holds
  <2>5. \A e \in Drivers : driver'[e].lifetime <=> driver[e].lifetime BY <2>1 DEF TabTypeOK, DriverStates
  <2> QED BY <1>10, <1>13, <2>1, <2>2, <2>3, <2>4, <2>5 DEF MakeDriver, chromeVars
<1>14. CASE ReleaseEntry
  <2>1. driver' = [driver EXCEPT ![entry].disposed = TRUE] BY <1>14 DEF ReleaseEntry
  <2>2. \A e \in Drivers : driver'[e].lifetime <=> driver[e].lifetime BY <2>1 DEF TabTypeOK, DriverStates
  <2> QED BY <1>2, <1>14, <2>2 DEF ReleaseEntry, chromeVars, managerVars
<1>15. ASSUME NEW u \in Tools, ToolEnablesPage(u) PROVE Quiet
  BY <1>2, <1>15 DEF ToolEnablesPage, EnsuresPage, driverVars
<1>16. CASE Remember BY <1>2, <1>16 DEF Remember, chromeVars, managerVars
<1>17. CASE Navigate BY <1>2, <1>17 DEF Navigate, managerVars, driverVars
<1>18. CASE UNCHANGED tabVars BY <1>2, <1>18 DEF tabVars, chromeVars, managerVars, driverVars
<1> QED BY <1>1, <1>3, <1>5, <1>6, <1>8, <1>9, <1>11, <1>12, <1>13, <1>14, <1>15, <1>16, <1>17, <1>18, NumbersAre
     DEF TabNext, TabProgress

\* A step that ends a turn, or makes Chrome attach or detach, leaves the others on their lists.
LEMMA TurnKeeps ==
  ASSUME TabTypeOK, QueuesFit, AllOnList, NEW u \in Users, AtHead(u), record' = record,
         \/ /\ serial' = [serial EXCEPT ![record[u]] = Tail(@)]
            /\ \E next \in {"idle", "evaluating", "using"} : turn' = [turn EXCEPT ![u] = next]
         \/ /\ serial' = serial
            /\ \E next \in {"attaching", "detaching"} : turn' = [turn EXCEPT ![u] = next]
  PROVE  QueuesFit' /\ AllOnList'
<1>1. (Acquires(u) \/ Releases(u)) /\ serial[record[u]] # <<>> /\ Head(serial[record[u]]) = u BY DEF AtHead
<1>2. ASSUME serial' = [serial EXCEPT ![record[u]] = Tail(@)],
             NEW next \in {"idle", "evaluating", "using"}, turn' = [turn EXCEPT ![u] = next]
      PROVE  QueuesFit' /\ AllOnList'
  BY <1>1, <1>2, TurnEnds, EndKeepsLists
<1>3. ASSUME serial' = serial, NEW next \in {"attaching", "detaching"}, turn' = [turn EXCEPT ![u] = next]
      PROVE  QueuesFit' /\ AllOnList'
  <2>1. QueuesFit' BY <1>1, <1>3, TurnGoes
  <2>2. \A v \in Users \ {u} : turn'[v] = turn[v] BY <1>3 DEF TabTypeOK
  <2>3. \A v \in Users : Acquires(v)' \/ Releases(v)' => Acquires(v) \/ Releases(v)
    BY <1>1, <2>2 DEF Acquires, Releases
  <2> QED BY <1>3, <2>1, <2>3, ListsKept
<1> QED BY <1>2, <1>3

\* Every step keeps the lists.
LEMMA QueuesKept ==
  ASSUME TabTypeOK, QueuesFit, AllOnList, DriversFit, [TabNext]_tabVars PROVE QueuesFit' /\ AllOnList'
<1>1. ASSUME UNCHANGED <<serial, turn, record>> PROVE QueuesFit' /\ AllOnList'
  BY <1>1 DEF QueuesFit, AllOnList, OnList, Acquires, Releases
<1>2. CASE Quiet BY <1>1, <1>2 DEF Quiet
<1>3. CASE BrowserDetaches BY <1>1, <1>3 DEF BrowserDetaches
<1>4. ASSUME NEW u \in Users, NEW step \in {"acquiring", "releasing"}, turn[u] \in {"idle", "evaluating", "using"}, Enqueue(u, step)
      PROVE  QueuesFit' /\ AllOnList'
  BY <1>4, Enqueues, EnqueueKeepsLists
<1>5. ASSUME NEW u \in Users, Asks(u) \/ Lets(u) PROVE QueuesFit' /\ AllOnList'
  BY <1>4, <1>5 DEF Asks, Lets
<1>6. ASSUME NEW u \in Users, Grants(u) PROVE QueuesFit' /\ AllOnList'
  BY <1>6, TurnKeeps DEF Grants
<1>7. ASSUME NEW u \in Users, Waits(u) PROVE QueuesFit' /\ AllOnList'
  BY <1>7, TurnKeeps DEF Waits
<1>8. ASSUME NEW u \in Users, Fails(u) PROVE QueuesFit' /\ AllOnList'
  BY <1>8, TurnKeeps DEF Fails, EndTurn
<1>9. ASSUME NEW u \in Users, ReleaseNothing(u) PROVE QueuesFit' /\ AllOnList'
  BY <1>9, TurnKeeps DEF ReleaseNothing, EndTurn, AtHead, HasTurn, Releases
<1>10. ASSUME NEW u \in Users, ReleaseHeld(u) PROVE QueuesFit' /\ AllOnList'
  <2>1. AtHead(u) /\ record' = record BY <1>10 DEF ReleaseHeld, AtHead, HasTurn, Releases
  <2>2. \/ EndTurn(u)
        \/ turn' = [turn EXCEPT ![u] = "detaching"] /\ serial' = serial
    BY <1>10 DEF ReleaseHeld
  <2> QED BY <2>1, <2>2, TurnKeeps DEF EndTurn
<1>11. ASSUME NEW u \in Users, Detached(u) PROVE QueuesFit' /\ AllOnList'
  <2>1. AtHead(u) BY <1>11 DEF Detached, AtHead, Releases, QueuesFit
  <2> QED BY <1>11, <2>1, TurnKeeps DEF Detached, EndTurn
<1> QED BY <1>2, <1>3, <1>5, <1>6, <1>7, <1>8, <1>9, <1>10, <1>11, StepKinds

\* A step of one user, or one driver, leaves the other drivers as they are.
LEMMA OneDriver ==
  ASSUME DriversFit, NEW u \in Users,
         \A v \in Users \ {u} : turn'[v] = turn[v],
         \A e \in Drivers \ {u} : driver'[e] = driver[e] /\ (entry = e => entry' = e),
         u \in Drivers => (DriverFits(u))',
         u = Op => turn'[u] # "using", u \in Tools => turn'[u] # "evaluating"
  PROVE  DriversFit'
<1>1. ASSUME NEW e \in Drivers \ {u} PROVE (DriverFits(e))'
  <2>1. turn'[e] = turn[e] /\ driver'[e] = driver[e] /\ (entry = e => entry' = e) BY NumbersAre
  <2> QED BY <2>1 DEF DriversFit, DriverFits, Acquires, Releases
<1>2. turn'[Op] # "using" /\ \A v \in Tools : turn'[v] # "evaluating"
  BY NumbersAre DEF DriversFit
<1> QED BY <1>1, <1>2 DEF DriversFit

\* A user that is granted the debugger keeps the drivers.
LEMMA GrantedDrivers ==
  ASSUME TabTypeOK, DriversFit, NEW u \in Users, Acquires(u), Granted(u) PROVE DriversFit'
<1>1. entry' = entry BY DEF Granted
<1>2. CASE u \notin Drivers
  <2>1. turn' = [turn EXCEPT ![u] = IF u = Op THEN "evaluating" ELSE "using"] /\ driver' = driver
    BY <1>2 DEF Granted, Continues
  <2>2. /\ \A v \in Users \ {u} : turn'[v] = turn[v]
        /\ turn'[u] = IF u = Op THEN "evaluating" ELSE "using"
    BY <2>1 DEF TabTypeOK
  <2>3. u \in Tools => u # Op BY NumbersAre
  <2> QED BY <1>1, <1>2, <2>1, <2>2, <2>3, OneDriver
<1>3. CASE u \in Drivers
  <2>1. /\ turn' = [turn EXCEPT ![u] = "idle"]
        /\ driver' = [driver EXCEPT ![u] = IF driver[u].closed THEN [driver[u] EXCEPT !.phase = "failed"]
                                           ELSE [driver[u] EXCEPT !.phase = "enabling", !.lifetime = TRUE]]
    BY <1>3 DEF Granted, Continues
  <2>2. turn'[u] = "idle" /\ \A v \in Users \ {u} : turn'[v] = turn[v] BY <2>1 DEF TabTypeOK
  <2>3. \A e \in Drivers \ {u} : driver'[e] = driver[e] BY <2>1 DEF TabTypeOK
  <2>4. /\ driver'[u].phase \in {"failed", "enabling"} /\ driver'[u].disposed = driver[u].disposed
        /\ driver'[u].phase = "failed" => driver'[u].lifetime = driver[u].lifetime
    BY <1>3, <2>1 DEF TabTypeOK, DriverStates
  <2>5. driver[u].phase = "acquiring" /\ ~driver[u].lifetime /\ (entry = u \/ driver[u].disposed)
    BY <1>3 DEF DriversFit, DriverFits
  <2>6. (DriverFits(u))' BY <1>1, <2>2, <2>4, <2>5 DEF DriverFits, Acquires, Releases
  <2>7. u \notin Tools /\ u # Op BY <1>3, NumbersAre
  <2> QED BY <1>1, <2>2, <2>3, <2>6, <2>7, OneDriver
<1> QED BY <1>2, <1>3

\* Every step keeps the drivers (the constructor, open, dispose, the registry's resolve and release).
LEMMA DriversKept ==
  ASSUME TabTypeOK, QueuesFit, DriversFit, [TabNext]_tabVars PROVE DriversFit'
<1>1. \A d \in Drivers : d \in Users /\ d # Op /\ d \notin Tools /\ DriverFits(d) /\ driver[d] \in DriverStates
  BY NumbersAre DEF DriversFit, TabTypeOK
<1>2. ASSUME UNCHANGED <<turn, driver, entry>> PROVE DriversFit'
  BY <1>2 DEF DriversFit, DriverFits, Acquires, Releases
<1>3. ASSUME NEW u \in Users, u \notin Drivers, NEW next \in Turns \ {"evaluating", "using"},
             turn' = [turn EXCEPT ![u] = next], UNCHANGED <<driver, entry>>
      PROVE  DriversFit'
  <2>1. turn'[u] = next /\ \A v \in Users \ {u} : turn'[v] = turn[v] BY <1>3 DEF TabTypeOK
  <2> QED BY <1>3, <2>1, OneDriver
<1>4. ASSUME NEW d \in Drivers, turn' = turn \/ turn' = [turn EXCEPT ![d] = turn'[d]],
             driver' = [driver EXCEPT ![d] = driver'[d]], (DriverFits(d))',
             \A e \in Drivers \ {d} : entry = e => entry' = e
      PROVE  DriversFit'
  <2>1. /\ \A v \in Users \ {d} : turn'[v] = turn[v]
        /\ \A e \in Drivers \ {d} : driver'[e] = driver[e]
    BY <1>4 DEF TabTypeOK
  <2> QED BY <1>1, <1>4, <2>1, OneDriver
<1>5. ASSUME NEW u \in Users, UserSteps(u) PROVE DriversFit'
  <2>1. CASE AcquireHeld(u) BY <2>1, GrantedDrivers DEF AcquireHeld, HasTurn, Acquires
  <2>2. CASE Attached(u) BY <2>2, GrantedDrivers DEF Attached, Acquires
  <2>3. CASE AcquireFirst(u)
    <3>1. turn' = [turn EXCEPT ![u] = "attaching"] /\ UNCHANGED <<driver, entry>> /\ turn[u] = "acquiring"
      BY <2>3 DEF AcquireFirst, HasTurn, driverVars
    <3>2. CASE u \notin Drivers BY <1>3, <3>1, <3>2 DEF Turns
    <3>3. CASE u \in Drivers
      <4>1. turn'[u] = "attaching" /\ turn' = [turn EXCEPT ![u] = turn'[u]] /\ driver' = [driver EXCEPT ![u] = driver'[u]]
        BY <3>1, <3>3 DEF TabTypeOK
      <4>2. (DriverFits(u))' BY <1>1, <3>1, <3>3, <4>1 DEF DriverFits, Acquires, Releases
      <4> QED BY <1>4, <3>1, <3>3, <4>1, <4>2
    <3> QED BY <3>2, <3>3
  <2>4. CASE AttachFails(u)
    <3>1. turn' = [turn EXCEPT ![u] = "idle"] /\ turn[u] = "attaching" BY <2>4 DEF AttachFails, EndTurn
    <3>2. CASE u \notin Drivers BY <1>3, <2>4, <3>1, <3>2 DEF AttachFails, Turns
    <3>3. CASE u \in Drivers
      <4>1. driver' = [driver EXCEPT ![u].phase = "failed", ![u].disposed = @ \/ entry = u]
            /\ entry' = IF entry = u THEN 0 ELSE entry
        BY <2>4, <3>3 DEF AttachFails
      <4>2. turn'[u] = "idle" /\ turn' = [turn EXCEPT ![u] = turn'[u]] /\ driver' = [driver EXCEPT ![u] = driver'[u]]
            /\ driver'[u].phase = "failed" /\ driver'[u].lifetime = driver[u].lifetime
        BY <3>1, <3>3, <4>1 DEF TabTypeOK, DriverStates
      <4>3. (DriverFits(u))' BY <1>1, <3>1, <3>3, <4>2 DEF DriverFits, Acquires, Releases
      <4> QED BY <1>4, <3>3, <4>1, <4>2, <4>3
    <3> QED BY <3>2, <3>3
  <2>5. ASSUME turn[u] \in {"releasing", "detaching"}, NEW next \in {"idle", "detaching"}, turn' = [turn EXCEPT ![u] = next],
               UNCHANGED <<driver, entry>>
        PROVE  DriversFit'
    <3>1. CASE u \notin Drivers BY <1>3, <2>5, <3>1 DEF Turns
    <3>2. CASE u \in Drivers
      <4>1. turn'[u] = next /\ turn' = [turn EXCEPT ![u] = turn'[u]] /\ driver' = [driver EXCEPT ![u] = driver'[u]]
        BY <2>5, <3>2 DEF TabTypeOK
      <4>2. (DriverFits(u))' BY <1>1, <2>5, <3>2, <4>1 DEF DriverFits, Acquires, Releases
      <4> QED BY <1>4, <2>5, <3>2, <4>1, <4>2
    <3> QED BY <3>1, <3>2
  <2>6. CASE ReleaseNothing(u) BY <2>5, <2>6 DEF ReleaseNothing, HasTurn, EndTurn
  <2>7. CASE ReleaseHeld(u)
    <3>1. turn[u] = "releasing" /\ UNCHANGED <<driver, entry>>
          /\ (turn' = [turn EXCEPT ![u] = "idle"] \/ turn' = [turn EXCEPT ![u] = "detaching"])
      BY <2>7 DEF ReleaseHeld, HasTurn, EndTurn
    <3> QED BY <2>5, <3>1
  <2>8. CASE Detached(u) BY <2>5, <2>8 DEF Detached, EndTurn
  <2> QED BY <1>5, <2>1, <2>2, <2>3, <2>4, <2>6, <2>7, <2>8 DEF UserSteps
<1>6. ASSUME NEW d \in Drivers, EnablePage(d) PROVE DriversFit'
  <2>1. driver' = [driver EXCEPT ![d].phase = IF driver[d].closed THEN "failed" ELSE "ready"] /\ UNCHANGED <<turn, entry>>
        /\ driver[d].phase = "enabling"
    BY <1>6 DEF EnablePage
  <2>2. /\ driver' = [driver EXCEPT ![d] = driver'[d]] /\ driver'[d].phase \in {"failed", "ready"}
        /\ driver'[d].lifetime = driver[d].lifetime /\ driver'[d].disposed = driver[d].disposed
    BY <2>1 DEF TabTypeOK, DriverStates
  <2>3. (DriverFits(d))' BY <1>1, <2>1, <2>2 DEF DriverFits, Acquires, Releases
  <2> QED BY <1>4, <2>1, <2>2, <2>3
<1>7. ASSUME NEW d \in Drivers, driver[d].lifetime \/ driver[d].phase = "enabling",
             turn' = turn \/ (driver[d].lifetime /\ Enqueue(d, "releasing")),
             driver' = [driver EXCEPT ![d] = driver'[d]], ~driver'[d].lifetime, driver'[d].phase \in {"ready", "failed"},
             \A e \in Drivers \ {d} : entry = e => entry' = e
      PROVE  DriversFit'
  <2>1. turn[d] = "idle" BY <1>7, DriverIdle
  <2>2. turn' = turn \/ turn' = [turn EXCEPT ![d] = turn'[d]]
    BY <1>1, <1>7 DEF Enqueue, TabTypeOK
  <2>3. turn'[d] \in {"idle", "releasing"} BY <1>1, <1>7, <2>1 DEF Enqueue, TabTypeOK
  <2>4. (DriverFits(d))' BY <1>1, <1>7, <2>3 DEF DriverFits, Acquires, Releases
  <2> QED BY <1>4, <1>7, <2>2, <2>4
<1>8. ASSUME NEW d \in Drivers, EnableFails(d) PROVE DriversFit'
  <2>1. driver' = [driver EXCEPT ![d].phase = "failed", ![d].lifetime = FALSE, ![d].disposed = @ \/ entry = d]
        /\ entry' = IF entry = d THEN 0 ELSE entry
    BY <1>8 DEF EnableFails
  <2>2. driver' = [driver EXCEPT ![d] = driver'[d]] /\ ~driver'[d].lifetime /\ driver'[d].phase = "failed"
    BY <2>1 DEF TabTypeOK, DriverStates
  <2> QED BY <1>7, <1>8, <2>1, <2>2 DEF EnableFails
<1>9. ASSUME NEW d \in Drivers, ReleaseLifetime(d) PROVE DriversFit'
  <2>1. driver' = [driver EXCEPT ![d].lifetime = FALSE] /\ entry' = entry BY <1>9 DEF ReleaseLifetime
  <2>2. driver' = [driver EXCEPT ![d] = driver'[d]] /\ ~driver'[d].lifetime /\ driver'[d].phase = driver[d].phase
    BY <2>1 DEF TabTypeOK, DriverStates
  <2> QED BY <1>7, <1>9, <2>1, <2>2 DEF ReleaseLifetime
<1>10. CASE Evaluated \/ StartEvaluation
  <2>1. UNCHANGED <<driver, entry>> /\ Op \in Users /\ Op \notin Drivers
        /\ (turn' = [turn EXCEPT ![Op] = "releasing"] \/ turn' = [turn EXCEPT ![Op] = "acquiring"])
    BY <1>10, NumbersAre DEF Evaluated, StartEvaluation, Enqueue
  <2> QED BY <1>3, <2>1 DEF Turns
<1>11. ASSUME NEW u \in Tools, ToolAsks(u) \/ ToolDone(u) PROVE DriversFit'
  <2>1. UNCHANGED <<driver, entry>> /\ u \in Users /\ u \notin Drivers
        /\ (turn' = [turn EXCEPT ![u] = "releasing"] \/ turn' = [turn EXCEPT ![u] = "acquiring"])
    BY <1>11, NumbersAre DEF ToolAsks, ToolDone, Enqueue, driverVars
  <2> QED BY <1>3, <2>1 DEF Turns
<1>12. ASSUME NEW u \in Tools, ToolEnablesPage(u) PROVE DriversFit' BY <1>2, <1>12 DEF ToolEnablesPage, driverVars
<1>13. CASE MakeDriver
  <2>1. PICK d \in Drivers : /\ driver[d].phase = "none" /\ Enqueue(d, "acquiring") /\ entry = 0
                             /\ driver' = [driver EXCEPT ![d].phase = "acquiring"] /\ entry' = d
    BY <1>13 DEF MakeDriver
  <2>2. /\ driver' = [driver EXCEPT ![d] = driver'[d]] /\ driver'[d].lifetime = driver[d].lifetime
        /\ driver'[d].phase = "acquiring"
    BY <2>1 DEF TabTypeOK, DriverStates
  <2>3. turn' = [turn EXCEPT ![d] = turn'[d]] /\ turn'[d] = "acquiring" BY <1>1, <2>1 DEF Enqueue, TabTypeOK
  <2>4. (DriverFits(d))' BY <1>1, <2>1, <2>2, <2>3 DEF DriverFits, Acquires, Releases
  <2>5. \A e \in Drivers \ {d} : entry = e => entry' = e BY <2>1, NumbersAre
  <2> QED BY <1>4, <2>2, <2>3, <2>4, <2>5
<1>14. CASE ReleaseEntry
  <2>1. entry \in Drivers /\ driver' = [driver EXCEPT ![entry].disposed = TRUE] /\ UNCHANGED turn
    BY <1>14 DEF ReleaseEntry, TabTypeOK, managerVars
  <2>2. PICK d \in Drivers : d = entry BY <2>1
  <2>3. /\ driver' = [driver EXCEPT ![d] = driver'[d]] /\ driver'[d].lifetime = driver[d].lifetime
        /\ driver'[d].phase = driver[d].phase /\ driver'[d].closed = driver[d].closed /\ driver'[d].disposed
    BY <2>1, <2>2 DEF TabTypeOK, DriverStates
  <2>4. (DriverFits(d))' BY <1>1, <2>1, <2>3 DEF DriverFits, Acquires, Releases
  <2> QED BY <1>4, <2>1, <2>2, <2>3, <2>4
<1>15. CASE BrowserDetaches
  <2>1. PICK closing \in [Drivers -> BOOLEAN] :
          /\ driver' = [d \in Drivers |-> [driver[d] EXCEPT !.closed = @ \/ closing[d],
                                                            !.lifetime = @ /\ ~closing[d],
                                                            !.disposed = @ \/ (Evicted /\ d = entry)]]
          /\ \A d \in Drivers : closing[d] => driver[d].phase # "none"
    <3> DEFINE heard == table # 0 /\ tracking = table
               closes == [d \in Drivers |-> heard /\ driver[d].phase # "none" /\ ~driver[d].disposed]
    <3>1. closes \in [Drivers -> BOOLEAN] /\ \A d \in Drivers : closes[d] => driver[d].phase # "none"
      BY <1>1 DEF DriverStates
    <3>2. driver' = [d \in Drivers |-> [driver[d] EXCEPT !.closed = @ \/ closes[d],
                                                         !.lifetime = @ /\ ~closes[d],
                                                         !.disposed = @ \/ (Evicted /\ d = entry)]]
      BY <1>15 DEF BrowserDetaches
    <3> QED BY <3>1, <3>2
  <2>2. \A d \in Drivers : /\ driver'[d].phase = driver[d].phase
                           /\ driver'[d].lifetime => driver[d].lifetime
                           /\ driver'[d].closed => driver[d].closed \/ driver[d].phase # "none"
                           /\ driver[d].disposed => driver'[d].disposed
                           /\ Evicted /\ d = entry => driver'[d].disposed
    BY <1>1, <2>1 DEF DriverStates
  <2>3. entry' = (IF Evicted THEN 0 ELSE entry) /\ turn' = turn BY <1>15 DEF BrowserDetaches
  <2>4. \A d \in Drivers : (DriverFits(d))' BY <1>1, <2>2, <2>3 DEF DriverFits, Acquires, Releases
  <2> QED BY <2>3, <2>4 DEF DriversFit
<1>16. CASE Remember \/ Navigate \/ UNCHANGED tabVars
  BY <1>2, <1>16 DEF Remember, Navigate, tabVars, managerVars, driverVars
<1> QED BY <1>5, <1>6, <1>8, <1>9, <1>10, <1>11, <1>12, <1>13, <1>14, <1>15, <1>16 DEF TabNext, TabProgress

\* What a step does to the Page domain, the listeners and the drivers that were told of a detach.
LEMMA ElsewhereIs ==
  ASSUME TabTypeOK, [TabNext]_tabVars
  PROVE  /\ enabled' = enabled \/ (Looked /\ enabled' = [enabled EXCEPT ![Current] = TRUE])
         /\ tracking' = tracking \/ tracking' = 0 \/ (Looked /\ tracking' = Current)
         /\ BrowserDetaches \/ \A d \in Drivers : driver'[d].closed = driver[d].closed
<1>1. ASSUME NEW u \in Users, Granted(u) PROVE \A d \in Drivers : driver'[d].closed = driver[d].closed
  <2>1. CASE u \notin Drivers BY <1>1, <2>1 DEF Granted, Continues
  <2>2. CASE u \in Drivers
    <3>1. driver' = [driver EXCEPT ![u] = IF driver[u].closed THEN [driver[u] EXCEPT !.phase = "failed"]
                                          ELSE [driver[u] EXCEPT !.phase = "enabling", !.lifetime = TRUE]]
      BY <1>1, <2>2 DEF Granted, Continues
    <3>2. driver'[u].closed = driver[u].closed BY <2>2, <3>1 DEF TabTypeOK, DriverStates
    <3> QED BY <3>1, <3>2 DEF TabTypeOK
  <2> QED BY <2>1, <2>2
<1>2. ASSUME Enqueue(Op, "acquiring") \/ \E u \in Users, step \in {"acquiring", "releasing"} : Enqueue(u, step)
      PROVE  Looked /\ enabled' = enabled
  BY <1>2 DEF Enqueue
<1>3. ASSUME NEW u \in Users, Shallower(u) PROVE tracking' = tracking \/ tracking' = 0 BY <1>3 DEF Shallower
<1>4. ASSUME NEW u \in Users, UserSteps(u)
      PROVE  enabled' = enabled /\ (tracking' = tracking \/ tracking' = 0)
             /\ \A d \in Drivers : driver'[d].closed = driver[d].closed
  <2>1. CASE AcquireHeld(u) \/ Attached(u) BY <1>1, <2>1 DEF AcquireHeld, Attached, Granted
  <2>2. CASE AcquireFirst(u) BY <2>2 DEF AcquireFirst, sessionVars, driverVars
  <2>3. CASE AttachFails(u)
    <3>1. CASE u \notin Drivers BY <2>3, <3>1 DEF AttachFails
    <3>2. CASE u \in Drivers
      <4>1. driver' = [driver EXCEPT ![u].phase = "failed", ![u].disposed = @ \/ entry = u] BY <2>3, <3>2 DEF AttachFails
      <4>2. \A d \in Drivers : driver'[d].closed = driver[d].closed BY <3>2, <4>1 DEF TabTypeOK, DriverStates
      <4> QED BY <2>3, <4>2 DEF AttachFails
    <3> QED BY <3>1, <3>2
  <2>4. CASE ReleaseNothing(u) BY <1>3, <2>4 DEF ReleaseNothing
  <2>5. CASE ReleaseHeld(u) BY <1>3, <2>5 DEF ReleaseHeld
  <2>6. CASE Detached(u) BY <1>3, <2>6 DEF Detached
  <2> QED BY <1>4, <2>1, <2>2, <2>3, <2>4, <2>5, <2>6 DEF UserSteps
<1>5. ASSUME NEW d \in Drivers, EnablePage(d)
      PROVE  /\ Looked /\ enabled' = [enabled EXCEPT ![Current] = TRUE] /\ tracking' = tracking
             /\ \A e \in Drivers : driver'[e].closed = driver[e].closed
  <2>1. \A e \in Drivers : driver'[e].closed = driver[e].closed BY <1>5 DEF EnablePage, TabTypeOK, DriverStates
  <2> QED BY <1>5, <2>1 DEF EnablePage, EnsuresPage, sessionVars
<1>6. ASSUME NEW d \in Drivers, EnableFails(d) \/ ReleaseLifetime(d)
      PROVE  enabled' = enabled /\ tracking' = tracking /\ \A e \in Drivers : driver'[e].closed = driver[e].closed
  <2>1. CASE EnableFails(d)
    <3>1. driver' = [driver EXCEPT ![d].phase = "failed", ![d].lifetime = FALSE, ![d].disposed = @ \/ entry = d]
      BY <2>1 DEF EnableFails
    <3>2. \A e \in Drivers : driver'[e].closed = driver[e].closed BY <3>1 DEF TabTypeOK, DriverStates
    <3> QED BY <2>1, <3>2 DEF EnableFails, Enqueue, sessionVars
  <2>2. CASE ReleaseLifetime(d)
    <3>1. driver' = [driver EXCEPT ![d].lifetime = FALSE] BY <2>2 DEF ReleaseLifetime
    <3>2. \A e \in Drivers : driver'[e].closed = driver[e].closed BY <3>1 DEF TabTypeOK, DriverStates
    <3> QED BY <2>2, <3>2 DEF ReleaseLifetime, Enqueue, sessionVars
  <2> QED BY <1>6, <2>1, <2>2
<1>7. ASSUME Evaluated \/ Remember \/ Navigate \/ (\E u \in Tools : ToolAsks(u) \/ ToolDone(u)) \/ UNCHANGED tabVars
      PROVE  UNCHANGED <<enabled, tracking, driver>>
  BY <1>7 DEF Evaluated, Remember, Navigate, ToolAsks, ToolDone, tabVars, managerVars, sessionVars, driverVars, Enqueue
<1>8. CASE \E u \in Tools : ToolEnablesPage(u)
  BY <1>8 DEF ToolEnablesPage, EnsuresPage, sessionVars, driverVars
<1>9. CASE MakeDriver
  <2>1. \A e \in Drivers : driver'[e].closed = driver[e].closed BY <1>9 DEF MakeDriver, TabTypeOK, DriverStates
  <2> QED BY <1>9, <2>1 DEF MakeDriver, Install, Enqueue
<1>10. CASE StartEvaluation BY <1>10 DEF StartEvaluation, Install, Enqueue
<1>11. CASE ReleaseEntry
  <2>1. \A e \in Drivers : driver'[e].closed = driver[e].closed BY <1>11 DEF ReleaseEntry, TabTypeOK, DriverStates
  <2> QED BY <1>11, <2>1 DEF ReleaseEntry, managerVars, sessionVars
<1>12. CASE BrowserDetaches BY <1>12 DEF BrowserDetaches
<1> QED BY <1>4, <1>5, <1>6, <1>7, <1>8, <1>9, <1>10, <1>11, <1>12 DEF TabNext, TabProgress

\* A step that takes nothing from a holder and gives nobody the debugger.
Aside ==
  /\ UNCHANGED <<attached, refCount, owners>>
  /\ Looked \/ UNCHANGED <<table, records>>
  /\ \A v \in Users :
       /\ (Holds(v))' <=> Holds(v)
       /\ \A step \in {"releasing", "detaching"} : turn'[v] = step <=> turn[v] = step
       /\ Holds(v) \/ Releases(v) => record'[v] = record[v]

\* What asks, waits, fails or has nothing to do with it is aside.
LEMMA AsideIs ==
  ASSUME TabTypeOK, Quiet \/ \E u \in Users : Asks(u) \/ Waits(u) \/ Fails(u) PROVE Aside
<1>1. CASE Quiet BY <1>1 DEF Quiet, Aside, SameHolders
<1>2. ASSUME NEW u \in Users, Asks(u) PROVE Aside
  <2>1. /\ record' = [record EXCEPT ![u] = Current] /\ turn' = [turn EXCEPT ![u] = "acquiring"] /\ turn[u] = "idle"
        /\ UNCHANGED <<attached, refCount, owners>> /\ Looked /\ ~Holds(u) /\ SameHolders
    BY <1>2 DEF Asks, Enqueue
  <2>2. turn'[u] = "acquiring" /\ \A v \in Users \ {u} : turn'[v] = turn[v] /\ record'[v] = record[v]
    BY <2>1 DEF TabTypeOK
  <2>3. ~Releases(u) BY <2>1 DEF Releases
  <2> QED BY <2>1, <2>2, <2>3 DEF Aside, SameHolders
<1>3. ASSUME NEW u \in Users, Waits(u) \/ Fails(u) PROVE Aside
  <2>1. /\ UNCHANGED <<attached, refCount, owners, table, records, record>> /\ SameHolders /\ Acquires(u)
        /\ turn' = [turn EXCEPT ![u] = "attaching"] \/ turn' = [turn EXCEPT ![u] = "idle"]
    BY <1>3 DEF Waits, Fails, EndTurn
  <2>2. turn'[u] \in {"attaching", "idle"} /\ \A v \in Users \ {u} : turn'[v] = turn[v] BY <2>1 DEF TabTypeOK
  <2> QED BY <2>1, <2>2 DEF Aside, SameHolders, Acquires
<1> QED BY <1>1, <1>2, <1>3

\* How many there are.
LEMMA CountIs ==
  ASSUME NEW S \in SUBSET Users
  PROVE  /\ IsFiniteSet(S) /\ Cardinality(S) \in Nat
         /\ \A T \in SUBSET S : Cardinality(T) <= Cardinality(S)
         /\ \A u \in Users \ S : Cardinality(S \cup {u}) = Cardinality(S) + 1
         /\ \A u \in S : Cardinality(S \ {u}) = Cardinality(S) - 1
         /\ Cardinality(S) = 0 => S = {}
         /\ S = {} => Cardinality(S) = 0
<1>1. IsFiniteSet(S) BY NumbersAre, FS_Subset
<1>2. Cardinality(S) \in Nat BY <1>1, FS_CardinalityType
<1>3. \A T \in SUBSET S : Cardinality(T) <= Cardinality(S) BY <1>1, FS_Subset
<1>4. \A u \in Users \ S : Cardinality(S \cup {u}) = Cardinality(S) + 1 BY <1>1, FS_AddElement
<1>5. \A u \in S : Cardinality(S \ {u}) = Cardinality(S) - 1 BY <1>1, FS_RemoveElement
<1>6. Cardinality(S) = 0 <=> S = {} BY <1>1, FS_EmptySet
<1> QED BY <1>1, <1>2, <1>3, <1>4, <1>5, <1>6

\* What a step does to the holders of a record.
LEMMA AsideHolders ==
  ASSUME Aside PROVE \A k \in TabRecords : HoldersAt(k)' = HoldersAt(k)
<1> SUFFICES ASSUME NEW k \in TabRecords, NEW v \in Users PROVE (HoldsAt(v, k))' <=> HoldsAt(v, k)
  BY DEF HoldersAt
<1>1. (Holds(v))' <=> Holds(v) BY DEF Aside
<1>2. turn'[v] = "releasing" <=> turn[v] = "releasing" BY DEF Aside
<1>3. Holds(v) \/ turn[v] = "releasing" => record'[v] = record[v] BY DEF Aside, Releases
<1> QED BY <1>1, <1>2, <1>3 DEF HoldsAt

\* One who begins to let go is counted at the tab's record from then on.
LEMMA LetsHolders ==
  ASSUME TabTypeOK, RecordsFit, NEW u \in Users, Lets(u)
  PROVE  /\ table' \in TabRecords /\ Looked /\ UNCHANGED <<attached, refCount, owners>>
         /\ record[u] \in TabRecords /\ turn[u] \notin {"releasing", "detaching"} /\ u \in HoldersAt(record[u])
         /\ turn'[u] = "releasing" /\ record'[u] = table'
         /\ \A v \in Users \ {u} : turn'[v] = turn[v] /\ record'[v] = record[v]
         /\ HoldersAt(table)' = HoldersAt(Current) \cup {u}
         /\ \A k \in TabRecords \ {table'} : HoldersAt(k)' = HoldersAt(k) \ {u}
<1>1. /\ record' = [record EXCEPT ![u] = Current] /\ turn' = [turn EXCEPT ![u] = "releasing"] /\ Looked
      /\ UNCHANGED <<attached, refCount, owners>> /\ turn[u] \in {"idle", "evaluating", "using"}
      /\ Holds(u) /\ ~(Holds(u))' /\ \A v \in Users \ {u} : (Holds(v))' <=> Holds(v)
  BY DEF Lets, Enqueue
<1>2. table' = Current /\ table' \in TabRecords BY <1>1, LookedAt
<1>3. /\ turn'[u] = "releasing" /\ record'[u] = table'
      /\ \A v \in Users \ {u} : turn'[v] = turn[v] /\ record'[v] = record[v]
  BY <1>1, <1>2 DEF TabTypeOK
<1>4. record[u] \in TabRecords BY <1>1 DEF RecordsFit
<1>5. u \in HoldersAt(record[u]) BY <1>1 DEF HoldersAt, HoldsAt
<1>6. \A k \in TabRecords, v \in Users \ {u} : (HoldsAt(v, k))' <=> HoldsAt(v, k) BY <1>1, <1>3 DEF HoldsAt
<1>7. \A k \in TabRecords : (HoldsAt(u, k))' <=> k = table' BY <1>3 DEF HoldsAt
<1>8. \A k \in TabRecords : HoldersAt(k)' = IF k = table' THEN HoldersAt(k) \cup {u} ELSE HoldersAt(k) \ {u}
  BY <1>6, <1>7 DEF HoldersAt
<1>9. HoldersAt(table)' = HoldersAt(Current) \cup {u}
  <2>1. PICK t \in TabRecords : t = table' BY <1>2
  <2>2. HoldersAt(t)' = HoldersAt(t) \cup {u} BY <1>8, <2>1
  <2>3. HoldersAt(table)' = HoldersAt(t)' BY <2>1 DEF HoldersAt, HoldsAt
  <2>4. HoldersAt(Current) = HoldersAt(t) BY <1>2, <2>1
  <2> QED BY <2>2, <2>3, <2>4
<1> QED BY <1>1, <1>2, <1>3, <1>4, <1>5, <1>8, <1>9

\* One who is granted the debugger is counted at its record, and nobody else is.
LEMMA GrantsHolders ==
  ASSUME TabTypeOK, QueuesFit, NEW u \in Users, Grants(u)
  PROVE  /\ record[u] \in TabRecords /\ u \notin HoldersAt(record[u])
         /\ (Holds(u))' => HoldersAt(record[u])' = HoldersAt(record[u]) \cup {u}
         /\ HoldersAt(record[u])' \subseteq HoldersAt(record[u]) \cup {u}
         /\ \A k \in TabRecords : HoldersAt(k) \subseteq HoldersAt(k)'
         /\ \A k \in TabRecords \ {record[u]} : HoldersAt(k)' = HoldersAt(k)
         /\ turn'[u] \in {"idle", "evaluating", "using"} /\ \A v \in Users \ {u} : turn'[v] = turn[v]
<1>1. /\ Acquires(u) /\ ~Holds(u) /\ \A v \in Users \ {u} : (Holds(v))' <=> Holds(v)
      /\ record' = record
  BY DEF Grants
<1>2. PICK next \in {"idle", "evaluating", "using"} : turn' = [turn EXCEPT ![u] = next] BY DEF Grants
<1>3. turn'[u] = next /\ \A v \in Users \ {u} : turn'[v] = turn[v] BY <1>2 DEF TabTypeOK
<1>4. record[u] \in TabRecords BY <1>1 DEF QueuesFit
<1>5. \A k \in TabRecords, v \in Users \ {u} : (HoldsAt(v, k))' <=> HoldsAt(v, k) BY <1>1, <1>3 DEF HoldsAt
<1>6. \A k \in TabRecords : ~HoldsAt(u, k) /\ ((HoldsAt(u, k))' <=> k = record[u] /\ (Holds(u))')
  BY <1>1, <1>3 DEF HoldsAt, Acquires
<1>7. \A k \in TabRecords : HoldersAt(k) \subseteq HoldersAt(k)' BY <1>5, <1>6 DEF HoldersAt
<1>8. \A k \in TabRecords \ {record[u]} : HoldersAt(k)' = HoldersAt(k) BY <1>5, <1>6 DEF HoldersAt
<1>9. PICK r \in TabRecords : r = record[u] BY <1>4
<1>10. (Holds(u))' => HoldersAt(r)' = HoldersAt(r) \cup {u} BY <1>5, <1>6, <1>9 DEF HoldersAt
<1>11. HoldersAt(r)' \subseteq HoldersAt(r) \cup {u} /\ u \notin HoldersAt(r) BY <1>5, <1>6, <1>9 DEF HoldersAt
<1>12. HoldersAt(record[u]) = HoldersAt(r) /\ HoldersAt(record[u])' = HoldersAt(r)'
  BY <1>1, <1>9 DEF HoldersAt, HoldsAt
<1> QED BY <1>3, <1>4, <1>7, <1>8, <1>10, <1>11, <1>12

\* One whose release has its turn is counted no more.
LEMMA ReleaseHolders ==
  ASSUME TabTypeOK, QueuesFit, DriversFit, NEW u \in Users, ReleaseHeld(u) \/ ReleaseNothing(u)
  PROVE  /\ record[u] \in TabRecords /\ u \in HoldersAt(record[u]) /\ turn[u] = "releasing"
         /\ \A k \in TabRecords : HoldersAt(k)' = HoldersAt(k) \ {u}
         /\ \A k \in TabRecords \ {record[u]} : u \notin HoldersAt(k) /\ HoldersAt(k)' = HoldersAt(k)
         /\ \A v \in Users \ {u} : turn'[v] = turn[v] /\ ((Holds(v))' <=> Holds(v))
         /\ turn'[u] \in {"idle", "detaching"} /\ ~(Holds(u))' /\ UNCHANGED <<attached, table, records, record, driver>>
<1>1. turn[u] = "releasing" /\ UNCHANGED <<attached, table, records, record, driver>>
      /\ (turn' = [turn EXCEPT ![u] = "idle"] \/ turn' = [turn EXCEPT ![u] = "detaching"])
  BY DEF ReleaseHeld, ReleaseNothing, HasTurn, EndTurn, chromeVars
<1>2. turn'[u] \in {"idle", "detaching"} /\ \A v \in Users \ {u} : turn'[v] = turn[v] BY <1>1 DEF TabTypeOK
<1>3. record[u] \in TabRecords BY <1>1 DEF QueuesFit, Releases
<1>4. ~(Holds(u))'
  <2>1. u \in Drivers => ~driver[u].lifetime BY <1>1 DEF DriversFit, DriverFits, Releases
  <2> QED BY <1>1, <1>2, <2>1 DEF Holds
<1>5. \A v \in Users \ {u} : (Holds(v))' <=> Holds(v) BY <1>1, <1>2 DEF Holds
<1>6. \A k \in TabRecords, v \in Users \ {u} : (HoldsAt(v, k))' <=> HoldsAt(v, k) BY <1>1, <1>2, <1>5 DEF HoldsAt
<1>7. \A k \in TabRecords : ~(HoldsAt(u, k))' /\ (HoldsAt(u, k) => k = record[u]) BY <1>2, <1>4 DEF HoldsAt
<1>8. u \in HoldersAt(record[u]) BY <1>1 DEF HoldersAt, HoldsAt
<1>9. \A k \in TabRecords : HoldersAt(k)' = HoldersAt(k) \ {u} BY <1>6, <1>7 DEF HoldersAt
<1>10. \A k \in TabRecords \ {record[u]} : u \notin HoldersAt(k) /\ HoldersAt(k)' = HoldersAt(k)
  BY <1>6, <1>7 DEF HoldersAt
<1> QED BY <1>1, <1>2, <1>3, <1>4, <1>5, <1>8, <1>9, <1>10

\* Who begins to acquire does so at the tab's record, and is not closed.
LEMMA AcquirersAre ==
  ASSUME TabTypeOK, QueuesFit, DriversFit, [TabNext]_tabVars, NEW v \in Users, Acquires(v)'
  PROVE  \/ Acquires(v) /\ record'[v] = record[v]
         \/ Looked /\ record'[v] = table' /\ (v \in Drivers => ~driver[v].closed)
<1>1. CASE Quiet \/ BrowserDetaches BY <1>1 DEF Quiet, BrowserDetaches, Acquires
<1>2. ASSUME NEW u \in Users, Asks(u)
      PROVE  (Acquires(v) /\ record'[v] = record[v])
             \/ (Looked /\ record'[v] = table' /\ (v \in Drivers => ~driver[v].closed))
  <2>1. /\ record' = [record EXCEPT ![u] = Current] /\ turn' = [turn EXCEPT ![u] = "acquiring"] /\ Looked
        /\ u \in Drivers => ~driver[u].closed
    BY <1>2 DEF Asks, Enqueue
  <2>2. record'[u] = Current /\ \A w \in Users \ {u} : turn'[w] = turn[w] /\ record'[w] = record[w]
    BY <2>1 DEF TabTypeOK
  <2>3. table' = Current BY <2>1 DEF Looked
  <2>4. CASE v = u BY <2>1, <2>2, <2>3, <2>4
  <2>5. CASE v # u BY <2>2, <2>5 DEF Acquires
  <2> QED BY <2>4, <2>5
<1>3. ASSUME NEW u \in Users, Lets(u) PROVE Acquires(v) /\ record'[v] = record[v]
  <2>1. record' = [record EXCEPT ![u] = Current] /\ turn' = [turn EXCEPT ![u] = "releasing"] BY <1>3 DEF Lets, Enqueue
  <2>2. turn'[u] = "releasing" /\ \A w \in Users \ {u} : turn'[w] = turn[w] /\ record'[w] = record[w]
    BY <2>1 DEF TabTypeOK
  <2> QED BY <2>2 DEF Acquires
<1>4. ASSUME NEW u \in Users, Grants(u) \/ Fails(u) \/ ReleaseNothing(u) \/ ReleaseHeld(u) \/ Detached(u)
      PROVE  Acquires(v) /\ record'[v] = record[v]
  <2>1. PICK next \in {"idle", "evaluating", "using", "detaching"} : turn' = [turn EXCEPT ![u] = next]
    BY <1>4 DEF Grants, Fails, ReleaseNothing, ReleaseHeld, Detached, EndTurn
  <2>2. record' = record BY <1>4 DEF Grants, Fails, ReleaseNothing, ReleaseHeld, Detached
  <2>3. turn'[u] = next /\ \A w \in Users \ {u} : turn'[w] = turn[w] BY <2>1 DEF TabTypeOK
  <2> QED BY <2>2, <2>3 DEF Acquires
<1>5. ASSUME NEW u \in Users, Waits(u) PROVE Acquires(v) /\ record'[v] = record[v]
  <2>1. turn' = [turn EXCEPT ![u] = "attaching"] /\ record' = record /\ Acquires(u) BY <1>5 DEF Waits
  <2>2. \A w \in Users \ {u} : turn'[w] = turn[w] BY <2>1 DEF TabTypeOK
  <2> QED BY <2>1, <2>2 DEF Acquires
<1> QED BY <1>1, <1>2, <1>3, <1>4, <1>5, StepKinds

\* Who holds does so since it acquired, at the same record.
LEMMA HoldsSince ==
  ASSUME TabTypeOK, QueuesFit, DriversFit, [TabNext]_tabVars, NEW v \in Users, (Holds(v))'
  PROVE  record'[v] = record[v] /\ (Holds(v) \/ (Grants(v) /\ record[v] \in TabRecords))
<1>1. CASE Quiet BY <1>1 DEF Quiet, SameHolders
<1>2. CASE BrowserDetaches
  <2>1. \A d \in Drivers : driver'[d].lifetime => driver[d].lifetime
    <3>1. PICK closing \in [Drivers -> BOOLEAN] :
            driver' = [d \in Drivers |-> [driver[d] EXCEPT !.closed = @ \/ closing[d],
                                                            !.lifetime = @ /\ ~closing[d],
                                                            !.disposed = @ \/ (Evicted /\ d = entry)]]
      <4> DEFINE heard == table # 0 /\ tracking = table
                 closes == [d \in Drivers |-> heard /\ driver[d].phase # "none" /\ ~driver[d].disposed]
      <4>1. closes \in [Drivers -> BOOLEAN] BY DEF TabTypeOK, DriverStates
      <4>2. driver' = [d \in Drivers |-> [driver[d] EXCEPT !.closed = @ \/ closes[d],
                                                           !.lifetime = @ /\ ~closes[d],
                                                           !.disposed = @ \/ (Evicted /\ d = entry)]]
        BY <1>2 DEF BrowserDetaches
      <4> QED BY <4>1, <4>2
    <3> QED BY <3>1 DEF TabTypeOK, DriverStates
  <2> QED BY <1>2, <2>1 DEF BrowserDetaches, Holds
<1>3. ASSUME NEW u \in Users, Asks(u) PROVE record'[v] = record[v] /\ Holds(v)
  <2>1. record' = [record EXCEPT ![u] = Current] /\ SameHolders /\ ~Holds(u) BY <1>3 DEF Asks, Enqueue
  <2>2. Holds(v) /\ v # u BY <2>1 DEF SameHolders
  <2> QED BY <2>1, <2>2 DEF TabTypeOK
<1>4. ASSUME NEW u \in Users, Lets(u) PROVE record'[v] = record[v] /\ Holds(v)
  <2>1. /\ record' = [record EXCEPT ![u] = Current] /\ ~(Holds(u))'
        /\ \A w \in Users \ {u} : (Holds(w))' <=> Holds(w)
    BY <1>4 DEF Lets, Enqueue
  <2>2. Holds(v) /\ v # u BY <2>1
  <2> QED BY <2>1, <2>2 DEF TabTypeOK
<1>5. ASSUME NEW u \in Users, Grants(u)
      PROVE  record'[v] = record[v] /\ (Holds(v) \/ (Grants(v) /\ record[v] \in TabRecords))
  <2>1. record' = record /\ Acquires(u) /\ \A w \in Users \ {u} : (Holds(w))' <=> Holds(w) BY <1>5 DEF Grants
  <2>2. record[u] \in TabRecords BY <2>1 DEF QueuesFit
  <2>3. CASE v = u BY <1>5, <2>1, <2>2, <2>3
  <2>4. CASE v # u BY <2>1, <2>4
  <2> QED BY <2>3, <2>4
<1>6. ASSUME NEW u \in Users, Waits(u) \/ Fails(u) PROVE record'[v] = record[v] /\ Holds(v)
  BY <1>6 DEF Waits, Fails, SameHolders
<1>7. ASSUME NEW u \in Users, ReleaseNothing(u) \/ ReleaseHeld(u) PROVE record'[v] = record[v] /\ Holds(v)
  BY <1>7, ReleaseHolders
<1>8. ASSUME NEW u \in Users, Detached(u) PROVE record'[v] = record[v] /\ Holds(v)
  <2>1. record' = record /\ driver' = driver /\ turn' = [turn EXCEPT ![u] = "idle"] BY <1>8 DEF Detached, EndTurn
  <2>2. turn'[u] = "idle" /\ \A w \in Users \ {u} : turn'[w] = turn[w] BY <2>1 DEF TabTypeOK
  <2> QED BY <2>1, <2>2 DEF Holds
<1> QED BY <1>1, <1>2, <1>3, <1>4, <1>5, <1>6, <1>7, <1>8, StepKinds

\* What a step counts, and at which record.
LEMMA CountsAre ==
  ASSUME TabTypeOK, QueuesFit, DriversFit, [TabNext]_tabVars
  PROVE  /\ Looked \/ UNCHANGED <<table, records>> \/ (table' = 0 /\ records' = records)
         /\ \/ UNCHANGED <<refCount, owners>>
            \/ \E u \in Users : Grants(u) \/ ReleaseHeld(u)
<1>1. CASE Quiet BY <1>1 DEF Quiet
<1>2. CASE BrowserDetaches BY <1>2 DEF BrowserDetaches
<1>3. CASE \E u \in Users : Asks(u) \/ Lets(u) BY <1>3 DEF Asks, Lets, Enqueue
<1>4. CASE \E u \in Users : Grants(u) \/ Waits(u) \/ Fails(u) BY <1>4 DEF Grants, Waits, Fails
<1>5. CASE \E u \in Users : ReleaseNothing(u) \/ ReleaseHeld(u) \/ Detached(u)
  BY <1>5 DEF ReleaseNothing, ReleaseHeld, Detached
<1> QED BY <1>1, <1>2, <1>3, <1>4, <1>5, StepKinds

\* Every step keeps the records.
LEMMA RecordsKept ==
  ASSUME TabTypeOK, QueuesFit, DriversFit, RecordsFit, [TabNext]_tabVars PROVE RecordsFit'
<1>1. records' \in Nat /\ records <= records' /\ (Looked => table' = Current /\ table' <= records')
  BY CountsAre, LookedAt DEF TabTypeOK
<1>2. ASSUME NEW k \in TabRecords, k > records' PROVE refCount'[k] = 0 /\ owners'[k] = {} /\ ~enabled'[k]
  <2>1. k > records /\ k \in Nat BY <1>1, <1>2, NumbersAre DEF TabTypeOK
  <2>2. refCount[k] = 0 /\ owners[k] = {} /\ ~enabled[k] BY <2>1 DEF RecordsFit
  <2>3. ~enabled'[k]
    <3>1. CASE enabled' = enabled BY <2>2, <3>1
    <3>2. CASE Looked /\ enabled' = [enabled EXCEPT ![Current] = TRUE]
      <4>1. table' \in Nat /\ table' = Current /\ table' <= records' BY <1>1, <3>2, LookedAt, NumbersAre
      <4>2. k # Current BY <1>1, <1>2, <2>1, <4>1
      <4> QED BY <2>2, <3>2, <4>2 DEF TabTypeOK
    <3> QED BY <3>1, <3>2, ElsewhereIs
  <2>4. CASE UNCHANGED <<refCount, owners>> BY <2>2, <2>3, <2>4
  <2>5. ASSUME NEW u \in Users, Grants(u) PROVE refCount'[k] = 0 /\ owners'[k] = {}
    <3>1. Acquires(u) BY <2>5 DEF Grants
    <3>2. record[u] <= records /\ record[u] \in TabRecords BY <3>1 DEF RecordsFit, QueuesFit
    <3>3. record[u] # k BY <2>1, <3>2, NumbersAre DEF TabTypeOK
    <3> QED BY <2>2, <2>5, <3>2, <3>3 DEF Grants, TabTypeOK
  <2>6. ASSUME NEW u \in Users, ReleaseHeld(u) PROVE refCount'[k] = 0 /\ owners'[k] = {}
    <3>1. record[u] \in TabRecords BY <2>6, ReleaseHolders
    <3> QED BY <2>2, <2>6, <3>1 DEF ReleaseHeld, TabTypeOK
  <2> QED BY <2>3, <2>4, <2>5, <2>6, CountsAre
<1>3. ASSUME NEW v \in Users, (Holds(v))' PROVE record'[v] \in TabRecords
  BY <1>3, HoldsSince DEF RecordsFit
<1>4. ASSUME NEW v \in Users, Acquires(v)'
      PROVE  record'[v] <= records' /\ (v \in Drivers /\ driver'[v].closed => record'[v] # table')
  <2>1. CASE BrowserDetaches
    <3>1. Acquires(v) /\ record'[v] = record[v] /\ records' = records /\ table' = 0
      BY <1>4, <2>1 DEF BrowserDetaches, Acquires
    <3>2. record[v] \in TabRecords BY <3>1 DEF QueuesFit
    <3> QED BY <3>1, <3>2, NumbersAre DEF RecordsFit
  <2>2. CASE \A d \in Drivers : driver'[d].closed = driver[d].closed
    <3>1. CASE Looked /\ record'[v] = table' /\ (v \in Drivers => ~driver[v].closed) BY <1>1, <2>2, <3>1
    <3>2. CASE Acquires(v) /\ record'[v] = record[v]
      <4>1. record[v] <= records /\ (v \in Drivers /\ driver[v].closed => record[v] # table) BY <3>2 DEF RecordsFit
      <4>2. record[v] \in TabRecords /\ record[v] \in Nat BY <3>2, NumbersAre DEF QueuesFit
      <4>3. table' = table \/ table' = 0 \/ table' = records + 1 BY CountsAre, LookedAt
      <4> QED BY <1>1, <2>2, <3>2, <4>1, <4>2, <4>3, NumbersAre DEF TabTypeOK
    <3> QED BY <1>4, <3>1, <3>2, AcquirersAre
  <2> QED BY <2>1, <2>2, ElsewhereIs
<1>5. tracking' <= records'
  <2>1. tracking <= records /\ tracking \in Nat /\ records \in Nat BY DEF RecordsFit, TabTypeOK
  <2> QED BY <1>1, <2>1, ElsewhereIs
<1> QED BY <1>2, <1>3, <1>4, <1>5 DEF RecordsFit

\* Every step keeps the count of the tab's record, and an attached debugger counted.
LEMMA CountedKept ==
  ASSUME TabTypeOK, TabTypeOK', QueuesFit, DriversFit, RecordsFit, CountedFits, [TabNext]_tabVars PROVE CountedFits'
<1>1. \A k \in TabRecords : HoldersAt(k) \in SUBSET Users /\ HoldersAt(k)' \in SUBSET Users BY DEF HoldersAt
<1>2. ASSUME UNCHANGED <<attached, refCount>>, Looked \/ UNCHANGED table,
             \A v \in Users : turn[v] = "detaching" => turn'[v] = "detaching",
             \A k \in TabRecords : k = table /\ table' = table => HoldersAt(k) \subseteq HoldersAt(k)'
      PROVE  CountedFits'
  <2>1. ASSUME table' # 0 PROVE refCount'[table'] <= Cardinality(HoldersAt(table)')
    <3>1. PICK t \in TabRecords : t = table' BY <2>1 DEF TabTypeOK
    <3>2. HoldersAt(table)' = HoldersAt(t)' BY <3>1 DEF HoldersAt, HoldsAt
    <3>3. Cardinality(HoldersAt(t)') \in Nat BY <1>1, CountIs
    <3>4. CASE table = 0
      <4>1. table' > records /\ refCount[t] = 0
        <5>1. Looked BY <1>2, <2>1, <3>4
        <5>2. t = records + 1 /\ records \in Nat BY <3>1, <3>4, <5>1, LookedAt DEF TabTypeOK
        <5>3. t > records BY <5>2
        <5> QED BY <3>1, <5>3 DEF RecordsFit
      <4> QED BY <1>2, <3>1, <3>2, <3>3, <4>1
    <3>5. CASE table # 0
      <4>1. t = table BY <1>2, <3>1, <3>5, LookedAt
      <4>2. Cardinality(HoldersAt(t)) <= Cardinality(HoldersAt(t)') /\ Cardinality(HoldersAt(t)) \in Nat
        BY <1>1, <1>2, <3>1, <4>1, CountIs
      <4>3. refCount[t] <= Cardinality(HoldersAt(t)) /\ refCount[t] \in Nat BY <3>5, <4>1 DEF CountedFits, TabTypeOK
      <4> QED BY <1>2, <3>1, <3>2, <3>3, <4>2, <4>3
    <3> QED BY <3>4, <3>5
  <2> QED BY <1>2, <2>1 DEF CountedFits
<1>3. CASE Quiet \/ \E u \in Users : Asks(u) \/ Waits(u) \/ Fails(u)
  <2>1. Aside BY <1>3, AsideIs
  <2>2. \A k \in TabRecords : HoldersAt(k)' = HoldersAt(k) BY <2>1, AsideHolders
  <2> QED BY <1>2, <2>1, <2>2 DEF Aside
<1>4. ASSUME NEW u \in Users, Lets(u) PROVE CountedFits'
  <2>1. /\ Looked /\ UNCHANGED <<attached, refCount, owners>> /\ table' \in TabRecords
        /\ turn[u] # "detaching" /\ \A v \in Users \ {u} : turn'[v] = turn[v]
        /\ HoldersAt(table)' = HoldersAt(Current) \cup {u}
    BY <1>4, LetsHolders
  <2>2. ASSUME NEW k \in TabRecords, k = table, table' = table PROVE HoldersAt(k) \subseteq HoldersAt(k)'
    <3>1. Current = k /\ HoldersAt(table)' = HoldersAt(k)'
      BY <2>1, <2>2 DEF Looked, HoldersAt, HoldsAt
    <3> QED BY <2>1, <3>1
  <2> QED BY <1>2, <2>1, <2>2
<1>5. ASSUME NEW u \in Users, Grants(u) PROVE CountedFits'
  <2>1. PICK r \in TabRecords : r = record[u] BY <1>5, GrantsHolders
  <2>2. /\ u \notin HoldersAt(r)
        /\ (Holds(u))' => HoldersAt(r)' = HoldersAt(r) \cup {u}
        /\ \A k \in TabRecords : HoldersAt(k) \subseteq HoldersAt(k)'
    <3>1. record' = record BY <1>5 DEF Grants
    <3>2. HoldersAt(record[u]) = HoldersAt(r) /\ HoldersAt(record[u])' = HoldersAt(r)'
      BY <2>1, <3>1 DEF HoldersAt, HoldsAt
    <3> QED BY <1>5, <3>2, GrantsHolders
  <2>3. /\ refCount' = [refCount EXCEPT ![r] = refCount[r] + 1] /\ table' = table
        /\ Acquires(u) /\ ((Holds(u))' \/ (u \in Drivers /\ driver[u].closed))
    BY <1>5, <2>1 DEF Grants, TabTypeOK
  <2>4. refCount'[r] > 0 /\ \A k \in TabRecords \ {r} : refCount'[k] = refCount[k] BY <2>3 DEF TabTypeOK
  <2>5. ASSUME table' # 0 PROVE refCount'[table'] <= Cardinality(HoldersAt(table)')
    <3>1. PICK t \in TabRecords : t = table BY <2>3, <2>5 DEF TabTypeOK
    <3>2. HoldersAt(table)' = HoldersAt(t)' BY <2>3, <3>1 DEF HoldersAt, HoldsAt
    <3>3. refCount[t] <= Cardinality(HoldersAt(t)) /\ refCount[t] \in Nat
      BY <2>3, <2>5, <3>1 DEF CountedFits, TabTypeOK
    <3>4. /\ Cardinality(HoldersAt(t)) <= Cardinality(HoldersAt(t)')
          /\ Cardinality(HoldersAt(t)) \in Nat /\ Cardinality(HoldersAt(t)') \in Nat
      BY <1>1, <2>2, CountIs
    <3>5. CASE t # r BY <2>3, <2>4, <3>1, <3>2, <3>3, <3>4, <3>5
    <3>6. CASE t = r
      <4>1. (Holds(u))' BY <2>1, <2>3, <3>1, <3>6 DEF RecordsFit
      <4>2. Cardinality(HoldersAt(r)') = Cardinality(HoldersAt(r)) + 1 BY <1>1, <2>2, <4>1, CountIs
      <4>3. refCount'[r] = refCount[r] + 1 BY <2>3 DEF TabTypeOK
      <4> QED BY <2>3, <3>1, <3>2, <3>3, <3>4, <3>6, <4>2, <4>3
    <3> QED BY <3>5, <3>6
  <2> QED BY <2>4, <2>5 DEF CountedFits
<1>6. ASSUME NEW u \in Users, ReleaseNothing(u) PROVE CountedFits'
  <2>1. /\ refCount[record[u]] = 0 /\ UNCHANGED <<attached, refCount, table>> /\ record[u] \in TabRecords
        /\ turn[u] = "releasing" /\ \A v \in Users \ {u} : turn'[v] = turn[v]
        /\ \A k \in TabRecords : HoldersAt(k)' = HoldersAt(k) \ {u}
        /\ \A k \in TabRecords \ {record[u]} : u \notin HoldersAt(k)
    BY <1>6, ReleaseHolders DEF ReleaseNothing, chromeVars
  <2>2. CASE record[u] # table
    <3>1. \A k \in TabRecords : k = table => HoldersAt(k) \subseteq HoldersAt(k)' BY <2>1, <2>2
    <3> QED BY <1>2, <2>1, <3>1
  <2>3. CASE record[u] = table
    <3>1. PICK t \in TabRecords : t = table BY <2>1, <2>3
    <3>2. HoldersAt(table)' = HoldersAt(t)' BY <2>1, <3>1 DEF HoldersAt, HoldsAt
    <3>3. Cardinality(HoldersAt(t)') \in Nat BY <1>1, CountIs
    <3>4. refCount'[table'] <= Cardinality(HoldersAt(table)') BY <2>1, <2>3, <3>2, <3>3
    <3> QED BY <2>1, <3>4 DEF CountedFits
  <2> QED BY <2>2, <2>3
<1>7. ASSUME NEW u \in Users, ReleaseHeld(u) PROVE CountedFits'
  <2>1. PICK r \in TabRecords : r = record[u] BY <1>7, ReleaseHolders
  <2>2. /\ UNCHANGED <<attached, table>> /\ turn[u] = "releasing" /\ \A v \in Users \ {u} : turn'[v] = turn[v]
        /\ \A k \in TabRecords : HoldersAt(k)' = HoldersAt(k) \ {u}
        /\ \A k \in TabRecords \ {r} : HoldersAt(k)' = HoldersAt(k)
        /\ u \in HoldersAt(r)
    BY <1>7, <2>1, ReleaseHolders
  <2>3. refCount' = [refCount EXCEPT ![r] = IF refCount[r] = 0 THEN 0 ELSE refCount[r] - 1]
    BY <1>7, <2>1 DEF ReleaseHeld, TabTypeOK
  <2>4. /\ refCount'[r] = IF refCount[r] = 0 THEN 0 ELSE refCount[r] - 1
        /\ refCount[r] \in Nat /\ \A k \in TabRecords \ {r} : refCount'[k] = refCount[k]
    BY <2>3 DEF TabTypeOK
  <2>5. refCount[r] > 1 \/ turn'[u] = "detaching"
    <3>1. ~(refCount[r] > 1) => turn' = [turn EXCEPT ![u] = "detaching"] BY <1>7, <2>1 DEF ReleaseHeld
    <3> QED BY <3>1 DEF TabTypeOK
  <2>6. ASSUME table' # 0 PROVE refCount'[table'] <= Cardinality(HoldersAt(table)')
    <3>1. PICK t \in TabRecords : t = table BY <2>2, <2>6 DEF TabTypeOK
    <3>2. HoldersAt(table)' = HoldersAt(t)' BY <2>2, <3>1 DEF HoldersAt, HoldsAt
    <3>3. refCount[t] <= Cardinality(HoldersAt(t)) /\ refCount[t] \in Nat
      BY <2>2, <2>6, <3>1 DEF CountedFits, TabTypeOK
    <3>4. Cardinality(HoldersAt(t)) \in Nat /\ Cardinality(HoldersAt(t)') \in Nat BY <1>1, CountIs
    <3>5. CASE t # r
      <4>1. HoldersAt(t)' = HoldersAt(t) BY <2>2, <3>5
      <4> QED BY <2>2, <2>4, <3>1, <3>2, <3>3, <3>5, <4>1
    <3>6. CASE t = r
      <4>1. Cardinality(HoldersAt(r)') = Cardinality(HoldersAt(r)) - 1 BY <1>1, <2>2, CountIs
      <4> QED BY <2>2, <2>4, <3>1, <3>2, <3>3, <3>4, <3>6, <4>1
    <3> QED BY <3>5, <3>6
  <2>7. attached' => (\E k \in TabRecords : refCount'[k] > 0) \/ \E v \in Users : turn'[v] = "detaching"
    <3>1. CASE turn'[u] = "detaching" BY <3>1
    <3>2. CASE refCount[r] > 1
      <4>1. refCount'[r] > 0 BY <2>4, <3>2
      <4> QED BY <4>1
    <3> QED BY <2>5, <3>1, <3>2
  <2> QED BY <2>6, <2>7 DEF CountedFits
<1>8. CASE BrowserDetaches \/ \E u \in Users : Detached(u)
  BY <1>8 DEF BrowserDetaches, Detached, CountedFits
<1> QED BY <1>3, <1>4, <1>5, <1>6, <1>7, <1>8, StepKinds

\* The manager starts without a record, a holder or a driver.
LEMMA TabStarts == TabInit => TabInv
<1> SUFFICES ASSUME TabInit PROVE TabInv OBVIOUS
<1>1. TabTypeOK
  <2>1. [phase |-> "none", lifetime |-> FALSE, closed |-> FALSE, disposed |-> FALSE] \in DriverStates
    BY DEF DriverStates, Phases
  <2>2. driver \in [Drivers -> DriverStates] BY <2>1 DEF TabInit
  <2>3. serial \in [TabRecords -> Seq(Users)] BY DEF TabInit
  <2>4. turn \in [Users -> Turns] BY DEF TabInit, Turns
  <2>5. eval \in RefStates /\ ref \in RefStates BY DEF TabInit, NoRef, RefStates
  <2>6. refCount \in [TabRecords -> Nat] /\ owners \in [TabRecords -> SUBSET Nat] /\ enabled \in [TabRecords -> BOOLEAN]
    BY DEF TabInit
  <2>7. tabSpent \in [evaluations : Nat, detaches : Nat, uses : Nat] BY DEF TabInit
  <2>8. record \in [Users -> {0} \cup TabRecords] BY DEF TabInit
  <2>9. /\ attached \in BOOLEAN /\ pageEnabled \in BOOLEAN /\ document \in Nat /\ table = 0 /\ records = 0
        /\ depth \in Nat /\ tracking \in Nat /\ generation \in Nat /\ entry = 0
    BY DEF TabInit
  <2> QED BY <2>2, <2>3, <2>4, <2>5, <2>6, <2>7, <2>8, <2>9 DEF TabTypeOK
<1>2. \A u \in Users : turn[u] = "idle" BY DEF TabInit
<1>3. \A d \in Drivers : driver[d].phase = "none" /\ ~driver[d].lifetime /\ ~driver[d].closed BY DEF TabInit
<1>4. \A u \in Users : ~Holds(u) /\ ~Acquires(u) /\ ~Releases(u) BY <1>2, <1>3 DEF Holds, Acquires, Releases
<1>5. QueuesFit /\ AllOnList
  <2>1. \A k \in TabRecords : serial[k] = <<>> BY DEF TabInit
  <2>2. \A k \in TabRecords : \A i \in 1..Len(serial[k]) : FALSE BY <2>1
  <2> QED BY <1>2, <1>4, <2>2 DEF QueuesFit, AllOnList
<1>6. RecordsFit
  <2>1. \A k \in TabRecords : refCount[k] = 0 /\ owners[k] = {} /\ ~enabled[k] BY DEF TabInit
  <2>2. tracking <= records BY DEF TabInit
  <2> QED BY <1>4, <2>1, <2>2 DEF RecordsFit
<1>7. DriversFit
  <2>1. \A d \in Drivers : DriverFits(d)
    <3> SUFFICES ASSUME NEW d \in Drivers PROVE DriverFits(d) OBVIOUS
    <3>1. d \in Users BY NumbersAre
    <3> QED BY <1>2, <1>3, <1>4, <3>1 DEF DriverFits
  <2> QED BY <1>2, <2>1, NumbersAre DEF DriversFit
<1>8. CountedFits BY DEF TabInit, CountedFits
<1> QED BY <1>1, <1>5, <1>6, <1>7, <1>8 DEF TabInv

\* The invariant of the manager, whoever overlaps and whoever detaches.
LEMMA TabInvariant == TabSpec => []TabInv
<1>1. TabInit => TabInv BY TabStarts
<1>2. TabInv /\ [TabNext]_tabVars => TabInv'
  BY TypesKept, QueuesKept, DriversKept, RecordsKept, CountedKept DEF TabInv
<1> QED BY <1>1, <1>2, PTL DEF TabSpec

\* While the registry has no driver, a debugger that is attached, and not for a holder at a record
\* that was deleted, has somebody who is about to let it go: a driver that was disposed and still has
\* its lifetime, or a user at its turn; and whoever waits for its turn does so behind one who has
\* it (runSerialized, dispose, release, resolve), though drivers overlap, tools use the debugger
\* and the browser detaches. That is what LetsGo builds on.
THEOREM LettingGoGoesOn == TabSpec => []LettingGoIsUnderWay
<1>1. TabSpec => []TabInv BY TabInvariant
<1>2. TabInv => LettingGoIsUnderWay
  <2> SUFFICES ASSUME TabInv PROVE LettingGoIsUnderWay OBVIOUS
  <2>1. TabTypeOK /\ QueuesFit /\ AllOnList /\ DriversFit /\ CountedFits BY DEF TabInv
  <2>2. ASSUME NEW u \in Users, turn[u] # "idle"
        PROVE  HasIt(u) \/ (HasIt(Head(serial[record[u]])) /\ Head(serial[record[u]]) \in Users)
    <3>1. CASE turn[u] \in {"evaluating", "using"} BY <2>2, <3>1 DEF HasIt
    <3>2. CASE turn[u] \notin {"evaluating", "using"}
      <4>1. Acquires(u) \/ Releases(u) BY <2>1, <2>2, <3>2 DEF TabTypeOK, Turns, Acquires, Releases
      <4>2. record[u] \in TabRecords BY <2>1, <4>1 DEF QueuesFit
      <4> DEFINE s == serial[record[u]]
      <4>3. s \in Seq(Users) BY <2>1, <4>2 DEF TabTypeOK
      <4>4. PICK i \in 1..Len(s) : s[i] = u BY <2>1, <4>1 DEF AllOnList, OnList
      <4>5. 1 \in 1..Len(s) /\ s # <<>> /\ Head(s) = s[1] /\ Head(s) \in Users
        <5>1. Len(s) \in Nat /\ Len(s) # 0 BY <4>3, <4>4
        <5>2. s # <<>> BY <5>1
        <5> HIDE DEF s
        <5> QED BY <4>3, <5>1, <5>2
      <4>6. (Acquires(s[1]) \/ Releases(s[1])) /\ record[s[1]] = record[u] BY <2>1, <4>2, <4>5 DEF QueuesFit
      <4> QED BY <4>5, <4>6 DEF HasIt, Acquires, Releases
    <3> QED BY <3>1, <3>2
  <2>3. ASSUME entry = 0, attached, Orphans = {}
        PROVE  (\E u \in Users : HasIt(u)) \/ \E d \in Drivers : driver[d].lifetime /\ driver[d].disposed
    <3>1. SUFFICES ASSUME \A u \in Users : ~HasIt(u) PROVE \E d \in Drivers : driver[d].lifetime /\ driver[d].disposed
      OBVIOUS
    <3>2. \A u \in Users : turn[u] = "idle" BY <2>2, <3>1
    <3>3. PICK k \in TabRecords : refCount[k] > 0 BY <2>1, <2>3, <3>2 DEF CountedFits
    <3>4. k = table /\ table # 0 BY <2>3, <3>3, NumbersAre DEF Orphans
    <3>5. refCount[k] <= Cardinality(HoldersAt(k)) /\ refCount[k] \in Nat BY <2>1, <3>4 DEF CountedFits, TabTypeOK
    <3>6. HoldersAt(k) # {}
      <4>1. HoldersAt(k) \in SUBSET Users BY DEF HoldersAt
      <4>2. Cardinality(HoldersAt(k)) \in Nat /\ Cardinality(HoldersAt(k)) # 0 BY <3>3, <3>5, <4>1, CountIs
      <4> QED BY <4>1, <4>2, CountIs
    <3>7. PICK u \in Users : HoldsAt(u, k) BY <3>6 DEF HoldersAt
    <3>8. u \in Drivers /\ driver[u].lifetime BY <3>2, <3>7 DEF HoldsAt, Holds
    <3>9. driver[u].disposed BY <2>1, <2>3, <3>8, NumbersAre DEF DriversFit, DriverFits
    <3> QED BY <3>8, <3>9
  <2> QED BY <2>2, <2>3 DEF LettingGoIsUnderWay
<1> QED BY <1>1, <1>2, PTL

\* Until the browser detaches: a record is busy while somebody is counted at it, or makes Chrome
\* detach.  One record at a time is, and the debugger is attached meanwhile.
Busy(k) == refCount[k] > 0 \/ \E u \in Users : turn[u] = "detaching" /\ record[u] = k
BusyFits ==
  /\ \A j, k \in TabRecords : Busy(j) /\ Busy(k) => j = k
  /\ \A k \in TabRecords : Busy(k) => attached

\* Whoever releases does so at the tab's record, and detaches when nobody is counted there.
ReleasersFit ==
  /\ \A u \in Users : Releases(u) => record[u] = table
  /\ \A u \in Users : turn[u] = "detaching" => refCount[record[u]] = 0

\* Every holder is counted; or it lets go, at the tab's record that counts nobody, what is counted
\* for it at a record that was deleted.
Outlived(k) ==
  /\ refCount[k] = 0 /\ k = table /\ \A u \in HoldersAt(k) : turn[u] = "releasing"
  /\ \E b \in TabRecords : b # table /\ refCount[b] > 0
CountOk(k) == Cardinality(HoldersAt(k)) <= refCount[k] \/ Outlived(k)
HoldersCounted == \A k \in TabRecords : CountOk(k)

\* An owner the tab's record names is a holder's.
OwnersFit ==
  /\ \A k \in TabRecords : refCount[k] = 0 => owners[k] = {}
  /\ table # 0 => \A o \in owners[table] : \E v \in HoldersAt(table) : Owner(v) = o
NobodyClosed == \A d \in Drivers : ~driver[d].closed
Undetached == BusyFits /\ ReleasersFit /\ HoldersCounted /\ OwnersFit /\ NobodyClosed

\* Who holds is counted where it holds.
LEMMA HolderCounted ==
  ASSUME TabInv, Undetached, NEW u \in Users, Holds(u)
  PROVE  /\ record[u] \in TabRecords /\ refCount[record[u]] > 0
         /\ Cardinality(HoldersAt(record[u])) <= refCount[record[u]]
<1>1. record[u] \in TabRecords BY DEF TabInv, RecordsFit
<1>2. PICK k \in TabRecords : k = record[u] BY <1>1
<1>3. u \in HoldersAt(k) BY <1>2 DEF HoldersAt, HoldsAt
<1>4. Cardinality(HoldersAt(k)) \in Nat /\ Cardinality(HoldersAt(k)) # 0
  <2>1. HoldersAt(k) \in SUBSET Users BY DEF HoldersAt
  <2> QED BY <1>3, <2>1, CountIs
<1>5. turn[u] # "releasing"
  <2>1. u \in Drivers => driver[u].lifetime BY DEF Holds
  <2>2. u \notin Drivers => turn[u] \in {"evaluating", "using"} BY DEF Holds
  <2> QED BY <2>1, <2>2 DEF TabInv, DriversFit, DriverFits, Releases
<1>6. ~Outlived(k) BY <1>3, <1>5 DEF Outlived
<1>7. Cardinality(HoldersAt(k)) <= refCount[k] BY <1>6 DEF Undetached, HoldersCounted, CountOk
<1>8. refCount[k] \in Nat BY DEF TabInv, TabTypeOK
<1> QED BY <1>2, <1>4, <1>7, <1>8

\* While one makes Chrome detach nobody is counted, and nobody holds.
LEMMA NobodyHolds ==
  ASSUME TabInv, Undetached, NEW u \in Users, turn[u] = "detaching"
  PROVE  \A k \in TabRecords : refCount[k] = 0 /\ HoldersAt(k) = {}
<1>1. record[u] \in TabRecords /\ refCount[record[u]] = 0
  BY DEF TabInv, QueuesFit, Releases, Undetached, ReleasersFit
<1>2. Busy(record[u]) BY DEF Busy
<1>3. \A k \in TabRecords : refCount[k] = 0
  <2> SUFFICES ASSUME NEW k \in TabRecords, refCount[k] # 0 PROVE FALSE OBVIOUS
  <2>1. refCount[k] > 0 BY DEF TabInv, TabTypeOK
  <2>2. k = record[u] BY <1>1, <1>2, <2>1 DEF Undetached, BusyFits, Busy
  <2> QED BY <1>1, <2>2
<1>4. ASSUME NEW k \in TabRecords PROVE HoldersAt(k) = {}
  <2>1. ~Outlived(k)
    <3>1. \A b \in TabRecords : ~(refCount[b] > 0) BY <1>3
    <3> QED BY <3>1 DEF Outlived
  <2>2. Cardinality(HoldersAt(k)) <= 0 BY <1>3, <2>1 DEF Undetached, HoldersCounted, CountOk
  <2>3. HoldersAt(k) \in SUBSET Users BY DEF HoldersAt
  <2>4. Cardinality(HoldersAt(k)) \in Nat BY <2>3, CountIs
  <2>5. Cardinality(HoldersAt(k)) = 0 BY <2>2, <2>4
  <2> QED BY <2>3, <2>5, CountIs
<1> QED BY <1>3, <1>4

\* A step aside, and one that begins to let go.
LEMMA AsideUndetached ==
  ASSUME TabInv, TabInv', Undetached, NobodyClosed', Aside PROVE Undetached'
<1>1. /\ UNCHANGED <<attached, refCount, owners>> /\ (Looked \/ UNCHANGED table)
      /\ \A v \in Users :
           /\ \A step \in {"releasing", "detaching"} : turn'[v] = step <=> turn[v] = step
           /\ Releases(v) => record'[v] = record[v]
  BY DEF Aside
<1>2. table # 0 => table' = table BY <1>1, LookedAt DEF TabInv
<1>3. \A k \in TabRecords : HoldersAt(k)' = HoldersAt(k) BY AsideHolders
<1>4. \A v \in Users : (Releases(v)' <=> Releases(v)) BY <1>1 DEF Releases
<1>5. ASSUME NEW k \in TabRecords PROVE (Busy(k))' => Busy(k)
  <2>1. \A v \in Users : turn'[v] = "detaching" => turn[v] = "detaching" /\ record'[v] = record[v]
    BY <1>1 DEF Releases
  <2> QED BY <1>1, <2>1 DEF Busy
<1>6. BusyFits' BY <1>1, <1>5 DEF Undetached, BusyFits
<1>7. ReleasersFit'
  <2> SUFFICES ASSUME NEW v \in Users, Releases(v)'
               PROVE  record'[v] = table' /\ (turn'[v] = "detaching" => refCount'[record'[v]] = 0)
    BY DEF ReleasersFit, Releases
  <2>1. Releases(v) /\ record'[v] = record[v] BY <1>1, <1>4
  <2>2. record[v] = table /\ record[v] \in TabRecords BY <2>1 DEF Undetached, ReleasersFit, TabInv, QueuesFit
  <2>3. table' = table BY <1>2, <2>2, NumbersAre
  <2> QED BY <1>1, <2>1, <2>2, <2>3 DEF Undetached, ReleasersFit
<1>8. HoldersCounted'
  <2> SUFFICES ASSUME NEW k \in TabRecords PROVE (CountOk(k))' BY DEF HoldersCounted
  <2>1. CASE Cardinality(HoldersAt(k)) <= refCount[k] BY <1>1, <1>3, <2>1 DEF CountOk
  <2>2. CASE Outlived(k)
    <3>1. table' = table BY <1>2, <2>2, NumbersAre DEF Outlived
    <3>2. \A v \in HoldersAt(k)' : turn'[v] = "releasing" BY <1>1, <1>3, <2>2 DEF Outlived, HoldersAt
    <3>3. (Outlived(k))' BY <1>1, <2>2, <3>1, <3>2 DEF Outlived
    <3> QED BY <3>3 DEF CountOk
  <2> QED BY <2>1, <2>2 DEF Undetached, HoldersCounted, CountOk
<1>9. OwnersFit'
  <2>1. \A k \in TabRecords : refCount'[k] = 0 => owners'[k] = {} BY <1>1 DEF Undetached, OwnersFit
  <2>2. ASSUME table' # 0, NEW o \in owners'[table'] PROVE \E v \in HoldersAt(table)' : Owner(v) = o
    <3>1. CASE table = 0
      <4>1. table' = records + 1 /\ table' \in TabRecords /\ records \in Nat
        BY <1>1, <2>2, <3>1, LookedAt DEF TabInv, TabTypeOK
      <4>2. owners[table'] = {} BY <4>1 DEF TabInv, RecordsFit
      <4> QED BY <1>1, <2>2, <4>2
    <3>2. CASE table # 0
      <4>1. PICK t \in TabRecords : t = table BY <3>2 DEF TabInv, TabTypeOK
      <4>2. HoldersAt(table) = HoldersAt(t) /\ HoldersAt(table)' = HoldersAt(t)'
        BY <1>2, <3>2, <4>1 DEF HoldersAt, HoldsAt
      <4>3. HoldersAt(table)' = HoldersAt(table) BY <1>3, <4>2
      <4> QED BY <1>1, <1>2, <2>2, <3>2, <4>3 DEF Undetached, OwnersFit
    <3> QED BY <3>1, <3>2
  <2> QED BY <2>1, <2>2 DEF OwnersFit
<1> QED BY <1>6, <1>7, <1>8, <1>9 DEF Undetached

\* A driver, an evaluation or a tool begins to let go what it holds.
LEMMA LetsUndetached ==
  ASSUME TabInv, TabInv', Undetached, NobodyClosed', NEW u \in Users, Lets(u) PROVE Undetached'
<1>1. /\ table' \in TabRecords /\ Looked /\ UNCHANGED <<attached, refCount, owners>>
      /\ turn[u] \notin {"releasing", "detaching"} /\ turn'[u] = "releasing" /\ record'[u] = table'
      /\ \A v \in Users \ {u} : turn'[v] = turn[v] /\ record'[v] = record[v]
      /\ HoldersAt(table)' = HoldersAt(Current) \cup {u}
      /\ \A k \in TabRecords \ {table'} : HoldersAt(k)' = HoldersAt(k) \ {u}
  BY LetsHolders DEF TabInv
<1>2. (table # 0 => table' = table) /\ table' = Current BY <1>1, LookedAt DEF TabInv
<1>3. PICK r \in TabRecords : r = record[u] BY LetsHolders DEF TabInv
<1>4. Holds(u) BY DEF Lets
<1>5. refCount[r] > 0 /\ Cardinality(HoldersAt(r)) <= refCount[r] /\ u \in HoldersAt(r)
  <2>1. u \in HoldersAt(r) BY <1>3, <1>4 DEF HoldersAt, HoldsAt
  <2>2. HoldersAt(record[u]) = HoldersAt(r) BY <1>3
  <2> QED BY <1>3, <1>4, <2>1, <2>2, HolderCounted
<1>6. PICK t \in TabRecords : t = table' BY <1>1
<1>7. HoldersAt(t)' = HoldersAt(t) \cup {u}
  <2>1. HoldersAt(table)' = HoldersAt(t)' BY <1>6 DEF HoldersAt, HoldsAt
  <2>2. HoldersAt(Current) = HoldersAt(t) BY <1>2, <1>6
  <2> QED BY <1>1, <2>1, <2>2
<1>8. \A k \in TabRecords : (Busy(k))' => Busy(k)
  <2>1. \A v \in Users : turn'[v] = "detaching" => turn[v] = "detaching" /\ record'[v] = record[v] BY <1>1
  <2> QED BY <1>1, <2>1 DEF Busy
<1>9. BusyFits' BY <1>1, <1>8 DEF Undetached, BusyFits
<1>10. ReleasersFit'
  <2> SUFFICES ASSUME NEW v \in Users, Releases(v)'
               PROVE  record'[v] = table' /\ (turn'[v] = "detaching" => refCount'[record'[v]] = 0)
    BY DEF ReleasersFit, Releases
  <2>1. CASE v = u BY <1>1, <2>1
  <2>2. CASE v # u
    <3>1. Releases(v) /\ record'[v] = record[v] /\ turn'[v] = turn[v] BY <1>1, <2>2 DEF Releases
    <3>2. record[v] = table /\ record[v] \in TabRecords BY <3>1 DEF Undetached, ReleasersFit, TabInv, QueuesFit
    <3>3. table' = table BY <1>2, <3>2, NumbersAre
    <3> QED BY <1>1, <3>1, <3>2, <3>3 DEF Undetached, ReleasersFit
  <2> QED BY <2>1, <2>2
<1>11. HoldersCounted'
  <2> SUFFICES ASSUME NEW k \in TabRecords PROVE (CountOk(k))' BY DEF HoldersCounted
  <2>1. HoldersAt(k) \in SUBSET Users BY DEF HoldersAt
  <2>2. CASE k # t
    <3>1. HoldersAt(k)' = HoldersAt(k) \ {u} BY <1>1, <1>6, <2>2
    <3>2. ~Outlived(k) BY <1>2, <1>6, <2>2, NumbersAre DEF Outlived
    <3>3. Cardinality(HoldersAt(k)) <= refCount[k] BY <3>2 DEF Undetached, HoldersCounted, CountOk
    <3>4. /\ Cardinality(HoldersAt(k)') <= Cardinality(HoldersAt(k))
          /\ Cardinality(HoldersAt(k)) \in Nat /\ Cardinality(HoldersAt(k)') \in Nat
      <4>1. HoldersAt(k) \ {u} \in SUBSET HoldersAt(k) /\ HoldersAt(k) \ {u} \in SUBSET Users BY <2>1
      <4> QED BY <2>1, <3>1, <4>1, CountIs
    <3>5. refCount[k] \in Nat /\ refCount'[k] = refCount[k] BY <1>1 DEF TabInv, TabTypeOK
    <3> QED BY <3>3, <3>4, <3>5 DEF CountOk
  <2>3. CASE k = t /\ t = r
    <3>1. HoldersAt(k)' = HoldersAt(k) BY <1>5, <1>7, <2>3
    <3> QED BY <1>1, <1>5, <2>3, <3>1 DEF CountOk
  <2>4. CASE k = t /\ t # r
    <3>1. Busy(r) BY <1>5 DEF Busy
    <3>2. refCount[t] = 0
      <4>1. refCount[t] \in Nat BY DEF TabInv, TabTypeOK
      <4>2. ~(refCount[t] > 0) BY <2>4, <3>1 DEF Undetached, BusyFits, Busy
      <4> QED BY <4>1, <4>2
    <3>3. \A v \in HoldersAt(t) : turn[v] = "releasing"
      <4>1. CASE Outlived(t) BY <4>1 DEF Outlived
      <4>2. CASE Cardinality(HoldersAt(t)) <= refCount[t]
        <5>1. HoldersAt(t) \in SUBSET Users BY DEF HoldersAt
        <5>2. Cardinality(HoldersAt(t)) = 0
          <6>1. Cardinality(HoldersAt(t)) \in Nat BY <5>1, CountIs
          <6> QED BY <3>2, <4>2, <6>1
        <5>3. HoldersAt(t) = {} BY <5>1, <5>2, CountIs
        <5> QED BY <5>3
      <4> QED BY <4>1, <4>2 DEF Undetached, HoldersCounted, CountOk
    <3>4. \A v \in HoldersAt(t)' : turn'[v] = "releasing"
      <4> SUFFICES ASSUME NEW v \in HoldersAt(t)' PROVE turn'[v] = "releasing" OBVIOUS
      <4>1. v = u \/ v \in HoldersAt(t) BY <1>7
      <4>2. v \in Users BY DEF HoldersAt
      <4> QED BY <1>1, <3>3, <4>1, <4>2
    <3>5. \E b \in TabRecords : b # table' /\ refCount'[b] > 0 BY <1>1, <1>5, <1>6, <2>4
    <3>6. (Outlived(t))' BY <1>1, <1>6, <3>2, <3>4, <3>5 DEF Outlived
    <3> QED BY <2>4, <3>6 DEF CountOk
  <2> QED BY <2>2, <2>3, <2>4
<1>12. OwnersFit'
  <2>1. \A k \in TabRecords : refCount'[k] = 0 => owners'[k] = {} BY <1>1 DEF Undetached, OwnersFit
  <2>2. ASSUME NEW o \in owners'[table'] PROVE \E v \in HoldersAt(table)' : Owner(v) = o
    <3>1. HoldersAt(table)' = HoldersAt(t)' BY <1>6 DEF HoldersAt, HoldsAt
    <3>2. CASE table = 0
      <4>1. table' = records + 1 /\ records \in Nat BY <1>1, <3>2, LookedAt DEF TabInv, TabTypeOK
      <4>2. owners[table'] = {} BY <1>1, <4>1 DEF TabInv, RecordsFit
      <4> QED BY <1>1, <2>2, <4>2
    <3>3. CASE table # 0
      <4>1. HoldersAt(table) = HoldersAt(t) /\ o \in owners[table] BY <1>1, <1>2, <1>6, <2>2, <3>3
      <4>2. \E v \in HoldersAt(table) : Owner(v) = o BY <3>3, <4>1 DEF Undetached, OwnersFit
      <4> QED BY <1>7, <3>1, <4>1, <4>2
    <3> QED BY <3>2, <3>3
  <2> QED BY <2>1, <2>2 DEF OwnersFit
<1> QED BY <1>9, <1>10, <1>11, <1>12 DEF Undetached

\* A user is granted the debugger: at the one record that is busy, or when none is.
LEMMA GrantsUndetached ==
  ASSUME TabInv, TabInv', Undetached, NobodyClosed', NEW u \in Users, Grants(u) PROVE Undetached'
<1>1. /\ UNCHANGED <<table, records, record>>
      /\ (refCount[record[u]] > 0 /\ UNCHANGED attached) \/ (~attached /\ attached')
      /\ AtHead(u) /\ Acquires(u)
      /\ (Holds(u))' \/ (u \in Drivers /\ driver[u].closed)
  BY DEF Grants
<1>2. PICK r \in TabRecords : r = record[u] BY GrantsHolders DEF TabInv
<1>3. /\ u \notin HoldersAt(r) /\ HoldersAt(r)' = HoldersAt(r) \cup {u}
      /\ \A k \in TabRecords \ {r} : HoldersAt(k)' = HoldersAt(k)
      /\ turn'[u] \in {"idle", "evaluating", "using"} /\ \A v \in Users \ {u} : turn'[v] = turn[v]
  <2>1. HoldersAt(record[u]) = HoldersAt(r) /\ HoldersAt(record[u])' = HoldersAt(r)'
    BY <1>1, <1>2 DEF HoldersAt, HoldsAt
  <2>2. (Holds(u))' BY <1>1 DEF Undetached, NobodyClosed
  <2> QED BY <1>2, <2>1, <2>2, GrantsHolders DEF TabInv
<1>4. /\ refCount'[r] = refCount[r] + 1 /\ refCount[r] \in Nat
      /\ \A k \in TabRecords \ {r} : refCount'[k] = refCount[k] /\ owners'[k] = owners[k]
      /\ owners'[r] = owners[r] \cup {Owner(u)}
  BY <1>2 DEF Grants, TabInv, TabTypeOK
<1>5. \A k \in TabRecords : Busy(k) => k = r
  <2>1. CASE refCount[record[u]] > 0 BY <1>2, <2>1 DEF Undetached, BusyFits, Busy
  <2>2. CASE ~attached BY <2>2 DEF Undetached, BusyFits
  <2> QED BY <1>1, <2>1, <2>2
<1>6. \A k \in TabRecords \ {r} : refCount[k] = 0
  <2>1. \A k \in TabRecords \ {r} : ~(refCount[k] > 0) BY <1>5 DEF Busy
  <2> QED BY <2>1 DEF TabInv, TabTypeOK
<1>7. BusyFits'
  <2>1. attached' BY <1>1, <1>2, <1>5 DEF Undetached, BusyFits, Busy
  <2>2. ASSUME NEW k \in TabRecords, (Busy(k))' PROVE k = r
    <3>1. CASE refCount'[k] > 0 BY <1>4, <1>6, <3>1
    <3>2. CASE \E v \in Users : turn'[v] = "detaching" /\ record'[v] = k
      BY <1>1, <1>3, <1>5, <3>2 DEF Busy
    <3> QED BY <2>2, <3>1, <3>2 DEF Busy
  <2> QED BY <2>1, <2>2 DEF BusyFits
<1>8. ReleasersFit'
  <2> SUFFICES ASSUME NEW v \in Users, Releases(v)'
               PROVE  record'[v] = table' /\ (turn'[v] = "detaching" => refCount'[record'[v]] = 0)
    BY DEF ReleasersFit, Releases
  <2>1. v # u /\ turn'[v] = turn[v] BY <1>3 DEF Releases
  <2>2. Releases(v) BY <2>1 DEF Releases
  <2>3. record[v] = table /\ record[v] \in TabRecords BY <2>2 DEF Undetached, ReleasersFit, TabInv, QueuesFit
  <2>4. ASSUME turn[v] = "detaching" PROVE refCount'[record[v]] = 0
    <3>1. refCount[record[v]] = 0 /\ serial[record[v]] # <<>> /\ Head(serial[record[v]]) = v
      BY <2>4 DEF Undetached, ReleasersFit, TabInv, QueuesFit
    <3>2. record[v] # r BY <1>1, <1>2, <2>1, <3>1 DEF AtHead
    <3> QED BY <1>4, <2>3, <3>1, <3>2
  <2> QED BY <1>1, <2>1, <2>3, <2>4
<1>9. HoldersCounted'
  <2> SUFFICES ASSUME NEW k \in TabRecords PROVE (CountOk(k))' BY DEF HoldersCounted
  <2>1. HoldersAt(k) \in SUBSET Users BY DEF HoldersAt
  <2>2. CASE k = r
    <3>1. Cardinality(HoldersAt(k)') = Cardinality(HoldersAt(k)) + 1 /\ Cardinality(HoldersAt(k)) \in Nat
      BY <1>3, <2>1, <2>2, CountIs
    <3>2. Cardinality(HoldersAt(k)) <= refCount[k]
      <4>1. CASE Outlived(k)
        <5>1. PICK b \in TabRecords : b # k /\ refCount[b] > 0 BY <4>1 DEF Outlived
        <5> QED BY <1>6, <2>2, <5>1
      <4> QED BY <4>1 DEF Undetached, HoldersCounted, CountOk
    <3> QED BY <1>4, <2>2, <3>1, <3>2 DEF CountOk
  <2>3. CASE k # r
    <3>1. HoldersAt(k)' = HoldersAt(k) /\ refCount'[k] = refCount[k] BY <1>3, <1>4, <2>3
    <3>2. CASE Cardinality(HoldersAt(k)) <= refCount[k] BY <3>1, <3>2 DEF CountOk
    <3>3. CASE Outlived(k)
      <4>1. k = table /\ \A v \in HoldersAt(k) : turn[v] = "releasing" BY <3>3 DEF Outlived
      <4>2. \A v \in HoldersAt(k) : v # u /\ v \in Users
        BY <1>1, <4>1 DEF Acquires, HoldersAt
      <4>3. \A v \in HoldersAt(k)' : turn'[v] = "releasing" BY <1>3, <3>1, <4>1, <4>2
      <4>4. r # table /\ refCount'[r] > 0 BY <1>4, <2>3, <4>1
      <4>5. (Outlived(k))' BY <1>1, <3>1, <3>3, <4>1, <4>3, <4>4 DEF Outlived
      <4> QED BY <4>5 DEF CountOk
    <3> QED BY <3>2, <3>3 DEF Undetached, HoldersCounted, CountOk
  <2> QED BY <2>2, <2>3
<1>10. OwnersFit'
  <2>1. \A k \in TabRecords : refCount'[k] = 0 => owners'[k] = {} BY <1>4 DEF Undetached, OwnersFit
  <2>2. ASSUME table' # 0, NEW o \in owners'[table'] PROVE \E v \in HoldersAt(table)' : Owner(v) = o
    <3>1. PICK t \in TabRecords : t = table BY <1>1, <2>2 DEF TabInv, TabTypeOK
    <3>2. HoldersAt(table)' = HoldersAt(t)' /\ HoldersAt(table) = HoldersAt(t) BY <1>1, <3>1 DEF HoldersAt, HoldsAt
    <3>3. HoldersAt(t) \subseteq HoldersAt(t)' /\ (t = r => u \in HoldersAt(t)') BY <1>3
    <3>4. o \in owners[table] \/ (t = r /\ o = Owner(u)) BY <1>1, <1>4, <2>2, <3>1
    <3> QED BY <1>1, <2>2, <3>2, <3>3, <3>4 DEF Undetached, OwnersFit
  <2> QED BY <2>1, <2>2 DEF OwnersFit
<1> QED BY <1>7, <1>8, <1>9, <1>10 DEF Undetached

\* A release: the holder was counted, or it finds a record that counts nobody.
LEMMA ReleaseUndetached ==
  ASSUME TabInv, TabInv', Undetached, NobodyClosed', NEW u \in Users, ReleaseHeld(u) \/ ReleaseNothing(u)
  PROVE  Undetached'
<1>1. PICK r \in TabRecords : r = record[u] BY ReleaseHolders DEF TabInv
<1>2. /\ UNCHANGED <<attached, table, records, record>> /\ turn[u] = "releasing" /\ turn'[u] \in {"idle", "detaching"}
      /\ \A v \in Users \ {u} : turn'[v] = turn[v]
      /\ \A k \in TabRecords : HoldersAt(k)' = HoldersAt(k) \ {u}
      /\ \A k \in TabRecords \ {r} : HoldersAt(k)' = HoldersAt(k)
      /\ u \in HoldersAt(r)
  <2>1. HoldersAt(record[u]) = HoldersAt(r) BY <1>1
  <2> QED BY <1>1, <2>1, ReleaseHolders DEF TabInv
<1>3. r = table /\ r # 0 BY <1>1, <1>2, NumbersAre DEF Undetached, ReleasersFit, Releases
<1>4. HoldersAt(r) \in SUBSET Users BY DEF HoldersAt
<1>5. /\ Cardinality(HoldersAt(r)') = Cardinality(HoldersAt(r)) - 1
      /\ Cardinality(HoldersAt(r)) \in Nat /\ Cardinality(HoldersAt(r)) # 0
  BY <1>2, <1>4, CountIs
<1>6. /\ \A k \in TabRecords \ {r} : refCount'[k] = refCount[k] /\ owners'[k] = owners[k]
      /\ owners'[r] = owners[r] \ {Owner(u)} /\ refCount[r] \in Nat
      /\ refCount'[r] = IF refCount[r] = 0 THEN 0 ELSE refCount[r] - 1
      /\ refCount[r] = 0 => turn'[u] = "idle"
      /\ refCount[r] = 1 => turn'[u] = "detaching"
      /\ refCount[r] > 1 => turn'[u] = "idle"
  <2>1. refCount[r] \in Nat BY DEF TabInv, TabTypeOK
  <2>2. CASE ReleaseNothing(u)
    <3>1. UNCHANGED <<refCount, owners>> /\ refCount[r] = 0 /\ Owner(u) \notin owners[r] /\ turn' = [turn EXCEPT ![u] = "idle"]
      BY <1>1, <2>2 DEF ReleaseNothing, EndTurn
    <3> QED BY <2>1, <3>1 DEF TabInv, TabTypeOK
  <2>3. CASE ReleaseHeld(u)
    <3>1. refCount[r] > 0
      <4>1. refCount[r] > 0 \/ owners[r] # {} BY <1>1, <2>3 DEF ReleaseHeld
      <4> QED BY <2>1, <4>1 DEF Undetached, OwnersFit
    <3>2. /\ owners' = [owners EXCEPT ![r] = owners[r] \ {Owner(u)}]
          /\ refCount' = [refCount EXCEPT ![r] = IF refCount[r] = 0 THEN 0 ELSE refCount[r] - 1]
      BY <1>1, <2>3 DEF ReleaseHeld, TabInv, TabTypeOK
    <3>3. /\ refCount[r] > 1 => turn' = [turn EXCEPT ![u] = "idle"]
          /\ ~(refCount[r] > 1) => turn' = [turn EXCEPT ![u] = "detaching"]
      BY <1>1, <2>3 DEF ReleaseHeld, EndTurn
    <3> QED BY <2>1, <3>1, <3>2, <3>3 DEF TabInv, TabTypeOK
  <2> QED BY <2>2, <2>3
<1>7. \A k \in TabRecords : (Busy(k))' => Busy(k)
  <2> SUFFICES ASSUME NEW k \in TabRecords, (Busy(k))' PROVE Busy(k) OBVIOUS
  <2>1. CASE refCount'[k] > 0
    <3>1. refCount[k] > 0 BY <1>6, <2>1
    <3> QED BY <3>1 DEF Busy
  <2>2. ASSUME NEW v \in Users, turn'[v] = "detaching", record'[v] = k PROVE Busy(k)
    <3>1. CASE v = u
      <4>1. k = r /\ refCount[r] > 0 BY <1>1, <1>2, <1>6, <2>2, <3>1
      <4> QED BY <4>1 DEF Busy
    <3>2. CASE v # u BY <1>2, <2>2, <3>2 DEF Busy
    <3> QED BY <3>1, <3>2
  <2> QED BY <2>1, <2>2 DEF Busy
<1>8. BusyFits' BY <1>2, <1>7 DEF Undetached, BusyFits
<1>9. ReleasersFit'
  <2> SUFFICES ASSUME NEW v \in Users, Releases(v)'
               PROVE  record'[v] = table' /\ (turn'[v] = "detaching" => refCount'[record'[v]] = 0)
    BY DEF ReleasersFit, Releases
  <2>1. CASE v = u
    <3>1. record'[v] = r /\ table' = r BY <1>1, <1>2, <1>3, <2>1
    <3>2. ASSUME turn'[v] = "detaching" PROVE refCount'[r] = 0
      <4>1. turn'[u] = "detaching" BY <2>1, <3>2
      <4>2. refCount[r] = 1 BY <1>6, <4>1
      <4> QED BY <1>6, <4>2
    <3> QED BY <3>1, <3>2
  <2>2. CASE v # u
    <3>1. Releases(v) /\ turn'[v] = turn[v] BY <1>2, <2>2 DEF Releases
    <3>2. record[v] = table BY <3>1 DEF Undetached, ReleasersFit
    <3>3. turn[v] = "detaching" => refCount[r] = 0 BY <1>3, <3>2 DEF Undetached, ReleasersFit
    <3> QED BY <1>2, <1>3, <1>6, <3>1, <3>2, <3>3
  <2> QED BY <2>1, <2>2
<1>10. HoldersCounted'
  <2> SUFFICES ASSUME NEW k \in TabRecords PROVE (CountOk(k))' BY DEF HoldersCounted
  <2>1. CASE k # r
    <3>1. HoldersAt(k)' = HoldersAt(k) /\ refCount'[k] = refCount[k] BY <1>2, <1>6, <2>1
    <3>2. ~Outlived(k) BY <1>3, <2>1 DEF Outlived
    <3> QED BY <3>1, <3>2 DEF Undetached, HoldersCounted, CountOk
  <2>2. CASE k = r /\ Outlived(k)
    <3>1. \A v \in HoldersAt(k)' : v \in Users /\ v # u /\ turn[v] = "releasing"
      BY <1>2, <2>2 DEF Outlived, HoldersAt
    <3>2. \A v \in HoldersAt(k)' : turn'[v] = "releasing" BY <1>2, <3>1
    <3>3. \E b \in TabRecords : b # table' /\ refCount'[b] > 0 BY <1>2, <1>3, <1>6, <2>2 DEF Outlived
    <3>4. refCount'[k] = 0 /\ k = table' BY <1>2, <1>6, <2>2 DEF Outlived
    <3>5. (Outlived(k))' BY <3>2, <3>3, <3>4 DEF Outlived
    <3> QED BY <3>5 DEF CountOk
  <2>3. CASE k = r /\ Cardinality(HoldersAt(k)) <= refCount[k]
    <3>1. Cardinality(HoldersAt(k)') <= refCount'[k] BY <1>5, <1>6, <2>3
    <3> QED BY <3>1 DEF CountOk
  <2> QED BY <2>1, <2>2, <2>3 DEF Undetached, HoldersCounted, CountOk
<1>11. OwnersFit'
  <2>1. \A v \in HoldersAt(r) : Owner(v) # Owner(u) => v \in HoldersAt(r)' BY <1>2
  <2>2. \A o \in owners'[r] : \E v \in HoldersAt(r)' : Owner(v) = o
    <3> SUFFICES ASSUME NEW o \in owners'[r] PROVE \E v \in HoldersAt(r)' : Owner(v) = o OBVIOUS
    <3>1. o \in owners[table] /\ o # Owner(u) BY <1>3, <1>6
    <3>2. PICK v \in HoldersAt(table) : Owner(v) = o BY <1>3, <3>1 DEF Undetached, OwnersFit
    <3>3. HoldersAt(table) = HoldersAt(r) BY <1>3
    <3> QED BY <2>1, <3>1, <3>2, <3>3
  <2>3. ASSUME NEW k \in TabRecords, refCount'[k] = 0 PROVE owners'[k] = {}
    <3>1. CASE k # r BY <1>6, <2>3, <3>1 DEF Undetached, OwnersFit
    <3>2. CASE k = r /\ refCount[r] = 0 BY <1>6, <3>2 DEF Undetached, OwnersFit
    <3>3. CASE k = r /\ refCount[r] = 1
      <4>1. ~Outlived(r) BY <3>3 DEF Outlived
      <4>2. Cardinality(HoldersAt(r)) <= 1 BY <3>3, <4>1 DEF Undetached, HoldersCounted, CountOk
      <4>3. Cardinality(HoldersAt(r)') = 0 BY <1>5, <4>2
      <4>4. HoldersAt(r)' \in SUBSET Users BY DEF HoldersAt
      <4>5. HoldersAt(r)' = {} BY <4>3, <4>4, CountIs
      <4> QED BY <2>2, <3>3, <4>5
    <3>4. refCount[r] > 1 => refCount'[r] # 0 BY <1>6
    <3> QED BY <1>6, <2>3, <3>1, <3>2, <3>3, <3>4
  <2>4. HoldersAt(table)' = HoldersAt(r)' BY <1>2, <1>3 DEF HoldersAt, HoldsAt
  <2> QED BY <1>2, <1>3, <2>2, <2>3, <2>4 DEF OwnersFit
<1> QED BY <1>8, <1>9, <1>10, <1>11 DEF Undetached

\* Chrome has detached: nobody holds.
LEMMA DetachedUndetached ==
  ASSUME TabInv, TabInv', Undetached, NobodyClosed', NEW u \in Users, Detached(u)
  PROVE  Undetached' /\ \A v \in Users : ~Holds(v)
<1>1. /\ turn[u] = "detaching" /\ turn' = [turn EXCEPT ![u] = "idle"] /\ table' = 0 /\ ~attached'
      /\ UNCHANGED <<refCount, owners, record, driver>>
  BY DEF Detached, EndTurn
<1>2. turn'[u] = "idle" /\ \A v \in Users \ {u} : turn'[v] = turn[v] BY <1>1 DEF TabInv, TabTypeOK
<1>3. \A k \in TabRecords : refCount[k] = 0 /\ HoldersAt(k) = {} BY <1>1, NobodyHolds
<1>4. \A v \in Users : ~Holds(v) /\ turn[v] # "releasing"
  <2> SUFFICES ASSUME NEW v \in Users, Holds(v) \/ turn[v] = "releasing" PROVE FALSE OBVIOUS
  <2>1. record[v] \in TabRecords BY DEF TabInv, RecordsFit, QueuesFit, Releases
  <2>2. v \in HoldersAt(record[v]) BY DEF HoldersAt, HoldsAt
  <2> QED BY <1>3, <2>1, <2>2
<1>5. ASSUME NEW v \in Users PROVE ~(Releases(v))'
  <2>1. CASE v = u BY <1>2, <2>1 DEF Releases
  <2>2. CASE v # u
    <3>1. turn[v] # "detaching"
      <4> SUFFICES ASSUME turn[v] = "detaching" PROVE FALSE OBVIOUS
      <4>1. record[v] = table /\ record[u] = table BY <1>1 DEF Undetached, ReleasersFit, Releases
      <4>2. Head(serial[record[v]]) = v /\ Head(serial[record[u]]) = u BY <1>1 DEF TabInv, QueuesFit
      <4> QED BY <2>2, <4>1, <4>2
    <3> QED BY <1>2, <1>4, <2>2, <3>1 DEF Releases
  <2> QED BY <2>1, <2>2
<1>6. \A v \in Users : ~(Holds(v))'
  <2> SUFFICES ASSUME NEW v \in Users, (Holds(v))' PROVE FALSE OBVIOUS
  <2>1. v # u \/ v \in Drivers BY <1>2 DEF Holds
  <2>2. Holds(v) BY <1>1, <1>2, <2>1 DEF Holds
  <2> QED BY <1>4, <2>2
<1>7. \A k \in TabRecords : HoldersAt(k)' = {} BY <1>5, <1>6 DEF HoldersAt, HoldsAt, Releases
<1>8. HoldersCounted'
  <2> SUFFICES ASSUME NEW k \in TabRecords PROVE (CountOk(k))' BY DEF HoldersCounted
  <2>1. Cardinality(HoldersAt(k)') = 0 BY <1>7, FS_EmptySet
  <2> QED BY <1>1, <1>3, <2>1 DEF CountOk
<1>9. BusyFits' BY <1>1, <1>3, <1>5 DEF BusyFits, Busy, Releases
<1>10. ReleasersFit' BY <1>5 DEF ReleasersFit, Releases
<1>11. OwnersFit' BY <1>1 DEF Undetached, OwnersFit
<1> QED BY <1>4, <1>8, <1>9, <1>10, <1>11 DEF Undetached

\* Only the browser's detach is counted as one.
LEMMA DetachesKept ==
  ASSUME TabTypeOK, [TabNext]_tabVars
  PROVE  /\ BrowserDetaches => tabSpent'.detaches # 0
         /\ BrowserDetaches \/ tabSpent'.detaches = tabSpent.detaches
<1>1. tabSpent \in [evaluations : Nat, detaches : Nat, uses : Nat] BY DEF TabTypeOK
<1>2. BrowserDetaches => tabSpent' = [tabSpent EXCEPT !.detaches = @ + 1] BY DEF BrowserDetaches
<1>3. ASSUME StartEvaluation \/ \E u \in Tools : ToolAsks(u) PROVE tabSpent'.detaches = tabSpent.detaches
  <2>1. \/ tabSpent' = [tabSpent EXCEPT !.evaluations = @ + 1]
        \/ tabSpent' = [tabSpent EXCEPT !.uses = @ + 1]
    BY <1>3 DEF StartEvaluation, ToolAsks
  <2> QED BY <1>1, <2>1, SpentMore
<1>4. ASSUME NEW u \in Users, UserSteps(u) PROVE tabSpent' = tabSpent
  BY <1>4 DEF UserSteps, AcquireHeld, AcquireFirst, Attached, Granted, AttachFails, ReleaseNothing, ReleaseHeld,
              Detached, driverVars
<1>5. ASSUME NEW d \in Drivers, EnablePage(d) \/ EnableFails(d) \/ ReleaseLifetime(d) PROVE tabSpent' = tabSpent
  BY <1>5 DEF EnablePage, EnableFails, ReleaseLifetime
<1>6. ASSUME \/ Evaluated \/ Remember \/ MakeDriver \/ ReleaseEntry \/ Navigate \/ UNCHANGED tabVars
             \/ \E u \in Tools : ToolDone(u) \/ ToolEnablesPage(u)
      PROVE  tabSpent' = tabSpent
  BY <1>6 DEF Evaluated, Remember, MakeDriver, ReleaseEntry, Navigate, ToolDone, ToolEnablesPage, tabVars, driverVars
<1> QED BY <1>1, <1>2, <1>3, <1>4, <1>5, <1>6, SpentMore DEF TabNext, TabProgress

\* No step but the browser's detach breaks it.
LEMMA UndetachedKept ==
  ASSUME TabInv, TabInv', Undetached, [TabNext]_tabVars, tabSpent'.detaches = 0 PROVE Undetached'
<1>1. TabTypeOK /\ QueuesFit /\ DriversFit BY DEF TabInv
<1>2. ~BrowserDetaches BY <1>1, DetachesKept
<1>3. NobodyClosed' BY <1>1, <1>2, ElsewhereIs DEF Undetached, NobodyClosed
<1>4. CASE Quiet \/ \E u \in Users : Asks(u) \/ Waits(u) \/ Fails(u)
  <2>1. Aside BY <1>1, <1>4, AsideIs
  <2> QED BY <1>3, <2>1, AsideUndetached
<1>5. ASSUME NEW u \in Users, Lets(u) PROVE Undetached' BY <1>3, <1>5, LetsUndetached
<1>6. ASSUME NEW u \in Users, Grants(u) PROVE Undetached' BY <1>3, <1>6, GrantsUndetached
<1>7. ASSUME NEW u \in Users, ReleaseHeld(u) \/ ReleaseNothing(u) PROVE Undetached' BY <1>3, <1>7, ReleaseUndetached
<1>8. ASSUME NEW u \in Users, Detached(u) PROVE Undetached' BY <1>3, <1>8, DetachedUndetached
<1> QED BY <1>1, <1>2, <1>4, <1>5, <1>6, <1>7, <1>8, StepKinds

\* The manager starts with every record idle.
LEMMA UndetachedStarts == TabInit => Undetached
<1> SUFFICES ASSUME TabInit PROVE Undetached OBVIOUS
<1>1. \A u \in Users : turn[u] = "idle" BY DEF TabInit
<1>2. \A k \in TabRecords : refCount[k] = 0 /\ owners[k] = {} BY DEF TabInit
<1>3. \A d \in Drivers : ~driver[d].lifetime /\ ~driver[d].closed BY DEF TabInit
<1>4. \A u \in Users : ~Holds(u) /\ ~Releases(u) BY <1>1, <1>3 DEF Holds, Releases
<1>5. \A k \in TabRecords : HoldersAt(k) = {} BY <1>1, <1>4 DEF HoldersAt, HoldsAt
<1>6. HoldersCounted
  <2> SUFFICES ASSUME NEW k \in TabRecords PROVE CountOk(k) BY DEF HoldersCounted
  <2>1. Cardinality(HoldersAt(k)) = 0 BY <1>5, FS_EmptySet
  <2> QED BY <1>2, <2>1 DEF CountOk
<1>7. table = 0 BY DEF TabInit
<1>8. \A k \in TabRecords : ~Busy(k) BY <1>1, <1>2 DEF Busy
<1> QED BY <1>1, <1>2, <1>3, <1>4, <1>6, <1>7, <1>8 DEF Undetached, BusyFits, ReleasersFit, OwnersFit, NobodyClosed

\* The invariant of the manager until the browser detaches, however drivers, evaluations and
\* tools overlap at records that are deleted and made anew.
SoundInv == TabInv /\ (tabSpent.detaches = 0 => Undetached)

\* It is one.
LEMMA SoundInvariant == TabSpec => []SoundInv
<1>1. TabInit => SoundInv BY TabStarts, UndetachedStarts DEF SoundInv
<1>2. SoundInv /\ [TabNext]_tabVars => SoundInv'
  <2> SUFFICES ASSUME SoundInv, [TabNext]_tabVars PROVE SoundInv' OBVIOUS
  <2>1. TabInv BY DEF SoundInv
  <2>2. TabInv' BY <2>1, TypesKept, QueuesKept, DriversKept, RecordsKept, CountedKept DEF TabInv
  <2>3. ASSUME tabSpent'.detaches = 0 PROVE Undetached'
    <3>1. tabSpent.detaches = 0 BY <2>1, <2>3, DetachesKept DEF TabInv
    <3>2. Undetached BY <3>1 DEF SoundInv
    <3> QED BY <2>1, <2>2, <2>3, <3>2, UndetachedKept
  <2> QED BY <2>2, <2>3 DEF SoundInv
<1> QED BY <1>1, <1>2, PTL DEF TabSpec

\* Until the browser detaches, whoever holds the debugger of a tab has it, though drivers
\* overlap and some wait for their turn at a record that is deleted meanwhile: no other user's
\* release takes it away, at whichever record the two are counted (acquireWithTrace,
\* releaseWithTrace); and it is attached only for one who is counted, or about to be detached.
THEOREM DebuggerFollowsHolders == TabSpec => []AttachedWhileHeld
<1>1. TabSpec => []SoundInv BY SoundInvariant
<1>2. SoundInv => AttachedWhileHeld
  <2> SUFFICES ASSUME SoundInv, tabSpent.detaches = 0
               PROVE  /\ \A u \in Users : Holds(u) => attached
                      /\ attached => \/ \E k \in TabRecords : refCount[k] > 0
                                     \/ \E u \in Users : turn[u] = "detaching"
    BY DEF AttachedWhileHeld
  <2>1. TabInv /\ Undetached BY DEF SoundInv
  <2>2. ASSUME NEW u \in Users, Holds(u) PROVE attached
    <3>1. record[u] \in TabRecords /\ refCount[record[u]] > 0 BY <2>1, <2>2, HolderCounted
    <3> QED BY <2>1, <3>1 DEF Undetached, BusyFits, Busy
  <2> QED BY <2>1, <2>2 DEF TabInv, CountedFits
<1> QED BY <1>1, <1>2, PTL

\* A driver that lives does so with its lifetime; the session is as deep as it has holders, who let
\* go included.
InSession(u) == Holds(u) \/ Releases(u)
Sessions == {u \in Users \ Tools : InSession(u)}
LifetimesFit == \A d \in Drivers : driver[d].phase \in {"enabling", "ready"} /\ ~driver[d].disposed => driver[d].lifetime
DepthFits == Cardinality(Sessions) <= depth

\* What a step may do to a driver, but for the browser's detach.
LEMMA DriverGoes ==
  ASSUME TabTypeOK, DriversFit, QueuesFit, [TabNext]_tabVars, ~BrowserDetaches, NEW d \in Drivers
  PROVE  /\ driver[d].disposed => driver'[d].disposed
         /\ driver[d].phase = "ready" => driver'[d].phase = "ready"
         /\ driver'[d].phase = "ready" => driver[d].phase = "ready" \/ EnablePage(d)
         /\ driver'[d].phase \in {"enabling", "ready"} =>
              \/ driver'[d].lifetime
              \/ /\ driver[d].phase \in {"enabling", "ready"}
                 /\ driver'[d].lifetime = driver[d].lifetime \/ driver'[d].disposed
<1> DEFINE Goal == /\ driver[d].disposed => driver'[d].disposed
                   /\ driver[d].phase = "ready" => driver'[d].phase = "ready"
                   /\ driver'[d].phase = "ready" => driver[d].phase = "ready" \/ EnablePage(d)
                   /\ driver'[d].phase \in {"enabling", "ready"} =>
                        \/ driver'[d].lifetime
                        \/ /\ driver[d].phase \in {"enabling", "ready"}
                           /\ driver'[d].lifetime = driver[d].lifetime \/ driver'[d].disposed
<1>1. driver[d] \in DriverStates /\ d \in Users BY NumbersAre DEF TabTypeOK
<1>2. driver'[d] = driver[d] => Goal BY <1>1 DEF DriverStates
<1>3. ASSUME NEW u \in Users, Granted(u), Acquires(u) PROVE Goal
  <2>1. CASE u = d
    <3>1. driver' = [driver EXCEPT ![d] = IF driver[d].closed THEN [driver[d] EXCEPT !.phase = "failed"]
                                          ELSE [driver[d] EXCEPT !.phase = "enabling", !.lifetime = TRUE]]
      BY <1>3, <2>1 DEF Granted, Continues
    <3>2. driver[d].phase = "acquiring" BY <1>3, <2>1 DEF DriversFit, DriverFits
    <3>3. driver'[d] = IF driver[d].closed THEN [driver[d] EXCEPT !.phase = "failed"]
                       ELSE [driver[d] EXCEPT !.phase = "enabling", !.lifetime = TRUE]
      BY <3>1 DEF TabTypeOK
    <3>4. /\ driver'[d].disposed = driver[d].disposed
          /\ driver'[d].phase = "failed" \/ (driver'[d].phase = "enabling" /\ driver'[d].lifetime)
      BY <1>1, <3>3 DEF DriverStates
    <3> QED BY <3>2, <3>4
  <2>2. CASE u # d
    <3>1. driver' = driver \/ driver' = [driver EXCEPT ![u] = driver'[u]]
      <4>1. CASE u \notin Drivers BY <1>3, <4>1 DEF Granted, Continues
      <4>2. CASE u \in Drivers
        <5>1. PICK state : driver' = [driver EXCEPT ![u] = state] BY <1>3, <4>2 DEF Granted, Continues
        <5> QED BY <4>2, <5>1 DEF TabTypeOK
      <4> QED BY <4>1, <4>2
    <3>2. driver'[d] = driver[d] BY <2>2, <3>1 DEF TabTypeOK
    <3> QED BY <1>2, <3>2
  <2> QED BY <2>1, <2>2
<1>4. ASSUME NEW u \in Users, AttachFails(u) PROVE Goal
  <2>1. CASE u # d \/ u \notin Drivers
    <3>1. driver' = driver \/ driver' = [driver EXCEPT ![u].phase = "failed", ![u].disposed = @ \/ entry = u]
      BY <1>4 DEF AttachFails
    <3>2. driver'[d] = driver[d] BY <2>1, <3>1 DEF TabTypeOK
    <3> QED BY <1>2, <3>2
  <2>2. CASE u = d
    <3>1. driver' = [driver EXCEPT ![d].phase = "failed", ![d].disposed = @ \/ entry = d] BY <1>4, <2>2 DEF AttachFails
    <3>2. driver[d].phase = "acquiring" BY <1>4, <2>2 DEF AttachFails, DriversFit, DriverFits, Acquires
    <3>3. driver'[d].phase = "failed" /\ driver'[d].disposed = (driver[d].disposed \/ entry = d)
      BY <1>1, <3>1 DEF TabTypeOK, DriverStates
    <3> QED BY <3>2, <3>3
  <2> QED BY <2>1, <2>2
<1>5. ASSUME NEW u \in Users, UserSteps(u) PROVE Goal
  <2>1. CASE AcquireHeld(u) \/ Attached(u)
    <3>1. Granted(u) /\ Acquires(u) BY <2>1 DEF AcquireHeld, Attached, HasTurn, Acquires
    <3> QED BY <1>3, <3>1
  <2>2. CASE AcquireFirst(u) \/ ReleaseNothing(u) \/ ReleaseHeld(u) \/ Detached(u)
    <3>1. driver' = driver BY <2>2 DEF AcquireFirst, ReleaseNothing, ReleaseHeld, Detached, driverVars
    <3> QED BY <1>2, <3>1
  <2> QED BY <1>4, <1>5, <2>1, <2>2 DEF UserSteps
<1>7. ASSUME NEW e \in Drivers, EnablePage(e) PROVE Goal
  <2>1. driver' = [driver EXCEPT ![e].phase = IF driver[e].closed THEN "failed" ELSE "ready"] /\ driver[e].phase = "enabling"
    BY <1>7 DEF EnablePage
  <2>2. CASE e # d BY <1>2, <2>1, <2>2 DEF TabTypeOK
  <2>3. CASE e = d
    <3>1. /\ driver'[d].phase \in {"failed", "ready"}
          /\ driver'[d].disposed = driver[d].disposed /\ driver'[d].lifetime = driver[d].lifetime
      BY <1>1, <2>1, <2>3 DEF TabTypeOK, DriverStates
    <3> QED BY <1>7, <2>1, <2>3, <3>1
  <2> QED BY <2>2, <2>3
<1>8. ASSUME NEW e \in Drivers, EnableFails(e) PROVE Goal
  <2>1. driver' = [driver EXCEPT ![e].phase = "failed", ![e].lifetime = FALSE, ![e].disposed = @ \/ entry = e]
        /\ driver[e].phase = "enabling"
    BY <1>8 DEF EnableFails
  <2>2. CASE e # d BY <2>1, <2>2, <1>2 DEF TabTypeOK
  <2>3. CASE e = d
    <3>1. driver'[d].phase = "failed" /\ driver'[d].disposed = (driver[d].disposed \/ entry = d)
      BY <1>1, <2>1, <2>3 DEF TabTypeOK, DriverStates
    <3> QED BY <2>1, <2>3, <3>1
  <2> QED BY <2>2, <2>3
<1>9. ASSUME NEW e \in Drivers, ReleaseLifetime(e) PROVE Goal
  <2>1. driver' = [driver EXCEPT ![e].lifetime = FALSE] /\ driver[e].disposed BY <1>9 DEF ReleaseLifetime
  <2>2. CASE e # d BY <1>2, <2>1, <2>2 DEF TabTypeOK
  <2>3. CASE e = d
    <3>1. driver'[d].phase = driver[d].phase /\ driver'[d].disposed
      BY <1>1, <2>1, <2>3 DEF TabTypeOK, DriverStates
    <3> QED BY <2>1, <2>3, <3>1
  <2> QED BY <2>2, <2>3
<1>10. CASE MakeDriver
  <2>1. PICK e \in Drivers : driver[e].phase = "none" /\ driver' = [driver EXCEPT ![e].phase = "acquiring"]
    BY <1>10 DEF MakeDriver
  <2>2. CASE e # d BY <1>2, <2>1, <2>2 DEF TabTypeOK
  <2>3. CASE e = d
    <3>1. driver'[d].phase = "acquiring" /\ driver'[d].disposed = driver[d].disposed
      BY <1>1, <2>1, <2>3 DEF TabTypeOK, DriverStates
    <3> QED BY <2>1, <2>3, <3>1
  <2> QED BY <2>2, <2>3
<1>11. CASE ReleaseEntry
  <2>1. driver' = [driver EXCEPT ![entry].disposed = TRUE] /\ entry # 0 BY <1>11 DEF ReleaseEntry
  <2>2. CASE entry # d BY <1>2, <2>1, <2>2 DEF TabTypeOK
  <2>3. CASE entry = d
    <3>1. /\ driver'[d].phase = driver[d].phase /\ driver'[d].disposed /\ driver'[d].lifetime = driver[d].lifetime
      BY <1>1, <2>1, <2>3 DEF TabTypeOK, DriverStates
    <3> QED BY <3>1
  <2> QED BY <2>2, <2>3
<1>12. ASSUME \/ Evaluated \/ Remember \/ StartEvaluation \/ Navigate \/ UNCHANGED tabVars
              \/ \E u \in Tools : ToolAsks(u) \/ ToolEnablesPage(u) \/ ToolDone(u)
       PROVE  Goal
  <2>1. driver' = driver
    BY <1>12 DEF Evaluated, Remember, StartEvaluation, Navigate, ToolAsks, ToolEnablesPage, ToolDone, tabVars, driverVars
  <2> QED BY <1>2, <2>1
<1> QED BY <1>5, <1>7, <1>8, <1>9, <1>10, <1>11, <1>12 DEF TabNext, TabProgress

\* Who has the session, and how deep it is, after a step.
LEMMA SessionGoes ==
  ASSUME TabInv, [TabNext]_tabVars, ~BrowserDetaches
  PROVE  /\ \/ Sessions' = Sessions /\ depth' = depth
            \/ \E u \in Users : Sessions' \subseteq Sessions \cup {u} /\ depth' = depth + 1
            \/ \E u \in Sessions : Sessions' = Sessions \ {u} /\ depth' = IF depth = 0 THEN 0 ELSE depth - 1
         /\ \/ tracking' = tracking
            \/ tracking' = 0 /\ depth' = 0
            \/ Looked /\ tracking' = IF tracking = 0 THEN Current ELSE tracking
<1> DEFINE Stays == Sessions' = Sessions /\ depth' = depth
           Leaves(u) == Sessions' = Sessions \ {u} /\ depth' = IF depth = 0 THEN 0 ELSE depth - 1
           Depth == \/ Stays
                    \/ \E u \in Users : Sessions' \subseteq Sessions \cup {u} /\ depth' = depth + 1
                    \/ \E u \in Sessions : Leaves(u)
           Tracks == \/ tracking' = tracking
                     \/ tracking' = 0 /\ depth' = 0
                     \/ Looked /\ tracking' = IF tracking = 0 THEN Current ELSE tracking
<1> SUFFICES Depth /\ Tracks OBVIOUS
<1>1. TabTypeOK /\ QueuesFit /\ DriversFit BY DEF TabInv
<1>2. ASSUME NEW v \in Users, turn'[v] = turn[v], v \in Drivers => driver'[v].lifetime = driver[v].lifetime
      PROVE  (InSession(v))' <=> InSession(v)
  BY <1>2 DEF InSession, Holds, Releases
<1>3. ASSUME \A v \in Users \ Tools : (InSession(v))' <=> InSession(v) PROVE Sessions' = Sessions
  BY <1>3 DEF Sessions
<1>4. ASSUME NEW u \in Users, \A v \in Users : v # u => turn'[v] = turn[v],
             \A d \in Drivers : d # u => driver'[d].lifetime = driver[d].lifetime,
             u \in Tools \/ ((InSession(u))' <=> InSession(u))
      PROVE  Sessions' = Sessions
  <2>1. ASSUME NEW v \in Users \ Tools PROVE (InSession(v))' <=> InSession(v)
    <3>1. CASE v = u BY <1>4, <3>1
    <3>2. CASE v # u BY <1>2, <1>4, <3>2
    <3> QED BY <3>1, <3>2
  <2> QED BY <1>3, <2>1
<1>5. ASSUME NEW u \in Users, Granted(u), Acquires(u) PROVE Depth /\ Tracks
  <2>1. (\A v \in Users : v # u => turn'[v] = turn[v]) /\ \A d \in Drivers : d # u => driver'[d] = driver[d]
    BY <1>1, <1>5 DEF Granted, Continues, TabTypeOK
  <2>2. depth' = (IF u \in Tools THEN depth ELSE depth + 1) /\ tracking' = tracking BY <1>5 DEF Granted
  <2>3. CASE u \in Tools
    <3>1. Sessions' = Sessions BY <1>4, <2>1, <2>3
    <3> QED BY <2>2, <2>3, <3>1
  <2>4. CASE u \notin Tools
    <3>1. \A v \in Users \ {u} : (InSession(v))' <=> InSession(v) BY <1>2, <2>1
    <3>2. Sessions' \subseteq Sessions \cup {u} BY <3>1 DEF Sessions
    <3> QED BY <2>2, <2>4, <3>2
  <2> QED BY <2>3, <2>4
<1>6. ASSUME NEW u \in Users, turn[u] \in {"idle", "acquiring", "attaching"},
             NEW next \in {"idle", "acquiring", "attaching"}, turn' = [turn EXCEPT ![u] = next],
             \A d \in Drivers : driver'[d].lifetime = driver[d].lifetime
      PROVE  Sessions' = Sessions
  <2>1. turn'[u] = next /\ \A v \in Users : v # u => turn'[v] = turn[v] BY <1>1, <1>6 DEF TabTypeOK
  <2>2. (InSession(u))' <=> InSession(u) BY <1>6, <2>1 DEF InSession, Holds, Releases
  <2> QED BY <1>4, <1>6, <2>1, <2>2
<1>7. CASE \E u \in Users : AcquireHeld(u) \/ Attached(u)
  BY <1>5, <1>7 DEF AcquireHeld, Attached, HasTurn, Acquires
<1>8. ASSUME NEW u \in Users, AcquireFirst(u) PROVE Stays /\ Tracks
  <2>1. turn' = [turn EXCEPT ![u] = "attaching"] /\ turn[u] = "acquiring" /\ UNCHANGED <<driver, depth, tracking>>
    BY <1>8 DEF AcquireFirst, HasTurn, driverVars, sessionVars
  <2> QED BY <1>6, <2>1
<1>9. ASSUME NEW u \in Users, AttachFails(u) PROVE Stays /\ Tracks
  <2>1. /\ turn' = [turn EXCEPT ![u] = "idle"] /\ turn[u] = "attaching" /\ depth' = depth
        /\ tracking' = IF u \notin Tools /\ depth = 0 THEN 0 ELSE tracking
    BY <1>9 DEF AttachFails, EndTurn
  <2>2. \A d \in Drivers : driver'[d].lifetime = driver[d].lifetime
    <3>1. CASE u \notin Drivers BY <1>9, <3>1 DEF AttachFails
    <3>2. CASE u \in Drivers
      <4>1. driver' = [driver EXCEPT ![u].phase = "failed", ![u].disposed = @ \/ entry = u] BY <1>9, <3>2 DEF AttachFails
      <4> QED BY <1>1, <3>2, <4>1 DEF TabTypeOK, DriverStates
    <3> QED BY <3>1, <3>2
  <2>3. Sessions' = Sessions BY <1>6, <2>1, <2>2
  <2> QED BY <2>1, <2>3
<1>10. ASSUME NEW u \in Users, Releases(u), turn' = [turn EXCEPT ![u] = "idle"], Shallower(u), driver' = driver
       PROVE  Depth /\ Tracks
  <2>1. turn'[u] = "idle" /\ \A v \in Users : v # u => turn'[v] = turn[v] BY <1>1, <1>10 DEF TabTypeOK
  <2>2. CASE u \in Tools
    <3>1. Sessions' = Sessions BY <1>4, <1>10, <2>1, <2>2
    <3>2. depth' = depth /\ tracking' = tracking BY <1>10, <2>2 DEF Shallower
    <3> QED BY <3>1, <3>2
  <2>3. CASE u \notin Tools
    <3>1. u \in Sessions BY <1>10, <2>3 DEF Sessions, InSession
    <3>2. ~(InSession(u))'
      <4>1. u \in Drivers => ~driver[u].lifetime BY <1>1, <1>10 DEF DriversFit, DriverFits
      <4> QED BY <1>10, <2>1, <4>1 DEF InSession, Holds, Releases
    <3>3. \A v \in Users \ {u} : (InSession(v))' <=> InSession(v) BY <1>2, <1>10, <2>1
    <3>4. Sessions' = Sessions \ {u} BY <3>2, <3>3 DEF Sessions
    <3>5. /\ depth' = IF depth = 0 THEN 0 ELSE depth - 1
          /\ tracking' = IF depth' = 0 THEN 0 ELSE tracking
      BY <1>10, <2>3 DEF Shallower
    <3> QED BY <3>1, <3>4, <3>5
  <2> QED BY <2>2, <2>3
<1>11. ASSUME NEW u \in Users, ReleaseNothing(u) \/ ReleaseHeld(u) \/ Detached(u) PROVE Depth /\ Tracks
  <2>1. Releases(u) /\ driver' = driver
    BY <1>11 DEF ReleaseNothing, ReleaseHeld, Detached, HasTurn, Releases
  <2>2. CASE turn' = [turn EXCEPT ![u] = "idle"] /\ Shallower(u) BY <1>10, <2>1, <2>2
  <2>3. CASE turn' = [turn EXCEPT ![u] = "detaching"] /\ UNCHANGED <<depth, tracking>>
    <3>1. turn'[u] = "detaching" /\ \A v \in Users : v # u => turn'[v] = turn[v] BY <1>1, <2>3 DEF TabTypeOK
    <3>2. (InSession(u))' <=> InSession(u) BY <2>1, <3>1 DEF InSession, Releases
    <3>3. Sessions' = Sessions BY <1>4, <2>1, <3>1, <3>2
    <3> QED BY <2>3, <3>3
  <2> QED BY <1>11, <2>2, <2>3 DEF ReleaseNothing, ReleaseHeld, Detached, EndTurn
<1>12. ASSUME turn' = turn, UNCHANGED <<depth, tracking>>, \A d \in Drivers : driver'[d].lifetime = driver[d].lifetime
       PROVE  Stays /\ Tracks
  BY <1>2, <1>3, <1>12
<1>13. ASSUME NEW d \in Drivers, EnablePage(d) PROVE Stays /\ Tracks
  <2>1. \A e \in Drivers : driver'[e].lifetime = driver[e].lifetime BY <1>1, <1>13 DEF EnablePage, TabTypeOK, DriverStates
  <2> QED BY <1>12, <1>13, <2>1 DEF EnablePage, sessionVars
<1>14. ASSUME NEW d \in Drivers, driver[d].lifetime, Enqueue(d, "releasing"), UNCHANGED <<depth, tracking>>,
              \A e \in Drivers : e # d => driver'[e] = driver[e]
       PROVE  Stays /\ Tracks
  <2>1. turn' = [turn EXCEPT ![d] = "releasing"] /\ d \in Users BY <1>14, NumbersAre DEF Enqueue
  <2>2. turn'[d] = "releasing" /\ \A v \in Users : v # d => turn'[v] = turn[v] BY <1>1, <2>1 DEF TabTypeOK
  <2>3. (InSession(d))' /\ InSession(d) BY <1>14, <2>2 DEF InSession, Holds, Releases
  <2>4. Sessions' = Sessions BY <1>4, <1>14, <2>1, <2>2, <2>3
  <2> QED BY <1>14, <2>4
<1>15. ASSUME NEW d \in Drivers, EnableFails(d) PROVE Stays /\ Tracks
  <2>1. /\ driver' = [driver EXCEPT ![d].phase = "failed", ![d].lifetime = FALSE, ![d].disposed = @ \/ entry = d]
        /\ UNCHANGED <<depth, tracking>>
    BY <1>15 DEF EnableFails, sessionVars
  <2>2. CASE driver[d].lifetime
    <3>1. \A e \in Drivers : e # d => driver'[e] = driver[e] BY <1>1, <2>1 DEF TabTypeOK
    <3> QED BY <1>14, <1>15, <2>1, <2>2, <3>1 DEF EnableFails
  <2>3. CASE ~driver[d].lifetime
    <3>1. \A e \in Drivers : driver'[e].lifetime = driver[e].lifetime BY <1>1, <2>1, <2>3 DEF TabTypeOK, DriverStates
    <3> QED BY <1>12, <1>15, <2>1, <2>3, <3>1 DEF EnableFails
  <2> QED BY <2>2, <2>3
<1>16. ASSUME NEW d \in Drivers, ReleaseLifetime(d) PROVE Stays /\ Tracks
  <2>1. \A e \in Drivers : e # d => driver'[e] = driver[e] BY <1>1, <1>16 DEF ReleaseLifetime, TabTypeOK
  <2> QED BY <1>14, <1>16, <2>1 DEF ReleaseLifetime, sessionVars
<1>17. CASE Evaluated
  <2>1. turn[Op] = "evaluating" /\ turn' = [turn EXCEPT ![Op] = "releasing"] /\ Op \in Users /\ Op \notin Drivers
        /\ UNCHANGED <<driver, depth, tracking>>
    BY <1>17, NumbersAre DEF Evaluated, Enqueue, sessionVars
  <2>2. turn'[Op] = "releasing" /\ \A v \in Users : v # Op => turn'[v] = turn[v] BY <1>1, <2>1 DEF TabTypeOK
  <2>3. (InSession(Op))' /\ InSession(Op) BY <2>1, <2>2 DEF InSession, Holds, Releases
  <2>4. Sessions' = Sessions BY <1>4, <2>1, <2>2, <2>3
  <2> QED BY <2>1, <2>4
<1>18. ASSUME NEW u \in Tools, ToolAsks(u) \/ ToolEnablesPage(u) \/ ToolDone(u) PROVE Stays /\ Tracks
  <2>1. UNCHANGED <<driver, depth, tracking>> /\ u \in Users
        /\ (turn' = turn \/ \E next \in Turns : turn' = [turn EXCEPT ![u] = next])
    BY <1>18, NumbersAre DEF ToolAsks, ToolEnablesPage, ToolDone, Enqueue, sessionVars, driverVars, Turns
  <2>2. \A v \in Users : v # u => turn'[v] = turn[v] BY <1>1, <2>1 DEF TabTypeOK
  <2>3. Sessions' = Sessions BY <1>4, <1>18, <2>1, <2>2
  <2> QED BY <2>1, <2>3
<1>19. CASE MakeDriver
  <2>1. PICK d \in Drivers : /\ driver[d].phase = "none" /\ Install /\ Enqueue(d, "acquiring")
                             /\ driver' = [driver EXCEPT ![d].phase = "acquiring"]
    BY <1>19 DEF MakeDriver
  <2>2. turn[d] = "idle" /\ d \in Users BY <1>1, <2>1, DriverIdle, NumbersAre
  <2>3. \A e \in Drivers : driver'[e].lifetime = driver[e].lifetime BY <1>1, <2>1 DEF TabTypeOK, DriverStates
  <2>4. turn' = [turn EXCEPT ![d] = "acquiring"] /\ Looked BY <2>1 DEF Enqueue
  <2>5. Sessions' = Sessions BY <1>6, <2>2, <2>3, <2>4
  <2>6. depth' = depth /\ tracking' = IF tracking = 0 THEN Current ELSE tracking BY <1>19, <2>1 DEF MakeDriver, Install
  <2> QED BY <2>4, <2>5, <2>6
<1>20. CASE StartEvaluation
  <2>1. /\ turn[Op] = "idle" /\ turn' = [turn EXCEPT ![Op] = "acquiring"] /\ Looked /\ Op \in Users
        /\ UNCHANGED <<driver, depth>> /\ tracking' = IF tracking = 0 THEN Current ELSE tracking
    BY <1>20, NumbersAre DEF StartEvaluation, Enqueue, Install
  <2>2. Sessions' = Sessions BY <1>6, <2>1
  <2> QED BY <2>1, <2>2
<1>21. CASE ReleaseEntry
  <2>1. \A e \in Drivers : driver'[e].lifetime = driver[e].lifetime BY <1>1, <1>21 DEF ReleaseEntry, TabTypeOK, DriverStates
  <2> QED BY <1>12, <1>21, <2>1 DEF ReleaseEntry, managerVars, sessionVars
<1>22. CASE Remember \/ Navigate \/ UNCHANGED tabVars
  <2>1. UNCHANGED <<turn, depth, tracking, driver>>
    BY <1>22 DEF Remember, Navigate, tabVars, managerVars, sessionVars, driverVars
  <2> QED BY <1>12, <2>1
<1> HIDE DEF Stays, Leaves, Tracks
<1>23. Stays => Depth OBVIOUS
<1> HIDE DEF Depth
<1> QED BY <1>7, <1>8, <1>9, <1>11, <1>13, <1>15, <1>16, <1>17, <1>18, <1>19, <1>20, <1>21, <1>22, <1>23
    DEF TabNext, TabProgress, UserSteps

\* The tab's record has the Page domain only while the debugger is attached with it, and a driver
\* that may be used has it.
PagesFit ==
  /\ table # 0 => (enabled[table] => attached /\ pageEnabled)
  /\ \A d \in Drivers : Usable(d) => pageEnabled

\* A driver that may be used has its lifetime, so that it has the session and the debugger.
LEMMA UsableHolds ==
  ASSUME TabInv, LifetimesFit, DepthFits, NEW d \in Drivers, Usable(d)
  PROVE  Holds(d) /\ depth # 0
<1>1. Holds(d) BY DEF Usable, LifetimesFit, Holds
<1>2. d \in Sessions BY <1>1, NumbersAre DEF Sessions, InSession
<1>3. Sessions \in SUBSET Users BY DEF Sessions
<1>4. Cardinality(Sessions) \in Nat /\ Cardinality(Sessions) # 0 BY <1>2, <1>3, CountIs
<1> QED BY <1>1, <1>4 DEF DepthFits, TabInv, TabTypeOK

\* The session stays as deep as it has holders, and a driver that lives keeps its lifetime.
LEMMA SessionsKept ==
  ASSUME TabInv, TabInv', Undetached, LifetimesFit, DepthFits, [TabNext]_tabVars, ~BrowserDetaches
  PROVE  LifetimesFit' /\ DepthFits'
<1>1. TabTypeOK /\ QueuesFit /\ DriversFit /\ depth \in Nat BY DEF TabInv, TabTypeOK
<1>2. ASSUME NEW d \in Drivers, driver'[d].phase \in {"enabling", "ready"}, ~driver'[d].disposed PROVE driver'[d].lifetime
  BY <1>1, <1>2, DriverGoes DEF LifetimesFit
<1>3. Sessions \in SUBSET Users /\ Sessions' \in SUBSET Users BY DEF Sessions
<1>4. Cardinality(Sessions) \in Nat /\ Cardinality(Sessions') \in Nat BY <1>3, CountIs
<1>5. ASSUME Sessions' = Sessions, depth' = depth PROVE DepthFits' BY <1>5 DEF DepthFits
<1>6. ASSUME NEW u \in Users, Sessions' \subseteq Sessions \cup {u}, depth' = depth + 1 PROVE DepthFits'
  <2>1. Cardinality(Sessions \cup {u}) <= Cardinality(Sessions) + 1
    <3>1. CASE u \in Sessions
      <4>1. Sessions \cup {u} = Sessions BY <3>1
      <4>2. Cardinality(Sessions \cup {u}) = Cardinality(Sessions) BY <4>1
      <4> QED BY <1>4, <4>2
    <3>2. CASE u \notin Sessions BY <1>3, <1>4, <3>2, CountIs
    <3> QED BY <3>1, <3>2
  <2>2. Sessions \cup {u} \in SUBSET Users BY <1>3
  <2>3. Cardinality(Sessions') <= Cardinality(Sessions \cup {u}) /\ Cardinality(Sessions \cup {u}) \in Nat
    BY <1>6, <2>2, CountIs
  <2> QED BY <1>1, <1>4, <1>6, <2>1, <2>3 DEF DepthFits
<1>7. ASSUME NEW u \in Sessions, Sessions' = Sessions \ {u}, depth' = IF depth = 0 THEN 0 ELSE depth - 1 PROVE DepthFits'
  <2>1. Cardinality(Sessions') = Cardinality(Sessions) - 1 BY <1>3, <1>7, CountIs
  <2> QED BY <1>1, <1>4, <1>7, <2>1 DEF DepthFits
<1>8. DepthFits' BY <1>5, <1>6, <1>7, SessionGoes
<1> QED BY <1>2, <1>8 DEF LifetimesFit

\* What a step does to the Page domain.
LEMMA PageGoes ==
  ASSUME TabTypeOK, QueuesFit, DriversFit, [TabNext]_tabVars, ~BrowserDetaches
  PROVE  \/ EnsuresPage /\ attached' = attached
         \/ \E u \in Users : Detached(u)
         \/ /\ UNCHANGED <<pageEnabled, enabled>> /\ (Looked \/ UNCHANGED table) /\ (attached => attached')
            /\ \A d \in Drivers : ~EnablePage(d)
<1> DEFINE Goal == \/ EnsuresPage /\ attached' = attached
                   \/ \E u \in Users : Detached(u)
                   \/ /\ UNCHANGED <<pageEnabled, enabled>> /\ (Looked \/ UNCHANGED table) /\ (attached => attached')
                      /\ \A d \in Drivers : ~EnablePage(d)
<1> SUFFICES Goal OBVIOUS
<1>1. ASSUME NEW d \in Drivers, EnablePage(d) PROVE Goal BY <1>1 DEF EnablePage
<1>2. SUFFICES ASSUME \A d \in Drivers : ~EnablePage(d) PROVE Goal BY <1>1
<1>3. ASSUME NEW u \in Users, UserSteps(u) PROVE Goal
  <2>1. CASE AcquireHeld(u) \/ Attached(u)
    BY <1>2, <2>1 DEF AcquireHeld, Attached, Granted, chromeVars
  <2>2. CASE AcquireFirst(u) \/ AttachFails(u) BY <1>2, <2>2 DEF AcquireFirst, AttachFails, chromeVars
  <2>3. CASE ReleaseNothing(u) \/ ReleaseHeld(u) BY <1>2, <2>3 DEF ReleaseNothing, ReleaseHeld, chromeVars
  <2> QED BY <1>3, <2>1, <2>2, <2>3 DEF UserSteps
<1>4. ASSUME UNCHANGED chromeVars, (\E u \in Users, step \in {"acquiring", "releasing"} : Enqueue(u, step)) PROVE Goal
  BY <1>2, <1>4 DEF Enqueue, chromeVars
<1>5. ASSUME NEW d \in Drivers, EnableFails(d) \/ ReleaseLifetime(d) PROVE Goal
  <2>1. d \in Users /\ UNCHANGED chromeVars BY <1>5, NumbersAre DEF EnableFails, ReleaseLifetime
  <2>2. CASE Enqueue(d, "releasing") BY <1>4, <2>1, <2>2
  <2>3. CASE Looked /\ UNCHANGED enabled BY <1>2, <2>1, <2>3 DEF chromeVars
  <2> QED BY <1>5, <2>2, <2>3 DEF EnableFails, ReleaseLifetime
<1>6. CASE MakeDriver
  <2>1. PICK d \in Drivers : Enqueue(d, "acquiring") BY <1>6 DEF MakeDriver
  <2> QED BY <1>4, <1>6, <2>1, NumbersAre DEF MakeDriver
<1>7. CASE StartEvaluation \/ Evaluated BY <1>4, <1>7, NumbersAre DEF StartEvaluation, Evaluated
<1>8. ASSUME NEW u \in Tools, ToolAsks(u) \/ ToolDone(u) PROVE Goal BY <1>4, <1>8, NumbersAre DEF ToolAsks, ToolDone
<1>9. CASE \E u \in Tools : ToolEnablesPage(u) BY <1>9 DEF ToolEnablesPage
<1>10. CASE Remember \/ ReleaseEntry \/ Navigate \/ UNCHANGED tabVars
  <2>1. UNCHANGED <<attached, pageEnabled, enabled, table>>
    BY <1>10 DEF Remember, ReleaseEntry, Navigate, tabVars, chromeVars, managerVars
  <2> QED BY <1>2, <2>1
<1> QED BY <1>2, <1>3, <1>5, <1>6, <1>7, <1>8, <1>9, <1>10 DEF TabNext, TabProgress

\* The Page domain stays with the record that has it.
LEMMA PagesKept ==
  ASSUME TabInv, TabInv', Undetached, LifetimesFit, DepthFits, PagesFit, [TabNext]_tabVars, ~BrowserDetaches
  PROVE  PagesFit'
<1>1. /\ TabTypeOK /\ QueuesFit /\ DriversFit /\ RecordsFit /\ table \in {0} \cup TabRecords /\ 0 \notin TabRecords
      /\ enabled \in [TabRecords -> BOOLEAN] /\ attached \in BOOLEAN /\ pageEnabled \in BOOLEAN /\ records \in Nat
  BY NumbersAre DEF TabInv, TabTypeOK
<1>2. ASSUME NEW d \in Drivers, Usable(d)' PROVE Usable(d) \/ EnablePage(d)
  <2>1. ~driver[d].closed BY DEF Undetached, NobodyClosed
  <2> QED BY <1>1, <1>2, <2>1, DriverGoes DEF Usable
<1>3. ASSUME Looked
      PROVE  /\ table' \in TabRecords /\ table' = Current
             /\ enabled[table'] => attached /\ pageEnabled
  <2>1. table' = Current /\ table' \in TabRecords /\ table' \in Nat BY <1>1, <1>3, LookedAt, NumbersAre
  <2>2. CASE table = 0
    <3>1. table' > records BY <1>1, <1>3, <2>1, <2>2, LookedAt
    <3> QED BY <1>1, <2>1, <3>1 DEF RecordsFit
  <2>3. CASE table # 0
    <3>1. table' = table BY <1>1, <1>3, <2>3, LookedAt
    <3> QED BY <2>1, <2>3, <3>1 DEF PagesFit
  <2> QED BY <2>1, <2>2, <2>3
<1>4. NobodyClosed' BY <1>1, ElsewhereIs DEF Undetached, NobodyClosed
<1>5. CASE EnsuresPage /\ attached' = attached
  <2>1. Looked /\ (enabled[Current] \/ attached) /\ enabled' = [enabled EXCEPT ![Current] = TRUE]
        /\ pageEnabled' = (attached /\ (pageEnabled \/ ~enabled[Current]))
    BY <1>5 DEF EnsuresPage
  <2>2. PICK c \in TabRecords : c = Current BY <1>3, <2>1
  <2>3. enabled[c] => attached /\ pageEnabled BY <1>3, <2>1, <2>2
  <2>4. attached /\ pageEnabled' BY <1>1, <2>1, <2>2, <2>3
  <2> QED BY <1>5, <2>4 DEF PagesFit
<1>6. ASSUME NEW u \in Users, Detached(u) PROVE PagesFit'
  <2>1. table' = 0 /\ driver' = driver BY <1>6 DEF Detached
  <2>2. \A v \in Users : ~Holds(v)
    BY <1>6, DetachedUndetached, <1>4 DEF Undetached
  <2>3. \A d \in Drivers : ~Usable(d)
    BY <2>2, UsableHolds, NumbersAre
  <2>4. \A d \in Drivers : ~(Usable(d))' BY <2>1, <2>3 DEF Usable
  <2> QED BY <2>1, <2>4 DEF PagesFit
<1>7. CASE /\ UNCHANGED <<pageEnabled, enabled>> /\ (Looked \/ UNCHANGED table) /\ (attached => attached')
           /\ \A d \in Drivers : ~EnablePage(d)
  <2>1. \A d \in Drivers : (Usable(d))' => pageEnabled' BY <1>2, <1>7 DEF PagesFit
  <2>2. table' # 0 => (enabled'[table'] => attached' /\ pageEnabled') BY <1>3, <1>7 DEF PagesFit
  <2> QED BY <2>1, <2>2 DEF PagesFit
<1> QED BY <1>1, <1>5, <1>6, <1>7, PageGoes

\* A snapshot is of a driver that is ready; while the driver may be used its session listens, and
\* a snapshot of the current generation, heard of at the tab's record, is of the current document.
RefFits(r) ==
  r # NoRef =>
    /\ r.driver \in Drivers /\ driver[r.driver].phase = "ready"
    /\ Usable(r.driver) => tracking # 0 /\ r.generation <= generation
    /\ r.document # 0 /\ Usable(r.driver) /\ tracking = table /\ r.generation = generation => r.document = document
RefsFit ==
  /\ RefFits(eval) /\ RefFits(ref)
  /\ ref # NoRef => ref.document # 0
  /\ turn[Op] # "idle" => eval # NoRef

\* A snapshot stays fresh, or its generation goes, or its driver, or the listeners.
LEMMA RefKept ==
  ASSUME TabInv, TabInv', Undetached, Undetached', LifetimesFit, LifetimesFit', DepthFits, DepthFits',
         PagesFit, [TabNext]_tabVars, ~BrowserDetaches,
         UNCHANGED <<document, generation>> \/ Navigate,
         NEW r \in RefStates, RefFits(r)
  PROVE  (RefFits(r))'
<1> SUFFICES ASSUME r # NoRef PROVE (RefFits(r))' BY DEF RefFits
<1>1. /\ TabTypeOK /\ QueuesFit /\ DriversFit /\ RecordsFit /\ generation \in Nat /\ r.generation \in Nat
      /\ tracking \in Nat /\ table \in Nat /\ records \in Nat
  BY NumbersAre DEF TabInv, TabTypeOK, RefStates
<1>2. r.driver \in Drivers /\ driver[r.driver].phase = "ready" BY DEF RefFits
<1>3. PICK d \in Drivers : d = r.driver BY <1>2
<1>4. driver'[d].phase = "ready" BY <1>1, <1>2, <1>3, DriverGoes
<1>5. (Usable(d))' => Usable(d)
  <2>1. ~driver[d].closed BY DEF Undetached, NobodyClosed
  <2> QED BY <1>1, <1>2, <1>3, <2>1, DriverGoes DEF Usable
<1>6. (Usable(r.driver))' <=> (Usable(d))' BY <1>3 DEF Usable
<1>7. generation <= generation' /\ generation' \in Nat
  <2>1. Navigate => generation' = generation \/ generation' = generation + 1 BY DEF Navigate
  <2> QED BY <1>1, <2>1
<1>8. ASSUME (Usable(d))'
      PROVE  /\ tracking # 0 /\ r.generation <= generation /\ Usable(d)
             /\ tracking' = tracking
  <2>1. Usable(d) /\ tracking # 0 /\ r.generation <= generation BY <1>3, <1>5, <1>8 DEF RefFits
  <2>2. depth' # 0
    <3>1. (Holds(d))' BY <1>8 DEF Usable, LifetimesFit, Holds
    <3>2. d \in Sessions' BY <3>1, NumbersAre DEF Sessions, InSession
    <3>3. Sessions' \in SUBSET Users BY DEF Sessions
    <3>4. Cardinality(Sessions') \in Nat /\ Cardinality(Sessions') # 0 BY <3>2, <3>3, CountIs
    <3> QED BY <3>4 DEF DepthFits, TabInv, TabTypeOK
  <2>3. tracking' = tracking BY <2>1, <2>2, SessionGoes
  <2> QED BY <2>1, <2>3
<1>9. ASSUME (Usable(d))', tracking' = table', r.document # 0, r.generation = generation' PROVE r.document = document'
  <2>1. tracking # 0 /\ r.generation <= generation /\ Usable(d) /\ tracking' = tracking BY <1>8, <1>9
  <2>2. tracking = table
    <3>1. tracking <= records BY <1>1 DEF RecordsFit
    <3>2. table' = table \/ table' = 0 \/ table' = records + 1 BY <1>1, CountsAre, LookedAt
    <3> QED BY <1>1, <1>9, <2>1, <3>1, <3>2
  <2>3. CASE UNCHANGED <<document, generation>> BY <1>3, <1>9, <2>1, <2>2, <2>3 DEF RefFits
  <2>4. CASE Navigate
    <3>1. attached
      <4>1. Holds(d) BY <2>1, UsableHolds
      <4>2. record[d] \in TabRecords /\ refCount[record[d]] > 0 BY <4>1, HolderCounted, NumbersAre
      <4> QED BY <4>2 DEF Undetached, BusyFits, Busy
    <3>2. pageEnabled BY <2>1 DEF PagesFit
    <3>3. Hears BY <1>1, <2>1, <2>2, <3>1, <3>2 DEF Hears
    <3>4. generation' = generation + 1 BY <2>4, <3>3 DEF Navigate
    <3> QED BY <1>1, <1>9, <2>1, <3>4
  <2> QED BY <2>3, <2>4
<1>10. (Usable(d))' => tracking' # 0 /\ r.generation <= generation' BY <1>1, <1>7, <1>8
<1> QED BY <1>2, <1>3, <1>4, <1>6, <1>9, <1>10 DEF RefFits

\* What a step does to the document, the snapshots and the evaluation.
LEMMA RefsGo ==
  ASSUME TabTypeOK, DriversFit, [TabNext]_tabVars, ~BrowserDetaches
  PROVE  \/ StartEvaluation \/ Evaluated \/ Remember
         \/ /\ UNCHANGED <<eval, ref>> /\ (UNCHANGED <<document, generation>> \/ Navigate)
            /\ turn'[Op] # "idle" => turn[Op] # "idle"
<1> DEFINE Same == /\ UNCHANGED <<eval, ref>> /\ (UNCHANGED <<document, generation>> \/ Navigate)
                   /\ turn'[Op] # "idle" => turn[Op] # "idle"
<1>1. turn \in [Users -> Turns] /\ Op \in Users /\ Op \notin Drivers /\ Op \notin Tools BY NumbersAre DEF TabTypeOK
<1>2. ASSUME NEW u \in Users, turn[u] # "idle", NEW next, turn' = [turn EXCEPT ![u] = next]
      PROVE  turn'[Op] # "idle" => turn[Op] # "idle"
  BY <1>1, <1>2
<1>3. ASSUME NEW u \in Users, UserSteps(u) PROVE Same
  <2>1. CASE AcquireHeld(u) \/ Attached(u)
    <3>1. turn[u] # "idle" /\ UNCHANGED <<eval, ref, document, generation>>
      BY <2>1 DEF AcquireHeld, Attached, HasTurn, Granted, chromeVars
    <3>2. PICK next : turn' = [turn EXCEPT ![u] = next] BY <2>1 DEF AcquireHeld, Attached, Granted, Continues
    <3> QED BY <1>2, <3>1, <3>2
  <2>2. CASE AcquireFirst(u) \/ AttachFails(u)
    <3>1. turn[u] # "idle" /\ UNCHANGED <<eval, ref, document, generation>>
      BY <2>2 DEF AcquireFirst, AttachFails, HasTurn, chromeVars, sessionVars, driverVars
    <3>2. PICK next : turn' = [turn EXCEPT ![u] = next] BY <2>2 DEF AcquireFirst, AttachFails, EndTurn
    <3> QED BY <1>2, <3>1, <3>2
  <2>3. CASE ReleaseNothing(u) \/ ReleaseHeld(u) \/ Detached(u)
    <3>1. turn[u] # "idle" /\ UNCHANGED <<eval, ref, document, generation>>
      BY <2>3 DEF ReleaseNothing, ReleaseHeld, Detached, HasTurn, chromeVars
    <3>2. PICK next : turn' = [turn EXCEPT ![u] = next] BY <2>3 DEF ReleaseNothing, ReleaseHeld, Detached, EndTurn
    <3> QED BY <1>2, <3>1, <3>2
  <2> QED BY <1>3, <2>1, <2>2, <2>3 DEF UserSteps
<1>4. ASSUME NEW d \in Drivers, \/ EnablePage(d) \/ EnableFails(d) \/ ReleaseLifetime(d) PROVE Same
  <2>1. UNCHANGED <<eval, ref, document, generation>>
        /\ (turn' = turn \/ \E step \in {"acquiring", "releasing"} : turn' = [turn EXCEPT ![d] = step])
    BY <1>4 DEF EnablePage, EnableFails, ReleaseLifetime, Enqueue, chromeVars, sessionVars
  <2>2. turn'[Op] = turn[Op] BY <1>1, <2>1
  <2> QED BY <2>1, <2>2
<1>5. ASSUME NEW d \in Drivers, Enqueue(d, "acquiring"), MakeDriver PROVE Same
  <2>1. turn'[Op] = turn[Op] BY <1>1, <1>5 DEF Enqueue
  <2> QED BY <1>5, <2>1 DEF MakeDriver, chromeVars
<1>6. ASSUME NEW u \in Tools, ToolAsks(u) \/ ToolEnablesPage(u) \/ ToolDone(u) PROVE Same
  <2>1. UNCHANGED <<eval, ref, document, generation>>
        /\ (turn' = turn \/ \E step \in {"acquiring", "releasing"} : turn' = [turn EXCEPT ![u] = step])
    BY <1>6 DEF ToolAsks, ToolEnablesPage, ToolDone, Enqueue, chromeVars, sessionVars, driverVars
  <2>2. turn'[Op] = turn[Op] BY <1>1, <2>1
  <2> QED BY <2>1, <2>2
<1>7. CASE ReleaseEntry \/ Navigate \/ UNCHANGED tabVars
  <2>1. UNCHANGED <<eval, ref, turn>> /\ (UNCHANGED <<document, generation>> \/ Navigate)
    BY <1>7 DEF ReleaseEntry, Navigate, tabVars, chromeVars, managerVars, sessionVars, driverVars
  <2> QED BY <2>1
<1>8. MakeDriver => Same BY <1>5 DEF MakeDriver
<1> QED BY <1>3, <1>4, <1>6, <1>7, <1>8 DEF TabNext, TabProgress

\* Every snapshot stays one that may be relied on.
LEMMA RefsKept ==
  ASSUME TabInv, TabInv', Undetached, Undetached', LifetimesFit, LifetimesFit', DepthFits, DepthFits',
         PagesFit, RefsFit, [TabNext]_tabVars, ~BrowserDetaches
  PROVE  RefsFit'
<1>1. /\ TabTypeOK /\ QueuesFit /\ DriversFit /\ eval \in RefStates /\ ref \in RefStates /\ generation \in Nat
      /\ table \in Nat /\ tracking \in Nat /\ document \in Nat
  BY NumbersAre DEF TabInv, TabTypeOK
<1>2. PICK e \in RefStates : e = eval BY <1>1
<1>3. PICK r \in RefStates : r = ref BY <1>1
<1>4. RefFits(e) /\ RefFits(r) BY <1>2, <1>3 DEF RefsFit
<1>5. ASSUME UNCHANGED <<document, generation>> \/ Navigate PROVE (RefFits(e))' /\ (RefFits(r))'
  BY <1>4, <1>5, RefKept
<1>6. CASE StartEvaluation
  <2>1. /\ entry \in Drivers /\ Usable(entry) /\ Install /\ Looked
        /\ eval' = [driver |-> entry, generation |-> generation, document |-> 0]
        /\ UNCHANGED <<document, generation, ref, driver>>
    BY <1>6, <1>1 DEF StartEvaluation, Enqueue, chromeVars, TabTypeOK
  <2>2. tracking' # 0
    <3>1. Current # 0 BY <1>1, <2>1, LookedAt, NumbersAre
    <3> QED BY <2>1, <3>1 DEF Install
  <2>3. driver'[entry].phase = "ready" BY <2>1 DEF Usable
  <2>4. (RefFits(eval))'
    <3>1. eval'.driver = entry /\ eval'.generation = generation' /\ eval'.document = 0 BY <2>1
    <3> QED BY <1>1, <2>1, <2>2, <2>3, <3>1 DEF RefFits
  <2>5. eval' # NoRef
    <3>1. eval'.driver # 0 BY <2>1, NumbersAre
    <3> QED BY <3>1 DEF NoRef
  <2>6. (RefFits(r))' BY <1>5, <2>1
  <2>7. (RefFits(ref))' BY <1>3, <2>1, <2>6 DEF RefFits
  <2> QED BY <2>1, <2>4, <2>5, <2>7 DEF RefsFit
<1>7. CASE Evaluated
  <2>1. /\ turn[Op] = "evaluating" /\ UNCHANGED <<document, generation, ref, driver, tracking>>
        /\ eval' = [eval EXCEPT !.document = IF attached /\ Usable(eval.driver) THEN document ELSE 0]
    BY <1>7 DEF Evaluated, chromeVars, sessionVars
  <2>2. eval # NoRef BY <2>1 DEF RefsFit
  <2>3. eval.driver \in Drivers BY <2>2 DEF RefsFit, RefFits
  <2>4. (RefFits(e))' /\ (RefFits(r))' BY <1>5, <2>1
  <2>5. /\ eval'.driver = e.driver /\ eval'.generation = e.generation
        /\ eval'.document = IF attached /\ Usable(e.driver) THEN document ELSE 0
    BY <1>2, <2>1 DEF RefStates
  <2>6. eval' # NoRef /\ e # NoRef
    <3>1. eval'.driver # 0 BY <1>2, <2>3, <2>5, NumbersAre
    <3> QED BY <1>2, <2>2, <3>1 DEF NoRef
  <2>7. (RefFits(eval))' BY <2>1, <2>4, <2>5, <2>6 DEF RefFits
  <2>8. (RefFits(ref))' BY <1>3, <2>1, <2>4 DEF RefFits
  <2> QED BY <2>1, <2>6, <2>7, <2>8 DEF RefsFit
<1>8. CASE Remember
  <2>1. /\ UNCHANGED <<document, generation, turn>> /\ eval' = NoRef /\ turn[Op] = "idle" /\ eval # NoRef
        /\ ref' = IF eval.document # 0 /\ eval.generation = generation THEN eval ELSE ref
    BY <1>8 DEF Remember, chromeVars, managerVars, sessionVars
  <2>2. (RefFits(e))' /\ (RefFits(r))' BY <1>5, <2>1
  <2>3. (RefFits(eval))' BY <2>1 DEF RefFits
  <2>4. CASE ref' = eval /\ eval.document # 0
    <3>1. (RefFits(ref))' BY <1>2, <2>2, <2>4 DEF RefFits
    <3> QED BY <2>1, <2>3, <2>4, <3>1 DEF RefsFit
  <2>5. CASE ref' = ref
    <3>1. (RefFits(ref))' BY <1>3, <2>2, <2>5 DEF RefFits
    <3> QED BY <2>1, <2>3, <2>5, <3>1 DEF RefsFit
  <2> QED BY <2>1, <2>4, <2>5
<1>9. CASE /\ UNCHANGED <<eval, ref>> /\ (UNCHANGED <<document, generation>> \/ Navigate)
           /\ turn'[Op] # "idle" => turn[Op] # "idle"
  <2>1. (RefFits(e))' /\ (RefFits(r))' BY <1>5, <1>9
  <2>2. (RefFits(eval))' BY <1>2, <1>9, <2>1 DEF RefFits
  <2>3. (RefFits(ref))' BY <1>3, <1>9, <2>1 DEF RefFits
  <2> QED BY <1>9, <2>2, <2>3 DEF RefsFit
<1> QED BY <1>1, <1>6, <1>7, <1>8, <1>9, RefsGo

\* The invariant of the drivers' snapshots until the browser detaches.
Fresh == LifetimesFit /\ DepthFits /\ PagesFit /\ RefsFit
FreshInv == SoundInv /\ (tabSpent.detaches = 0 => Fresh)

\* It is one.
LEMMA FreshInvariant == TabSpec => []FreshInv
<1>1. TabInit => FreshInv
  <2> SUFFICES ASSUME TabInit PROVE FreshInv OBVIOUS
  <2>1. SoundInv BY TabStarts, UndetachedStarts DEF SoundInv
  <2>2. \A u \in Users : turn[u] = "idle" BY DEF TabInit
  <2>3. \A d \in Drivers : driver[d].phase = "none" /\ ~driver[d].lifetime BY DEF TabInit
  <2>4. LifetimesFit /\ PagesFit BY <2>3 DEF TabInit, LifetimesFit, PagesFit, Usable
  <2>5. DepthFits
    <3>1. Sessions = {} BY <2>2, <2>3 DEF Sessions, InSession, Holds, Releases
    <3>2. Cardinality(Sessions) = 0 BY <3>1, FS_EmptySet
    <3> QED BY <3>2 DEF TabInit, DepthFits
  <2>6. RefsFit BY <2>2, NumbersAre DEF TabInit, RefsFit, RefFits
  <2> QED BY <2>1, <2>4, <2>5, <2>6 DEF FreshInv, Fresh
<1>2. FreshInv /\ [TabNext]_tabVars => FreshInv'
  <2> SUFFICES ASSUME FreshInv, [TabNext]_tabVars PROVE FreshInv' OBVIOUS
  <2>1. SoundInv /\ TabInv BY DEF FreshInv, SoundInv
  <2>2. TabInv' BY <2>1, TypesKept, QueuesKept, DriversKept, RecordsKept, CountedKept DEF TabInv
  <2>3. ASSUME tabSpent'.detaches = 0 PROVE Undetached' /\ Fresh'
    <3>1. tabSpent.detaches = 0 /\ ~BrowserDetaches BY <2>1, <2>3, DetachesKept DEF TabInv
    <3>2. Undetached /\ LifetimesFit /\ DepthFits /\ PagesFit /\ RefsFit BY <3>1 DEF FreshInv, SoundInv, Fresh
    <3>3. Undetached' BY <2>1, <2>2, <2>3, <3>2, UndetachedKept
    <3>4. LifetimesFit' /\ DepthFits' BY <2>1, <2>2, <3>1, <3>2, SessionsKept
    <3>5. PagesFit' BY <2>1, <2>2, <3>1, <3>2, PagesKept
    <3>6. RefsFit' BY <2>1, <2>2, <3>1, <3>2, <3>3, <3>4, RefsKept
    <3> QED BY <3>3, <3>4, <3>5, <3>6 DEF Fresh
  <2> QED BY <2>2, <2>3 DEF FreshInv, SoundInv
<1> QED BY <1>1, <1>2, PTL DEF TabSpec

\* Until the browser detaches, a reference that a driver may act on, of the generation that is
\* current, is of the document that is current, though drivers overlap at records that are
\* deleted, and the session's listeners go with its last holder and come back with the next
\* evaluation (captureSnapshot, installNavigationTracking, release); unless the listeners
\* stay at a record that was deleted.
THEOREM FreshReferences == TabSpec => []FreshUntilDetached
<1>1. TabSpec => []FreshInv BY FreshInvariant
<1>2. FreshInv => FreshUntilDetached
  <2> SUFFICES ASSUME FreshInv, tabSpent.detaches = 0, tracking \in {0, table},
                      ref # NoRef, Usable(ref.driver), ref.generation = generation
               PROVE  ref.document = document
    BY DEF FreshUntilDetached, FreshRefFits
  <2>1. RefFits(ref) /\ ref.document # 0 BY DEF FreshInv, Fresh, RefsFit
  <2> QED BY <2>1 DEF RefFits
<1> QED BY <1>1, <1>2, PTL

-----------------------------------------------------------------------------
(* Screencasts *)

CastStates == [id : Nat, phase : {"none", "starting", "active", "stopping"},
  step : {"none", "acquire", "ensure", "begin", "stopping", "releasing"}, acquired : BOOLEAN, started : BOOLEAN,
  closed : BOOLEAN, reason : {"none"} \cup Reasons, aborted : BOOLEAN, frames : Nat]

CastTypeOK ==
  /\ cast \in CastStates /\ castCount \in 0..MaxRecordings
  /\ castEngine \in [disposed : BOOLEAN, transportClosed : BOOLEAN, transport : BOOLEAN]
  /\ casting \in Nat /\ castHolder \in Nat /\ castAck \in Nat
  /\ castDone \in [1..MaxRecordings -> {"none"} \cup Reasons]

\* A phase and what its recording awaits; the current recording is the last one begun.
CastStepFits(c) ==
  /\ c.phase = "none" => c = NoCast
  /\ c.phase = "starting" <=> c.step \in {"acquire", "ensure", "begin"}
  /\ c.phase = "stopping" <=> c.step \in {"stopping", "releasing"}

\* What Chrome has of the engine is the current recording's, which knows of it until it
\* has ended it; a transport that is closed left nothing.
CastInv ==
  /\ CastTypeOK /\ CastStepFits(cast)
  /\ cast # NoCast => cast.id = castCount
  /\ \A n \in 1..MaxRecordings : castDone[n] # "none" => n <= castCount /\ n # cast.id
  /\ cast.closed => ~castEngine.transport
  /\ casting # 0 => /\ casting = cast.id /\ cast.started /\ castEngine.transport
                    /\ cast.step \in {"none", "stopping"}
  /\ castHolder # 0 => castHolder = cast.id /\ cast.acquired /\ castEngine.transport

\* A recording that is asked to stop (requestStop) stays itself: what it has begun in Chrome
\* is still to be ended.
Same(c, d) ==
  /\ d \in CastStates /\ CastStepFits(d) /\ d.id = c.id /\ d.phase # "none"
  /\ d.acquired = c.acquired /\ d.started = c.started /\ d.closed = c.closed
  /\ d.step \in {c.step, "none", "stopping"} \/ c.step \in {"acquire", "ensure"}
  /\ d.step = "releasing" => c.step = "releasing"

\* A stop that is requested leaves what the recording holds, and what still starts will stop.
LEMMA StopRequestedIs ==
  ASSUME NEW r \in CastStates, CastStepFits(r), r.phase # "none", NEW reason \in Reasons, NEW finish \in BOOLEAN
  PROVE  /\ Same(r, StopRequested(r, reason, finish))
         /\ finish /\ r.phase = "starting" => StopRequested(r, reason, finish).step = "stopping"
<1> DEFINE why == IF r.reason = "none" THEN reason ELSE r.reason
<1>0. why \in {"none"} \cup Reasons BY DEF CastStates
<1> HIDE DEF why
<1>1. CASE r.phase \notin {"starting", "active"} BY <1>1 DEF StopRequested, Same
<1>2. CASE r.phase = "starting" /\ ~finish
  <2> DEFINE d == [r EXCEPT !.reason = why]
  <2>1. StopRequested(r, reason, finish) = d BY <1>2 DEF StopRequested, why
  <2>2. d \in CastStates /\ d.phase = r.phase /\ d.step = r.step /\ d.id = r.id /\ d.acquired = r.acquired
        /\ d.started = r.started /\ d.closed = r.closed
    BY <1>0 DEF CastStates
  <2> HIDE DEF d
  <2> QED BY <1>2, <2>1, <2>2 DEF Same, CastStepFits
<1>3. CASE r.phase = "active" \/ (r.phase = "starting" /\ finish)
  <2> DEFINE d == [r EXCEPT !.reason = why, !.phase = "stopping", !.step = "stopping"]
  <2>1. StopRequested(r, reason, finish) = d BY <1>3 DEF StopRequested, why
  <2>2. d \in CastStates /\ d.phase = "stopping" /\ d.step = "stopping" /\ d.id = r.id /\ d.acquired = r.acquired
        /\ d.started = r.started /\ d.closed = r.closed
    BY <1>0 DEF CastStates
  <2> HIDE DEF d
  <2> QED BY <2>1, <2>2 DEF Same, CastStepFits
<1> QED BY <1>1, <1>2, <1>3

\* A step of start (CastContinues): the recording goes on as it should, or it stops.
LEMMA ContinuesIs ==
  ASSUME NEW r \in CastStates, CastStepFits(r), r.phase # "none", NEW next, Same(r, next), NEW failed,
         CastContinues(r, next, failed)
  PROVE  Same(r, cast') /\ (r.phase = "starting" => cast' = next \/ cast'.step = "stopping")
<1>1. FailReason \in Reasons BY DEF FailReason, Reasons
<1>2. /\ Same(r, StopRequested(r, FailReason, TRUE))
      /\ r.phase = "starting" => StopRequested(r, FailReason, TRUE).step = "stopping"
  BY <1>1, StopRequestedIs
<1> QED BY <1>2 DEF CastContinues

\* The current recording stays, and what Chrome has of it is still its own.
LEMMA CastStays ==
  ASSUME CastInv, cast # NoCast, NEW c \in CastStates, c.id = cast.id, CastStepFits(c), c.phase # "none", Same(c, cast'),
         castEngine' = castEngine, UNCHANGED <<castCount, castDone>>,
         castAck' \in Nat, c.closed = cast.closed,
         casting' = 0 \/ (c.started /\ casting' = cast.id /\ castEngine.transport /\ cast'.step \in {"none", "stopping"}),
         castHolder' = 0 \/ (c.acquired /\ castHolder' = cast.id /\ castEngine.transport)
  PROVE  CastInv'
<1>1. cast' # NoCast BY DEF Same, NoCast
<1>2. casting' \in Nat /\ castHolder' \in Nat BY DEF CastInv, CastTypeOK, CastStates
<1>3. CastTypeOK' BY <1>2 DEF CastInv, CastTypeOK, Same
<1> QED BY <1>1, <1>3 DEF CastInv, Same

\* Every step keeps the invariant.
LEMMA CastStep == CastInv /\ [CastNext]_castVars => CastInv'
<1> SUFFICES ASSUME CastInv, [CastNext]_castVars PROVE CastInv'
  OBVIOUS
<1> USE ScreencastAssumption
<1>1. /\ cast \in CastStates /\ castCount \in 0..MaxRecordings /\ MaxRecordings \in Nat
      /\ castEngine \in [disposed : BOOLEAN, transportClosed : BOOLEAN, transport : BOOLEAN]
      /\ casting \in Nat /\ castHolder \in Nat /\ castAck \in Nat
      /\ castDone \in [1..MaxRecordings -> {"none"} \cup Reasons] /\ CastStepFits(cast)
  BY DEF CastInv, CastTypeOK
<1>2. /\ cast.phase = "none" <=> cast = NoCast
      /\ NoCast.id = 0 /\ NoCast.phase = "none" /\ NoCast.step = "none"
  BY <1>1 DEF CastStepFits, NoCast
<1>3. /\ casting = 0 \/ (cast.started /\ casting = cast.id /\ castEngine.transport /\ cast.step \in {"none", "stopping"})
      /\ castHolder = 0 \/ (cast.acquired /\ castHolder = cast.id /\ castEngine.transport)
      /\ cast.step = "releasing" => casting = 0
  BY DEF CastInv
<1>4. CASE CastStart
  <2> DEFINE c == [NoCast EXCEPT !.id = castCount + 1, !.phase = "starting", !.step = "acquire"]
  <2>0. castCount + 1 \in Nat /\ castCount + 1 \in 1..MaxRecordings BY <1>1, <1>4 DEF CastStart
  <2>1. c \in CastStates /\ c.id = castCount + 1 /\ c.phase = "starting" /\ c.step = "acquire" /\ ~c.closed
    <3>1. NoCast \in CastStates /\ ~NoCast.closed BY DEF NoCast, CastStates
    <3> QED BY <2>0, <3>1 DEF CastStates
  <2> HIDE DEF c
  <2>3. /\ castCount' = castCount + 1 /\ cast' = c
        /\ UNCHANGED <<castEngine, casting, castHolder, castAck, castDone>>
    BY <1>4 DEF CastStart, c
  <2>4. cast = NoCast /\ casting = 0 /\ castHolder = 0 BY <1>2, <1>3, <1>4 DEF CastStart
  <2>5. \A n \in 1..MaxRecordings : castDone[n] # "none" => n <= castCount BY DEF CastInv
  <2>6. CastTypeOK' BY <1>1, <2>0, <2>1, <2>3 DEF CastTypeOK
  <2>7. CastStepFits(c) BY <1>2, <2>1 DEF CastStepFits
  <2>8. \A n \in 1..MaxRecordings : castDone'[n] # "none" => n <= castCount' /\ n # cast'.id
    BY <1>1, <2>1, <2>3, <2>5
  <2> QED BY <2>1, <2>3, <2>4, <2>6, <2>7, <2>8 DEF CastInv
<1>5. CASE CastAcquired
  <2> DEFINE r == [cast EXCEPT !.acquired = castEngine.transport]
             next == [r EXCEPT !.step = "ensure"]
  <2>1. cast.step = "acquire" /\ cast.phase = "starting" /\ cast # NoCast BY <1>1, <1>2, <1>5 DEF CastAcquired, CastStepFits
  <2>2. r \in CastStates /\ r.id = cast.id /\ r.phase = cast.phase /\ r.step = cast.step /\ r.started = cast.started
        /\ r.closed = cast.closed /\ r.acquired = castEngine.transport
    BY <1>1 DEF CastStates
  <2>3. next \in CastStates /\ next.id = r.id /\ next.phase = r.phase /\ next.step = "ensure" /\ next.started = r.started
        /\ next.closed = r.closed /\ next.acquired = r.acquired
    BY <2>2 DEF CastStates
  <2>4. /\ castHolder' = IF castEngine.transport THEN cast.id ELSE castHolder
        /\ CastContinues(r, next, ~castEngine.transport)
        /\ UNCHANGED <<castCount, castEngine, casting, castAck, castDone>>
    BY <1>5 DEF CastAcquired
  <2> HIDE DEF r, next
  <2>5. CastStepFits(r) BY <2>1, <2>2, <1>2 DEF CastStepFits
  <2>6. Same(r, next) BY <2>1, <2>2, <2>3, <1>2 DEF CastStepFits, Same
  <2>7. Same(r, cast') BY <2>1, <2>2, <2>4, <2>5, <2>6, ContinuesIs
  <2>8. castHolder' = 0 \/ (r.acquired /\ castHolder' = cast.id /\ castEngine.transport)
    BY <1>1, <1>3, <2>2, <2>4
  <2> QED BY <1>1, <1>3, <2>1, <2>2, <2>4, <2>5, <2>7, <2>8, CastStays
<1>6. CASE PageEnabled
  <2> DEFINE next == [cast EXCEPT !.step = "begin"]
  <2>1. cast.step = "ensure" /\ cast.phase = "starting" /\ cast # NoCast BY <1>1, <1>2, <1>6 DEF PageEnabled, CastStepFits
  <2>2. next \in CastStates /\ next.id = cast.id /\ next.phase = cast.phase /\ next.step = "begin" /\ next.started = cast.started
        /\ next.closed = cast.closed /\ next.acquired = cast.acquired
    BY <1>1 DEF CastStates
  <2>3. CastContinues(cast, next, ~castEngine.transport) /\ UNCHANGED <<castCount, castEngine, casting, castHolder, castAck, castDone>>
    BY <1>6 DEF PageEnabled
  <2> HIDE DEF next
  <2>4. Same(cast, next) BY <2>1, <2>2, <1>2 DEF CastStepFits, Same
  <2>5. Same(cast, cast') BY <1>1, <2>1, <2>3, <2>4, ContinuesIs
  <2> QED BY <1>1, <1>3, <2>1, <2>3, <2>5, CastStays
<1>7. CASE CastBegun
  <2>0. PICK begun \in (IF castEngine.transport THEN BOOLEAN ELSE {FALSE}) :
          LET r == [cast EXCEPT !.started = begun] IN
          /\ casting' = IF begun THEN cast.id ELSE casting
          /\ CastContinues(r, [r EXCEPT !.phase = "active", !.step = "none"], ~begun)
    BY <1>7 DEF CastBegun
  <2> DEFINE r == [cast EXCEPT !.started = begun]
             next == [r EXCEPT !.phase = "active", !.step = "none"]
  <2>1. cast.step = "begin" /\ cast.phase = "starting" /\ cast # NoCast BY <1>1, <1>2, <1>7 DEF CastBegun, CastStepFits
  <2>2. r \in CastStates /\ r.id = cast.id /\ r.phase = cast.phase /\ r.step = cast.step /\ r.started = begun
        /\ r.closed = cast.closed /\ r.acquired = cast.acquired
    BY <1>1 DEF CastStates
  <2>3. next \in CastStates /\ next.id = r.id /\ next.phase = "active" /\ next.step = "none" /\ next.started = r.started
        /\ next.closed = r.closed /\ next.acquired = r.acquired
    BY <2>2 DEF CastStates
  <2>4. /\ casting' = IF begun THEN cast.id ELSE casting
        /\ CastContinues(r, next, ~begun)
        /\ UNCHANGED <<castCount, castEngine, castHolder, castAck, castDone>>
    BY <1>7, <2>0 DEF CastBegun
  <2> HIDE DEF r, next
  <2>5. CastStepFits(r) BY <2>1, <2>2, <1>2 DEF CastStepFits
  <2>6. Same(r, next) BY <2>1, <2>2, <2>3, <1>2 DEF CastStepFits, Same
  <2>7. Same(r, cast') /\ cast'.step \in {"none", "stopping"} BY <2>1, <2>2, <2>3, <2>4, <2>5, <2>6, ContinuesIs
  <2> QED BY <1>1, <1>3, <2>0, <2>1, <2>2, <2>4, <2>5, <2>7, CastStays
\* The recording is asked to stop, or left as it is, and what Chrome has stays.
<1>8. ASSUME NEW c \in CastStates, c.id = cast.id, c.phase = cast.phase, c.step = cast.step, c.acquired = cast.acquired,
             c.started = cast.started, c.closed = cast.closed, cast # NoCast, castAck' \in Nat,
             UNCHANGED <<castCount, castEngine, casting, castHolder, castDone>>,
             \/ cast' = c
             \/ \E reason \in Reasons : cast' = StopRequested(c, reason, FALSE)
      PROVE  CastInv'
  <2>1. CastStepFits(c) /\ c.phase # "none" BY <1>1, <1>2, <1>8 DEF CastStepFits
  <2>2. Same(c, c) BY <1>8, <2>1 DEF Same
  <2>3. \A reason \in Reasons : Same(c, StopRequested(c, reason, FALSE)) BY <2>1, StopRequestedIs
  <2>4. Same(c, cast') BY <1>8, <2>2, <2>3
  <2>5. casting # 0 => cast'.step \in {"none", "stopping"} BY <1>3, <1>8, <2>4 DEF Same
  <2> QED BY <1>1, <1>3, <1>8, <2>1, <2>4, <2>5, CastStays
<1>9. CASE CastStop
  <2>1. PICK reason \in {"user", "max-duration", "abort"} :
          /\ reason = "abort" => cast.phase \in {"starting", "active"} /\ ~cast.aborted
          /\ cast' = IF reason # "abort" THEN StopRequested(cast, reason, FALSE)
                     ELSE LET r == [cast EXCEPT !.aborted = TRUE, !.reason = "abort"] IN
                          IF cast.phase = "starting" THEN r ELSE StopRequested(r, "abort", FALSE)
    BY <1>9 DEF CastStop
  <2>2. cast # NoCast /\ UNCHANGED <<castCount, castEngine, casting, castHolder, castAck, castDone>> BY <1>9 DEF CastStop
  <2> DEFINE r == [cast EXCEPT !.aborted = TRUE, !.reason = "abort"]
  <2>3. r \in CastStates /\ r.id = cast.id /\ r.phase = cast.phase /\ r.step = cast.step /\ r.acquired = cast.acquired
        /\ r.started = cast.started /\ r.closed = cast.closed
    BY <1>1 DEF CastStates, Reasons
  <2>4. \/ cast' = StopRequested(cast, reason, FALSE)
        \/ cast' = r
        \/ cast' = StopRequested(r, "abort", FALSE)
    BY <2>1
  <2>5. reason \in Reasons /\ "abort" \in Reasons BY DEF Reasons
  <2> HIDE DEF r
  <2>6. CASE cast' = StopRequested(cast, reason, FALSE) BY <1>1, <1>8, <2>2, <2>5, <2>6
  <2>7. CASE cast' = r BY <1>1, <1>8, <2>2, <2>3, <2>7
  <2>8. CASE cast' = StopRequested(r, "abort", FALSE) BY <1>1, <1>8, <2>2, <2>3, <2>5, <2>8
  <2> QED BY <2>4, <2>6, <2>7, <2>8
\* Without a recording, the engine and the acknowledgement may change.
<1>10. ASSUME cast = NoCast, cast' = cast, UNCHANGED <<castCount, castDone>>, casting' = 0, castHolder' = 0,
              castEngine' \in [disposed : BOOLEAN, transportClosed : BOOLEAN, transport : BOOLEAN], castAck' \in Nat
       PROVE  CastInv'
  <2>1. CastTypeOK' BY <1>1, <1>10 DEF CastTypeOK
  <2>2. cast'.closed = FALSE BY <1>10 DEF NoCast
  <2> QED BY <1>10, <2>1, <2>2 DEF CastInv
<1>11. cast = NoCast => casting = 0 /\ castHolder = 0 BY <1>2, <1>3
<1>12. CASE CastDispose
  <2>1. /\ castEngine' = [castEngine EXCEPT !.disposed = TRUE]
        /\ UNCHANGED <<castCount, casting, castHolder, castAck, castDone>>
        /\ cast' = IF cast = NoCast THEN cast ELSE StopRequested(cast, "abort", FALSE)
    BY <1>12 DEF CastDispose
  <2>2. castEngine' \in [disposed : BOOLEAN, transportClosed : BOOLEAN, transport : BOOLEAN]
        /\ castEngine'.transport = castEngine.transport
    BY <1>1, <2>1
  <2>3. CASE cast = NoCast BY <1>1, <1>10, <1>11, <2>1, <2>2, <2>3
  <2>4. CASE cast # NoCast
    <3>1. CastStepFits(cast) /\ cast.phase # "none" BY <1>1, <1>2, <2>4
    <3>2. Same(cast, cast') BY <1>1, <2>1, <2>4, <3>1, StopRequestedIs DEF Reasons
    <3>3. casting # 0 => cast'.step \in {"none", "stopping"} BY <1>3, <3>2 DEF Same
    <3>4. CastTypeOK' BY <1>1, <2>1, <2>2, <3>2 DEF CastTypeOK, Same
    <3>5. cast' # NoCast BY <3>2 DEF Same, NoCast
    <3> QED BY <1>3, <2>1, <2>2, <2>4, <3>2, <3>3, <3>4, <3>5 DEF CastInv, Same
  <2> QED BY <2>3, <2>4
<1>13. CASE CastTransportCloses
  <2> DEFINE wasTold == cast.phase \in {"starting", "active"}
             r == [cast EXCEPT !.closed = TRUE]
             t == [r EXCEPT !.reason = "target-closed"]
  <2>1. /\ castEngine' = [castEngine EXCEPT !.transport = FALSE, !.transportClosed = @ \/ wasTold]
        /\ casting' = 0 /\ castHolder' = 0
        /\ cast' = IF ~wasTold THEN cast
                   ELSE IF cast.phase = "starting" THEN t ELSE StopRequested(r, "target-closed", FALSE)
        /\ UNCHANGED <<castCount, castAck, castDone>>
    BY <1>13 DEF CastTransportCloses
  <2>2. r \in CastStates /\ r.id = cast.id /\ r.phase = cast.phase /\ r.step = cast.step /\ r.acquired = cast.acquired
        /\ r.started = cast.started
    BY <1>1 DEF CastStates
  <2>3. t \in CastStates /\ t.id = cast.id /\ t.phase = cast.phase /\ t.step = cast.step /\ t.acquired = cast.acquired
        /\ t.started = cast.started
    BY <2>2 DEF CastStates, Reasons
  <2>4. castEngine' \in [disposed : BOOLEAN, transportClosed : BOOLEAN, transport : BOOLEAN] /\ ~castEngine'.transport
    BY <1>1, <2>1
  <2> HIDE DEF r, t
  <2>5. CASE ~wasTold
    <3>1. CastTypeOK' BY <1>1, <2>1, <2>4, <2>5 DEF CastTypeOK
    <3> QED BY <2>1, <2>4, <2>5, <3>1 DEF CastInv
  <2>6. CASE wasTold
    <3>1. cast # NoCast BY <1>2, <2>6
    <3>2. CastStepFits(r) /\ CastStepFits(t) /\ r.phase # "none" /\ t.phase # "none"
      BY <1>1, <2>2, <2>3, <2>6 DEF CastStepFits
    <3>3. Same(r, StopRequested(r, "target-closed", FALSE)) BY <2>2, <3>2, StopRequestedIs DEF Reasons
    <3>4. cast' \in CastStates /\ CastStepFits(cast') /\ cast'.id = cast.id /\ cast'.phase # "none"
      BY <2>1, <2>2, <2>3, <2>6, <3>2, <3>3 DEF Same
    <3>5. CastTypeOK' BY <1>1, <2>1, <2>4, <3>4 DEF CastTypeOK
    <3> QED BY <2>1, <2>4, <3>1, <3>4, <3>5 DEF CastInv
  <2> QED BY <2>5, <2>6
<1>14. CASE CastFrame
  <2>1. cast # NoCast /\ castAck' = cast.id /\ UNCHANGED <<cast, castCount, castEngine, casting, castHolder, castDone>>
    BY <1>2, <1>14 DEF CastFrame, AcceptsFrames
  <2>2. castAck' \in Nat BY <1>1, <2>1 DEF CastStates
  <2> QED BY <1>1, <1>8, <2>1, <2>2
<1>15. cast' = Counted /\ cast # NoCast /\ castAck' \in Nat /\ UNCHANGED <<castCount, castEngine, casting, castHolder, castDone>>
       => CastInv'
  <2> SUFFICES ASSUME cast' = Counted, cast # NoCast, castAck' \in Nat,
                      UNCHANGED <<castCount, castEngine, casting, castHolder, castDone>>
               PROVE  CastInv'
    OBVIOUS
  <2> DEFINE more == [cast EXCEPT !.frames = @ + 1]
  <2>1. more \in CastStates /\ more.id = cast.id /\ more.phase = cast.phase /\ more.step = cast.step
        /\ more.acquired = cast.acquired /\ more.started = cast.started /\ more.closed = cast.closed
    BY <1>1 DEF CastStates
  <2>2. cast' = more \/ cast' = StopRequested(more, "max-bytes", FALSE) BY DEF Counted
  <2>3. "max-bytes" \in Reasons BY DEF Reasons
  <2> HIDE DEF more
  <2>4. CASE cast' = more BY <1>8, <2>1, <2>4
  <2>5. CASE cast' = StopRequested(more, "max-bytes", FALSE) BY <1>8, <2>1, <2>3, <2>5
  <2> QED BY <2>2, <2>4, <2>5
<1>16. CASE CastAcked
  <2>1. castAck # 0 /\ castAck' = 0 /\ UNCHANGED <<castCount, castEngine, casting, castHolder, castDone>>
        /\ \/ cast' = cast
           \/ castAck = cast.id /\ cast' = StopRequested(cast, "error", FALSE)
           \/ castAck = cast.id /\ cast' = Counted
    BY <1>16 DEF CastAcked
  <2>2. "error" \in Reasons /\ castAck' \in Nat BY <2>1 DEF Reasons
  <2>3. CASE cast' = cast /\ cast = NoCast BY <1>1, <1>10, <1>11, <2>1, <2>2, <2>3
  <2>4. CASE cast' = cast /\ cast # NoCast BY <1>1, <1>8, <2>1, <2>2, <2>4
  <2>5. castAck = cast.id => cast # NoCast BY <1>2, <2>1
  <2>6. CASE castAck = cast.id /\ cast' = StopRequested(cast, "error", FALSE) BY <1>1, <1>8, <2>1, <2>2, <2>5, <2>6
  <2>7. CASE castAck = cast.id /\ cast' = Counted BY <1>15, <2>1, <2>2, <2>5, <2>7
  <2> QED BY <2>1, <2>3, <2>4, <2>6, <2>7
<1>17. CASE CastSeed
  <2>1. cast # NoCast BY <1>2, <1>17 DEF CastSeed
  <2> QED BY <1>1, <1>15, <1>17, <2>1 DEF CastSeed
<1>18. CASE CastEnded
  <2> DEFINE c == [cast EXCEPT !.step = "releasing"]
  <2>1. cast.step = "stopping" /\ cast.phase = "stopping" /\ cast # NoCast BY <1>1, <1>2, <1>18 DEF CastEnded, CastStepFits
  <2>2. c \in CastStates /\ c.id = cast.id /\ c.phase = cast.phase /\ c.step = "releasing" /\ c.acquired = cast.acquired
        /\ c.started = cast.started /\ c.closed = cast.closed
    BY <1>1 DEF CastStates
  <2>3. /\ casting' = IF cast.started /\ ~cast.closed /\ castEngine.transport THEN 0 ELSE casting
        /\ cast' = c /\ UNCHANGED <<castCount, castEngine, castHolder, castAck, castDone>>
    BY <1>18 DEF CastEnded
  <2> HIDE DEF c
  <2>4. casting' = 0 BY <1>3, <2>3 DEF CastInv
  <2>5. CastStepFits(c) BY <2>1, <2>2 DEF CastStepFits
  <2>6. Same(c, cast') BY <2>1, <2>2, <2>3, <2>5 DEF Same
  <2> QED BY <1>1, <1>3, <2>1, <2>2, <2>3, <2>4, <2>5, <2>6, CastStays
<1>19. CASE CastFinished
  <2>1. cast.step = "releasing" /\ cast # NoCast BY <1>2, <1>19 DEF CastFinished
  <2>2. /\ castHolder' = IF cast.acquired /\ ~cast.closed /\ castHolder = cast.id THEN 0 ELSE castHolder
        /\ castDone' = [castDone EXCEPT ![cast.id] = cast.reason]
        /\ cast' = NoCast /\ UNCHANGED <<castCount, castEngine, casting, castAck>>
    BY <1>19 DEF CastFinished
  <2>3. casting' = 0 /\ castHolder' = 0 BY <1>3, <2>1, <2>2 DEF CastInv
  <2>4. cast.id = castCount /\ \A n \in 1..MaxRecordings : castDone[n] # "none" => n <= castCount BY <2>1 DEF CastInv
  <2>5. NoCast \in CastStates /\ ~NoCast.closed BY DEF NoCast, CastStates
  <2>6. castDone' \in [1..MaxRecordings -> {"none"} \cup Reasons] BY <1>1, <2>2 DEF CastStates
  <2>7. CastTypeOK' BY <1>1, <2>2, <2>3, <2>5, <2>6 DEF CastTypeOK
  <2>8. CastStepFits(NoCast) BY <1>2 DEF CastStepFits, NoCast
  <2>9. \A n \in 1..MaxRecordings : castDone'[n] # "none" => n <= castCount' /\ n # cast'.id
    BY <1>1, <1>2, <2>2, <2>4
  <2> QED BY <2>2, <2>3, <2>5, <2>7, <2>8, <2>9 DEF CastInv
<1>20. CASE UNCHANGED castVars
  BY <1>20 DEF castVars, CastInv, CastTypeOK, CastStepFits
<1> QED BY <1>4, <1>5, <1>6, <1>7, <1>9, <1>12, <1>13, <1>14, <1>16, <1>17, <1>18, <1>19, <1>20 DEF CastNext, CastProgress

\* A recording that is over has ended in Chrome what it began: whenever it was stopped, aborted,
\* disposed or cut off, between any two of its commands (finishState, assertStartupCanContinue).
THEOREM RecordingLeavesNothing == CastSpec => []OverHoldsNothing
<1>1. CastInit => CastInv
  <2> SUFFICES ASSUME CastInit PROVE CastInv
    OBVIOUS
  <2>1. NoCast \in CastStates /\ ~NoCast.closed /\ CastStepFits(NoCast) BY DEF NoCast, CastStates, CastStepFits
  <2>2. CastTypeOK BY <2>1, ScreencastAssumption DEF CastInit, CastTypeOK
  <2> QED BY <2>1, <2>2 DEF CastInit, CastInv
<1>2. CastInv => OverHoldsNothing
  <2> SUFFICES ASSUME CastInv, NEW n \in 1..castCount, castDone[n] # "none" PROVE casting # n /\ castHolder # n
    BY DEF OverHoldsNothing
  <2>1. n \in 1..MaxRecordings /\ n # 0 BY ScreencastAssumption DEF CastInv, CastTypeOK
  <2> QED BY <2>1 DEF CastInv
<1> QED BY <1>1, <1>2, CastStep, PTL DEF CastSpec

\* An active recording was not asked to stop, and its engine is not disposed.
ActiveIsWanted == cast.phase = "active" => cast.reason = "none" /\ ~castEngine.disposed

\* What is asked to stop is not active any more.
LEMMA StopRequestedIsNotActive ==
  ASSUME NEW r \in CastStates, NEW reason, NEW finish PROVE StopRequested(r, reason, finish).phase # "active"
BY DEF StopRequested, CastStates

\* A recording that was counted is what it was, or was asked to stop.
LEMMA CountedIs ==
  ASSUME cast \in CastStates
  PROVE  Counted.phase = "active" => cast.phase = "active" /\ Counted.reason = cast.reason
<1> DEFINE more == [cast EXCEPT !.frames = @ + 1]
<1>1. more \in CastStates /\ more.phase = cast.phase /\ more.reason = cast.reason BY DEF CastStates
<1>2. Counted = more \/ Counted = StopRequested(more, "max-bytes", FALSE) BY DEF Counted
<1> HIDE DEF more
<1> QED BY <1>1, <1>2, StopRequestedIsNotActive

\* A start goes on only when nobody asked it to stop (assertStartupCanContinue).
LEMMA ContinuesUnasked ==
  ASSUME NEW r \in CastStates, NEW next, NEW failed, CastContinues(r, next, failed), cast'.phase = "active"
  PROVE  cast' = next /\ MayContinue
<1>1. StopRequested(r, FailReason, TRUE).phase # "active" BY StopRequestedIsNotActive
<1> QED BY <1>1 DEF CastContinues

\* Every step keeps active recordings wanted.
LEMMA ActiveStaysWanted == CastTypeOK /\ CastStepFits(cast) /\ ActiveIsWanted /\ [CastNext]_castVars => ActiveIsWanted'
<1> SUFFICES ASSUME CastTypeOK, CastStepFits(cast), ActiveIsWanted, [CastNext]_castVars, cast'.phase = "active"
             PROVE  cast'.reason = "none" /\ ~castEngine'.disposed
  BY DEF ActiveIsWanted
<1>1. cast \in CastStates /\ castEngine \in [disposed : BOOLEAN, transportClosed : BOOLEAN, transport : BOOLEAN]
  BY DEF CastTypeOK
<1>2. NoCast.phase = "none" /\ NoCast \in CastStates BY DEF NoCast, CastStates
<1>3. CASE CastStart BY <1>2, <1>3 DEF CastStart, CastStates
<1>4. CASE CastAcquired
  <2> DEFINE r == [cast EXCEPT !.acquired = castEngine.transport]
             next == [r EXCEPT !.step = "ensure"]
  <2>1. r \in CastStates /\ next.phase = cast.phase BY <1>1 DEF CastStates
  <2>2. CastContinues(r, next, ~castEngine.transport) BY <1>4 DEF CastAcquired
  <2>3. cast.phase # "active" BY <1>4 DEF CastAcquired, CastStepFits
  <2> HIDE DEF r, next
  <2> QED BY <2>1, <2>2, <2>3, ContinuesUnasked
<1>5. CASE PageEnabled
  <2> DEFINE next == [cast EXCEPT !.step = "begin"]
  <2>1. next.phase = cast.phase BY <1>1 DEF CastStates
  <2>2. CastContinues(cast, next, ~castEngine.transport) BY <1>5 DEF PageEnabled
  <2>3. cast.phase # "active" BY <1>5 DEF PageEnabled, CastStepFits
  <2> HIDE DEF next
  <2> QED BY <1>1, <2>1, <2>2, <2>3, ContinuesUnasked
<1>6. CASE CastBegun
  <2>0. PICK begun \in (IF castEngine.transport THEN BOOLEAN ELSE {FALSE}) :
          CastContinues([cast EXCEPT !.started = begun],
                        [[cast EXCEPT !.started = begun] EXCEPT !.phase = "active", !.step = "none"], ~begun)
    BY <1>6 DEF CastBegun
  <2> DEFINE r == [cast EXCEPT !.started = begun]
             next == [r EXCEPT !.phase = "active", !.step = "none"]
  <2>1. r \in CastStates /\ next.reason = cast.reason BY <1>1, <2>0 DEF CastStates
  <2>2. CastContinues(r, next, ~begun) /\ castEngine' = castEngine BY <1>6, <2>0 DEF CastBegun
  <2> HIDE DEF r, next
  <2>3. cast' = next /\ MayContinue BY <2>1, <2>2, ContinuesUnasked
  <2> QED BY <2>1, <2>2, <2>3 DEF MayContinue
<1>7. CASE CastStop
  <2> DEFINE r == [cast EXCEPT !.aborted = TRUE, !.reason = "abort"]
  <2>1. r \in CastStates /\ r.phase = cast.phase BY <1>1 DEF CastStates, Reasons
  <2>2. \/ \E reason \in {"user", "max-duration", "abort"} : cast' = StopRequested(cast, reason, FALSE)
        \/ cast.phase = "starting" /\ cast' = r
        \/ cast' = StopRequested(r, "abort", FALSE)
    BY <1>7 DEF CastStop
  <2> HIDE DEF r
  <2>3. \A reason : StopRequested(cast, reason, FALSE).phase # "active" /\ StopRequested(r, reason, FALSE).phase # "active"
    BY <1>1, <2>1, StopRequestedIsNotActive
  <2> QED BY <2>1, <2>2, <2>3
<1>8. CASE CastDispose BY <1>1, <1>2, <1>8, StopRequestedIsNotActive DEF CastDispose
<1>9. CASE CastTransportCloses
  <2> DEFINE r == [cast EXCEPT !.closed = TRUE]
             t == [r EXCEPT !.reason = "target-closed"]
  <2>1. r \in CastStates /\ t.phase = cast.phase BY <1>1 DEF CastStates
  <2>2. \/ cast' = cast /\ cast.phase \notin {"starting", "active"}
        \/ cast.phase = "starting" /\ cast' = t
        \/ cast' = StopRequested(r, "target-closed", FALSE)
    BY <1>9 DEF CastTransportCloses
  <2> HIDE DEF r, t
  <2> QED BY <2>1, <2>2, StopRequestedIsNotActive
<1>10. CASE CastFrame BY <1>10 DEF CastFrame, ActiveIsWanted
<1>11. CASE CastAcked \/ CastSeed
  <2>1. castEngine' = castEngine /\ (cast' = cast \/ cast' = StopRequested(cast, "error", FALSE) \/ cast' = Counted)
    BY <1>11 DEF CastAcked, CastSeed
  <2>2. StopRequested(cast, "error", FALSE).phase # "active" BY <1>1, StopRequestedIsNotActive
  <2>3. Counted.phase = "active" => cast.phase = "active" /\ Counted.reason = cast.reason BY <1>1, CountedIs
  <2> QED BY <2>1, <2>2, <2>3 DEF ActiveIsWanted
<1>12. CASE CastEnded
  <2>1. cast.phase # "active" BY <1>12 DEF CastEnded, CastStepFits
  <2>2. cast'.phase = cast.phase BY <1>1, <1>12 DEF CastEnded, CastStates
  <2> QED BY <2>1, <2>2
<1>13. CASE CastFinished BY <1>2, <1>13 DEF CastFinished
<1>14. CASE UNCHANGED castVars BY <1>14 DEF castVars, ActiveIsWanted
<1> QED BY <1>3, <1>4, <1>5, <1>6, <1>7, <1>8, <1>9, <1>10, <1>11, <1>12, <1>13, <1>14 DEF CastNext, CastProgress

\* A recording that was asked to end, at whichever command, or whose engine was disposed, is
\* at a command of its start or of its end: requestStop, dispose and the close of the
\* transport leave none that nothing ends, which is what StopSettles builds on.
THEOREM StopsGoOn == CastSpec => []StopsAreUnderWay
<1>1. CastInit => CastInv
  <2> SUFFICES ASSUME CastInit PROVE CastInv
    OBVIOUS
  <2>1. NoCast \in CastStates /\ ~NoCast.closed /\ CastStepFits(NoCast) BY DEF NoCast, CastStates, CastStepFits
  <2>2. CastTypeOK BY <2>1, ScreencastAssumption DEF CastInit, CastTypeOK
  <2> QED BY <2>1, <2>2 DEF CastInit, CastInv
<1>2. CastInit => ActiveIsWanted BY DEF CastInit, NoCast, ActiveIsWanted
<1>3. CastInv /\ ActiveIsWanted /\ [CastNext]_castVars => ActiveIsWanted' BY ActiveStaysWanted DEF CastInv
<1>4. CastInv /\ ActiveIsWanted => StopsAreUnderWay
  <2> SUFFICES ASSUME CastInv, ActiveIsWanted, cast # NoCast, cast.reason # "none" \/ castEngine.disposed
               PROVE  cast.step # "none"
    BY DEF StopsAreUnderWay
  <2>1. cast.phase # "active" BY DEF ActiveIsWanted
  <2>2. cast \in CastStates /\ CastStepFits(cast) BY DEF CastInv, CastTypeOK
  <2> QED BY <2>1, <2>2 DEF CastStepFits, CastStates
<1> QED BY <1>1, <1>2, <1>3, <1>4, CastStep, PTL DEF CastSpec

-----------------------------------------------------------------------------
(* Recordings of the stream of a tab *)

Tapes == [phase : {"none", "asked", "refused", "recording", "stopping", "completing", "over"},
          queued : Nat, next : Nat, state : {"complete", "partial"}]

RecTypeOK ==
  /\ cliStep \in [Captures -> {"idle", "asked", "started", "finished", "failed"}]
  /\ adopted \in [Captures -> Nat] /\ received \in [Captures -> Seq(Nat)]
  /\ artifact \in [Captures -> {"none", "complete", "partial"}] /\ mixed \subseteq Captures
  /\ link \in {"open", "dead", "closed"}
  /\ startStep \in [Captures -> {"idle", "asked", "sent", "showing", "over"}]
  /\ byId \subseteq Captures
  /\ tape \in [Captures -> Tapes] /\ partings \in Nat
  /\ stopStep \in [RecordStops -> [step : {"idle", "recovering", "requesting", "over"}, of : {Nothing} \cup Captures]]

\* A start that has not told the document to record has no recording, and one whose answer is
\* under way has one that has not completed.
StartFits(c) ==
  /\ cliStep[c] = "idle" => startStep[c] = "idle"
  /\ startStep[c] \in {"idle", "asked"} => tape[c] = NoTape
  /\ startStep[c] = "sent" => tape[c].phase \in {"asked", "refused", "recording", "stopping"}
  /\ tape[c].phase \in {"completing", "over"} => tape[c].queued = 0

\* As long as nothing parted, a CLI that heard of its own recording only has its chunks.
CountedTo(n) == [k \in 1..n |-> k - 1]
ReceivedFits(c) ==
  partings = 0 /\ c \notin mixed =>
    /\ adopted[c] \in {Nothing, c}
    /\ cliStep[c] # "failed" => received[c] = CountedTo(tape[c].next)
    /\ cliStep[c] = "finished" => tape[c].phase = "over"
    /\ artifact[c] = "complete" => cliStep[c] = "finished"

RecInv ==
  /\ RecTypeOK /\ BlockedWhileRecorded
  /\ partings = 0 => link = "open"
  /\ \A c \in Captures : StartFits(c) /\ ReceivedFits(c)

\* A sequence of the first numbers is longer by the next one.
LEMMA CountedMore == ASSUME NEW n \in Nat PROVE Append(CountedTo(n), n) = CountedTo(n + 1) /\ CountedTo(n) \in Seq(Nat)
<1> DEFINE s == Append(CountedTo(n), n)
           t == CountedTo(n + 1)
<1>1. \A k \in 1..n : k - 1 \in Nat OBVIOUS
<1>2. CountedTo(n) \in Seq(Nat) /\ Len(CountedTo(n)) = n /\ \A k \in 1..n : CountedTo(n)[k] = k - 1
  BY <1>1 DEF CountedTo
<1>3. t \in Seq(Nat) /\ Len(t) = n + 1 /\ \A k \in 1..(n + 1) : t[k] = k - 1
  <2>1. \A k \in 1..(n + 1) : k - 1 \in Nat OBVIOUS
  <2> QED BY <2>1 DEF CountedTo
<1>4. s \in Seq(Nat) /\ Len(s) = n + 1 BY <1>2
<1>5. \A k \in 1..n : s[k] = k - 1 BY <1>2
<1>6. s[n + 1] = n BY <1>2
<1> HIDE DEF s, t
<1>7. \A k \in 1..(n + 1) : s[k] = k - 1
  <2>1. \A k \in 1..(n + 1) : k \in 1..n \/ k = n + 1 OBVIOUS
  <2> QED BY <1>5, <1>6, <2>1
<1>8. s = t
  <2>1. \A k \in 1..Len(s) : s[k] = t[k] BY <1>3, <1>4, <1>7
  <2> QED BY <1>3, <1>4, <2>1, SeqEqual
<1> QED BY <1>2, <1>8 DEF s, t

\* What the CLIs may be sent.
Responses == [type : {"response"}, of : Captures, ok : BOOLEAN]
Chunks == [type : {"chunk"}, of : Captures, seq : Nat]
Finals == [type : {"final"}, of : Captures, state : {"complete", "partial"}]

\* The parts of the invariant that are the CLIs'.
CliTypeOK ==
  /\ cliStep \in [Captures -> {"idle", "asked", "started", "finished", "failed"}]
  /\ adopted \in [Captures -> Nat] /\ received \in [Captures -> Seq(Nat)]
  /\ artifact \in [Captures -> {"none", "complete", "partial"}] /\ mixed \subseteq Captures

\* What is sent to the CLI keeps the types.
LEMMA SendsTypes ==
  ASSUME RecInv, NEW m \in Responses \cup Chunks \cup Finals, Sends(m)
  PROVE  /\ CliTypeOK' /\ mixed \subseteq mixed'
         /\ \A c \in Captures : cliStep'[c] = "idle" => cliStep[c] = "idle"
<1>1. CliTypeOK BY DEF RecInv, RecTypeOK, CliTypeOK
<1>2. m.of \in Captures /\ m.of \in Nat BY DEF Responses, Chunks, Finals, Captures
<1>3. CASE UNCHANGED recordCliVars BY <1>1, <1>3 DEF recordCliVars, CliTypeOK
<1>4. CASE m.type = "response" /\ CliHearsResponse(m)
  BY <1>1, <1>2, <1>4 DEF CliTypeOK, CliHearsResponse
<1>5. CASE m.type = "chunk" /\ CliHearsChunk(m)
  <2>1. m.seq \in Nat BY <1>5 DEF Responses, Chunks, Finals
  <2>2. \A c \in Captures : Append(received[c], m.seq) \in Seq(Nat) BY <1>1, <2>1 DEF CliTypeOK
  <2> QED BY <1>1, <1>2, <1>5, <2>2 DEF CliTypeOK, CliHearsChunk
<1>6. CASE m.type = "final" /\ CliHearsFinal(m)
  <2>1. m.state \in {"complete", "partial"} BY <1>6 DEF Responses, Chunks, Finals
  <2> QED BY <1>1, <1>2, <1>6, <2>1 DEF CliTypeOK, CliHearsFinal, CliListens
<1>7. m.type \in {"response", "chunk", "final"} BY DEF Responses, Chunks, Finals
<1> QED BY <1>3, <1>4, <1>5, <1>6, <1>7 DEF Sends, CliHears

\* What a step may make of the tapes while the CLIs hear nothing or an answer.
TapesStay ==
  /\ partings' = partings
  /\ \A c \in Captures : tape'[c].next = tape[c].next /\ (tape[c].phase = "over" => tape'[c].phase = "over")

\* A step that sends nothing leaves what the CLI has received.
LEMMA SilenceKeeps ==
  ASSUME RecInv, TapesStay, UNCHANGED recordCliVars
  PROVE  \A c \in Captures : ReceivedFits(c)'
BY DEF RecInv, ReceivedFits, TapesStay, recordCliVars

\* A CLI is answered.
LEMMA AnswerKeeps ==
  ASSUME RecInv, TapesStay, NEW c \in Captures, NEW ok \in BOOLEAN, Answers(c, ok)
  PROVE  \A d \in Captures : ReceivedFits(d)'
<1> SUFFICES ASSUME NEW d \in Captures PROVE ReceivedFits(d)'
  OBVIOUS
<1>1. CASE UNCHANGED recordCliVars BY <1>1, SilenceKeeps
<1>2. CASE ~UNCHANGED recordCliVars
  <2>1. CliHearsResponse([type |-> "response", of |-> c, ok |-> ok])
    BY <1>2 DEF Answers, Sends, CliHears
  <2>2. /\ cliStep' = [cliStep EXCEPT ![c] = IF @ # "asked" THEN @ ELSE IF ok THEN "started" ELSE "failed"]
        /\ adopted' = [adopted EXCEPT ![c] = IF cliStep[c] = "asked" /\ ok THEN c ELSE @]
        /\ UNCHANGED <<received, artifact, mixed>>
    BY <2>1 DEF CliHearsResponse
  <2>3. RecTypeOK /\ ReceivedFits(d) BY DEF RecInv
  <2>4. adopted'[d] \in {adopted[d], d} BY <2>2, <2>3 DEF RecTypeOK
  <2>5. \/ cliStep'[d] = cliStep[d]
        \/ cliStep[d] = "asked" /\ cliStep'[d] \in {"started", "failed"}
    BY <2>2, <2>3 DEF RecTypeOK
  <2> QED BY <2>2, <2>3, <2>4, <2>5 DEF ReceivedFits, TapesStay
<1> QED BY <1>1, <1>2

\* The CLIs hear a chunk of c, that one as the next.
LEMMA ChunkKeeps ==
  ASSUME RecInv, NEW c \in Captures, tape[c].queued > 0,
         link = "open" => CliHears([type |-> "chunk", of |-> c, seq |-> tape[c].next]),
         partings' = partings, tape'[c].next = tape[c].next + 1, tape'[c].phase = tape[c].phase,
         \A d \in Captures \ {c} : tape'[d] = tape[d]
  PROVE  \A d \in Captures : ReceivedFits(d)'
<1> SUFFICES ASSUME NEW d \in Captures, partings' = 0, d \notin mixed'
             PROVE  /\ adopted'[d] \in {Nothing, d}
                    /\ cliStep'[d] # "failed" => received'[d] = CountedTo(tape'[d].next)
                    /\ cliStep'[d] = "finished" => tape'[d].phase = "over"
                    /\ artifact'[d] = "complete" => cliStep'[d] = "finished"
  BY DEF ReceivedFits
<1> DEFINE m == [type |-> "chunk", of |-> c, seq |-> tape[c].next]
<1>1. link = "open" BY DEF RecInv
<1>2. /\ adopted'[d] = IF CliListens(d, m) THEN c ELSE adopted[d]
      /\ received'[d] = IF CliListens(d, m) THEN Append(received[d], tape[c].next) ELSE received[d]
      /\ mixed' = mixed \cup {e \in Captures : CliListens(e, m) /\ e # c}
      /\ UNCHANGED <<cliStep, artifact>>
  <2>1. CliHearsChunk(m) BY <1>1 DEF CliHears
  <2>2. m.of = c /\ m.seq = tape[c].next OBVIOUS
  <2> HIDE DEF m
  <2> QED BY <2>1, <2>2 DEF CliHearsChunk
<1>3. CliListens(d, m) <=> cliStep[d] \in {"asked", "started"} /\ adopted[d] \in {Nothing, c}
  BY DEF CliListens
<1> HIDE DEF m
<1>4. RecTypeOK /\ ReceivedFits(d) /\ StartFits(d) /\ d \notin mixed BY <1>2 DEF RecInv
<1>5. CASE d # c
  BY <1>2, <1>4, <1>5 DEF ReceivedFits
<1>6. CASE d = c
  <2>1. tape[c] \in Tapes BY <1>4 DEF RecTypeOK
  <2>2. adopted[c] \in {Nothing, c} BY <1>4, <1>6 DEF ReceivedFits
  <2>3. cliStep[c] # "idle" BY <1>4, <1>6 DEF StartFits, NoTape
  <2>4. cliStep[c] # "finished" BY <1>4, <1>6 DEF ReceivedFits, StartFits
  <2>5. cliStep[c] # "failed" => CliListens(c, m)
    BY <1>3, <1>4, <1>6, <2>2, <2>3, <2>4 DEF RecTypeOK
  <2>6. cliStep[c] # "failed" => received'[c] = CountedTo(tape'[c].next)
    <3>1. tape[c].next \in Nat BY <2>1 DEF Tapes
    <3> QED BY <1>2, <1>4, <1>6, <2>5, <3>1, CountedMore DEF ReceivedFits
  <2> QED BY <1>2, <1>4, <1>6, <2>2, <2>4, <2>6 DEF ReceivedFits
<1> QED BY <1>5, <1>6

\* The CLIs hear the end of c, which is over, behind all its chunks.
LEMMA FinalKeeps ==
  ASSUME RecInv, NEW c \in Captures, NEW state \in {"complete", "partial"},
         link = "open" => CliHears([type |-> "final", of |-> c, state |-> state]),
         TapesStay, tape'[c].phase = "over"
  PROVE  \A d \in Captures : ReceivedFits(d)'
<1> SUFFICES ASSUME NEW d \in Captures, partings' = 0, d \notin mixed'
             PROVE  /\ adopted'[d] \in {Nothing, d}
                    /\ cliStep'[d] # "failed" => received'[d] = CountedTo(tape'[d].next)
                    /\ cliStep'[d] = "finished" => tape'[d].phase = "over"
                    /\ artifact'[d] = "complete" => cliStep'[d] = "finished"
  BY DEF ReceivedFits
<1> DEFINE m == [type |-> "final", of |-> c, state |-> state]
<1>1. link = "open" BY DEF RecInv, TapesStay
<1>2. /\ artifact'[d] = (IF CliListens(d, m) /\ cliStep[d] = "started" THEN state ELSE artifact[d])
      /\ cliStep'[d] = (IF CliListens(d, m) THEN "finished" ELSE cliStep[d])
      /\ mixed' = mixed \cup {e \in Captures : CliListens(e, m) /\ e # c}
      /\ UNCHANGED <<adopted, received>>
  <2>1. CliHearsFinal(m) BY <1>1 DEF CliHears
  <2>2. m.of = c /\ m.state = state OBVIOUS
  <2> HIDE DEF m
  <2> QED BY <2>1, <2>2 DEF CliHearsFinal
<1>3. CliListens(d, m) => cliStep[d] \in {"asked", "started"}
  BY DEF CliListens
<1> HIDE DEF m
<1>4. ReceivedFits(d) /\ d \notin mixed BY <1>2 DEF RecInv
<1>5. CliListens(d, m) => d = c BY <1>2
<1> QED BY <1>2, <1>3, <1>4, <1>5 DEF ReceivedFits, TapesStay

\* What is left for each action to show.
RecTypes ==
  /\ CliTypeOK
  /\ startStep \in [Captures -> {"idle", "asked", "sent", "showing", "over"}]
  /\ link \in {"open", "dead", "closed"}
  /\ tape \in [Captures -> Tapes] /\ partings \in Nat
  /\ stopStep \in [RecordStops -> [step : {"idle", "recovering", "requesting", "over"}, of : {Nothing} \cup Captures]]
  /\ byId \subseteq Captures

\* The invariant, by its parts.
LEMMA RecKept ==
  ASSUME RecTypes', BlockedWhileRecorded', partings' = 0 => link' = "open",
         \A c \in Captures : StartFits(c)' /\ ReceivedFits(c)'
  PROVE  RecInv'
BY DEF RecInv, RecTypeOK, RecTypes, CliTypeOK

\* The types are a part of the invariant.
LEMMA TypesAre == RecInv => RecTypes
BY DEF RecInv, RecTypeOK, RecTypes, CliTypeOK

\* One tape changes, held as long as it was.
TapeGoes(c) ==
  /\ tape' \in [Captures -> Tapes] /\ \A d \in Captures \ {c} : tape'[d] = tape[d]
  /\ c \in Held => tape'[c].phase \in {"recording", "stopping"}
  /\ tape'[c].phase \in {"completing", "over"} => tape'[c].queued = 0

\* A tab stays blocked when one tape goes.
LEMMA HeldStays == ASSUME RecInv, NEW c \in Captures, TapeGoes(c) PROVE Held \subseteq Held'
BY DEF Held, TapeGoes

\* Chrome and the document move one tape; nobody hears of it.
LEMMA TapeKeeps ==
  ASSUME RecInv, NEW c \in Captures, TapeGoes(c), tape'[c].next = tape[c].next,
         tape[c].phase \in {"asked", "recording", "stopping"},
         tape'[c].phase \in {"refused", "recording", "stopping"},
         UNCHANGED <<recordCliVars, link, startStep, byTab, byId, partings>>,
         stopStep' \in [RecordStops -> [step : {"idle", "recovering", "requesting", "over"}, of : {Nothing} \cup Captures]]
  PROVE  RecInv'
<1>1. UNCHANGED <<cliStep, adopted, received, artifact, mixed, link, startStep, byTab, byId, partings>>
  BY DEF recordCliVars
<1>2. RecTypes' BY <1>1, TypesAre DEF RecTypes, CliTypeOK, TapeGoes
<1>3. BlockedWhileRecorded' BY <1>1, HeldStays DEF RecInv, BlockedWhileRecorded
<1>4. \A d \in Captures : ReceivedFits(d)'
  <2>1. TapesStay BY <1>1 DEF TapeGoes, TapesStay
  <2> QED BY <2>1, SilenceKeeps
<1>5. \A d \in Captures : StartFits(d)'
  <2>1. tape[c] # NoTape BY DEF NoTape
  <2>2. StartFits(c)' BY <1>1, <2>1 DEF RecInv, StartFits
  <2> QED BY <1>1, <2>2 DEF RecInv, StartFits, TapeGoes
<1>6. partings' = 0 => link' = "open" BY <1>1 DEF RecInv
<1> QED BY <1>2, <1>3, <1>4, <1>5, <1>6, RecKept

\* A recorder is stopped, and what it has recorded is queued.
LEMMA StopsTapeIs ==
  ASSUME RecInv, NEW c \in Captures, NEW state \in {"complete", "partial"}, StopsTape(c, state)
  PROVE  TapeGoes(c) /\ tape'[c].next = tape[c].next /\ tape'[c].phase = "stopping"
         /\ tape[c].phase \in {"recording", "stopping"}
<1>1. tape[c] \in Tapes /\ tape \in [Captures -> Tapes] BY DEF RecInv, RecTypeOK
<1>2. CASE tape[c].phase = "recording"
  <2>1. PICK n \in More(c) :
          tape' = [tape EXCEPT ![c].phase = "stopping", ![c].state = state, ![c].queued = n]
    BY <1>2 DEF StopsTape
  <2>2. n \in Nat BY <1>1, <2>1 DEF More, Tapes
  <2> DEFINE s == [tape[c] EXCEPT !.phase = "stopping", !.state = state, !.queued = n]
  <2>3. s \in Tapes /\ s.phase = "stopping" /\ s.next = tape[c].next BY <1>1, <2>2 DEF Tapes
  <2>4. tape' = [tape EXCEPT ![c] = s] BY <1>1, <2>1
  <2> HIDE DEF s
  <2> QED BY <1>1, <1>2, <2>3, <2>4 DEF TapeGoes
<1>3. CASE tape[c].phase = "stopping"
  <2> DEFINE s == [tape[c] EXCEPT !.state = state]
  <2>3. s \in Tapes /\ s.phase = "stopping" /\ s.next = tape[c].next BY <1>1, <1>3 DEF Tapes
  <2>4. tape' = [tape EXCEPT ![c] = s] BY <1>1, <1>3 DEF StopsTape
  <2> HIDE DEF s
  <2> QED BY <1>1, <1>3, <2>3, <2>4 DEF TapeGoes
<1> QED BY <1>2, <1>3 DEF StopsTape

\* The offscreen recorder starts, records and ends.
LEMMA DocumentKeeps ==
  RecInv /\ (\E c \in Captures : DocumentStarts(c) \/ RecorderEnds(c) \/ ChunkRecorded(c)) => RecInv'
<1> SUFFICES ASSUME RecInv, NEW c \in Captures, DocumentStarts(c) \/ RecorderEnds(c) \/ ChunkRecorded(c)
             PROVE RecInv'
  OBVIOUS
<1>1. UNCHANGED <<recordCliVars, link, startStep, byTab, byId, partings, stopStep>>
  BY DEF DocumentStarts, RecorderEnds, ChunkRecorded, recorderVars
<1>2. tape[c] \in Tapes /\ tape \in [Captures -> Tapes]
      /\ stopStep' \in [RecordStops -> [step : {"idle", "recovering", "requesting", "over"}, of : {Nothing} \cup Captures]]
  BY <1>1 DEF RecInv, RecTypeOK
<1>3. CASE DocumentStarts(c)
  <2>1. PICK phase \in {"refused", "recording"} : tape' = [tape EXCEPT ![c].phase = phase]
    BY <1>3 DEF DocumentStarts
  <2>2. tape[c].phase = "asked" BY <1>3 DEF DocumentStarts
  <2> DEFINE s == [tape[c] EXCEPT !.phase = phase]
  <2>3. s \in Tapes /\ s.phase = phase /\ s.next = tape[c].next BY <1>2 DEF Tapes
  <2>4. tape' = [tape EXCEPT ![c] = s] BY <1>2, <2>1
  <2> HIDE DEF s
  <2>5. TapeGoes(c) /\ tape'[c] = s BY <1>2, <2>2, <2>3, <2>4 DEF TapeGoes, Held
  <2> QED BY <1>1, <1>2, <2>2, <2>3, <2>5, TapeKeeps
<1>4. CASE RecorderEnds(c)
  <2>1. PICK state \in {"complete", "partial"} : StopsTape(c, state) BY <1>4 DEF RecorderEnds
  <2> QED BY <1>1, <1>2, <2>1, StopsTapeIs, TapeKeeps
<1>5. CASE ChunkRecorded(c)
  <2>1. tape' = [tape EXCEPT ![c].queued = @ + 1] /\ tape[c].phase = "recording" BY <1>5 DEF ChunkRecorded
  <2> DEFINE s == [tape[c] EXCEPT !.queued = @ + 1]
  <2>3. s \in Tapes /\ s.phase = "recording" /\ s.next = tape[c].next BY <1>2, <2>1 DEF Tapes
  <2>4. tape' = [tape EXCEPT ![c] = s] BY <1>2, <2>1
  <2> HIDE DEF s
  <2>5. TapeGoes(c) /\ tape'[c] = s BY <1>2, <2>3, <2>4 DEF TapeGoes
  <2> QED BY <1>1, <1>2, <2>1, <2>3, <2>5, TapeKeeps
<1> QED BY <1>3, <1>4, <1>5

\* A CLI asks for a recording.
LEMMA AsksKeeps == RecInv /\ (\E c \in Captures : RecordAsks(c)) => RecInv'
<1> SUFFICES ASSUME RecInv, NEW c \in Captures, RecordAsks(c) PROVE RecInv'
  OBVIOUS
<1>1. /\ cliStep[c] = "idle" /\ cliStep' = [cliStep EXCEPT ![c] = "asked"]
      /\ startStep' = [startStep EXCEPT ![c] = "asked"]
      /\ UNCHANGED <<adopted, received, artifact, mixed, link, byTab, byId, stopStep, tape, partings>>
  BY DEF RecordAsks
<1>2. RecTypes' BY <1>1, TypesAre DEF RecTypes, CliTypeOK
<1>3. BlockedWhileRecorded' BY <1>1 DEF RecInv, BlockedWhileRecorded, Held
<1>4. \A d \in Captures : StartFits(d)' BY <1>1, TypesAre DEF RecInv, StartFits, RecTypes, CliTypeOK
<1>5. \A d \in Captures : ReceivedFits(d)' BY <1>1, TypesAre DEF RecInv, ReceivedFits, RecTypes, CliTypeOK
<1> QED BY <1>1, <1>2, <1>3, <1>4, <1>5, RecKept DEF RecInv

\* An answer is one of the messages a CLI may hear.
LEMMA AnswerTypes ==
  ASSUME RecInv, NEW c \in Captures, NEW ok \in BOOLEAN, Answers(c, ok)
  PROVE  CliTypeOK' /\ \A d \in Captures : cliStep'[d] = "idle" => cliStep[d] = "idle"
<1>1. [type |-> "response", of |-> c, ok |-> ok] \in Responses BY DEF Responses
<1> QED BY <1>1, SendsTypes DEF Answers

\* What the CLIs hear without a tape that changes.
LEMMA NothingTypes ==
  RecInv /\ UNCHANGED recordCliVars =>
    CliTypeOK' /\ \A d \in Captures : cliStep'[d] = "idle" => cliStep[d] = "idle"
BY TypesAre DEF recordCliVars, RecTypes, CliTypeOK

\* The start of a recording is sent.
LEMMA StartSendsKeeps == RecInv /\ (\E c \in Captures : StartSends(c)) => RecInv'
<1> SUFFICES ASSUME RecInv, NEW c \in Captures, StartSends(c) PROVE RecInv'
  OBVIOUS
<1>1. startStep[c] = "asked" /\ UNCHANGED <<link, byTab, byId, stopStep, partings>> BY DEF StartSends
<1>2. tape[c] = NoTape BY <1>1 DEF RecInv, StartFits
<1>3. CASE byTab # Nothing
  <2>1. startStep' = [startStep EXCEPT ![c] = "over"] /\ Answers(c, FALSE) /\ UNCHANGED tape
    BY <1>3 DEF StartSends
  <2>2. CliTypeOK' /\ \A d \in Captures : cliStep'[d] = "idle" => cliStep[d] = "idle" BY <2>1, AnswerTypes
  <2>3. RecTypes' BY <1>1, <2>1, <2>2, TypesAre DEF RecTypes
  <2>4. BlockedWhileRecorded' BY <1>1, <2>1 DEF RecInv, BlockedWhileRecorded, Held
  <2>5. cliStep[c] # "idle" BY <1>1 DEF RecInv, StartFits
  <2>6. \A d \in Captures : StartFits(d)' BY <2>1, <2>2, <2>5, TypesAre DEF RecInv, StartFits, RecTypes
  <2>7. \A d \in Captures : ReceivedFits(d)'
    <3>1. TapesStay BY <1>1, <2>1 DEF TapesStay
    <3> QED BY <2>1, <3>1, AnswerKeeps
  <2> QED BY <1>1, <2>3, <2>4, <2>6, <2>7, RecKept DEF RecInv
<1>4. CASE byTab = Nothing
  <2>1. /\ startStep' = [startStep EXCEPT ![c] = "sent"] /\ tape' = [tape EXCEPT ![c].phase = "asked"]
        /\ UNCHANGED recordCliVars
    BY <1>4 DEF StartSends
  <2> DEFINE s == [tape[c] EXCEPT !.phase = "asked"]
  <2>2. s \in Tapes /\ s.phase = "asked" /\ s.next = tape[c].next /\ tape[c].phase = "none"
    <3>1. tape[c] \in Tapes BY DEF RecInv, RecTypeOK
    <3> QED BY <1>2, <3>1 DEF Tapes, NoTape
  <2>3. tape' = [tape EXCEPT ![c] = s] BY <2>1
  <2> HIDE DEF s
  <2>4. tape' \in [Captures -> Tapes] /\ tape'[c] = s /\ \A d \in Captures \ {c} : tape'[d] = tape[d]
    BY <2>2, <2>3 DEF RecInv, RecTypeOK
  <2>5. CliTypeOK' /\ \A d \in Captures : cliStep'[d] = "idle" => cliStep[d] = "idle" BY <2>1, NothingTypes
  <2>6. RecTypes' BY <1>1, <2>1, <2>4, <2>5, TypesAre DEF RecTypes
  <2>7. BlockedWhileRecorded'
    <3>1. Held \subseteq Held' BY <2>2, <2>4 DEF Held
    <3> QED BY <1>1, <3>1 DEF RecInv, BlockedWhileRecorded
  <2>8. \A d \in Captures : StartFits(d)'
    <3>1. cliStep[c] # "idle" BY <1>1 DEF RecInv, StartFits
    <3> QED BY <2>1, <2>2, <2>4, <2>5, <3>1, TypesAre DEF RecInv, StartFits, RecTypes
  <2>9. \A d \in Captures : ReceivedFits(d)'
    <3>1. TapesStay BY <1>1, <2>2, <2>4 DEF TapesStay
    <3> QED BY <2>1, <3>1, SilenceKeeps
  <2> QED BY <1>1, <2>6, <2>7, <2>8, <2>9, RecKept DEF RecInv
<1> QED BY <1>3, <1>4

\* The worker learns that the document records.
LEMMA StartAnsweredKeeps == RecInv /\ (\E c \in Captures : StartAnswered(c)) => RecInv'
<1> SUFFICES ASSUME RecInv, NEW c \in Captures, StartAnswered(c) PROVE RecInv'
  OBVIOUS
<1>1. startStep[c] = "sent" /\ tape[c].phase # "asked" /\ UNCHANGED <<link, stopStep, tape, partings>>
  BY DEF StartAnswered
<1>2. cliStep[c] # "idle" /\ tape[c].phase \in {"refused", "recording", "stopping"}
  BY <1>1 DEF RecInv, StartFits
<1>3. TapesStay BY <1>1 DEF TapesStay
<1>4. CASE tape[c].phase = "refused"
  <2>1. startStep' = [startStep EXCEPT ![c] = "over"] /\ Answers(c, FALSE) /\ UNCHANGED <<byTab, byId>>
    BY <1>4 DEF StartAnswered
  <2>2. CliTypeOK' /\ \A d \in Captures : cliStep'[d] = "idle" => cliStep[d] = "idle" BY <2>1, AnswerTypes
  <2>3. RecTypes' BY <1>1, <2>1, <2>2, TypesAre DEF RecTypes
  <2>4. BlockedWhileRecorded' BY <1>1, <2>1 DEF RecInv, BlockedWhileRecorded, Held
  <2>5. \A d \in Captures : StartFits(d)' BY <1>1, <1>2, <2>1, <2>2, TypesAre DEF RecInv, StartFits, RecTypes
  <2>6. \A d \in Captures : ReceivedFits(d)' BY <1>3, <2>1, AnswerKeeps
  <2> QED BY <1>1, <2>3, <2>4, <2>5, <2>6, RecKept DEF RecInv
<1>5. CASE tape[c].phase # "refused"
  <2>1. /\ startStep' = [startStep EXCEPT ![c] = "showing"] /\ byTab' = c /\ byId' = byId \cup {c}
        /\ UNCHANGED recordCliVars
    BY <1>5 DEF StartAnswered
  <2>2. CliTypeOK' /\ \A d \in Captures : cliStep'[d] = "idle" => cliStep[d] = "idle" BY <2>1, NothingTypes
  <2>3. RecTypes' BY <1>1, <2>1, <2>2, TypesAre DEF RecTypes
  <2>4. c \in Held BY <1>2, <1>5 DEF Held
  <2>5. BlockedWhileRecorded' BY <1>1, <2>1, <2>4 DEF RecInv, BlockedWhileRecorded, Held
  <2>6. \A d \in Captures : StartFits(d)' BY <1>1, <1>2, <2>1, <2>2, TypesAre DEF RecInv, StartFits, RecTypes
  <2>7. \A d \in Captures : ReceivedFits(d)' BY <1>3, <2>1, SilenceKeeps
  <2> QED BY <1>1, <2>3, <2>5, <2>6, <2>7, RecKept DEF RecInv
<1> QED BY <1>4, <1>5

\* The indicator is shown, or the recording stopped again.
LEMMA StartEndsKeeps == RecInv /\ (\E c \in Captures : \E shown \in BOOLEAN : StartEnds(c, shown)) => RecInv'
<1> SUFFICES ASSUME RecInv, NEW c \in Captures, NEW shown \in BOOLEAN, StartEnds(c, shown) PROVE RecInv'
  OBVIOUS
<1>1. /\ startStep[c] = "showing" /\ startStep' = [startStep EXCEPT ![c] = "over"] /\ Answers(c, shown)
      /\ IF ~shown /\ c \in Held THEN StopsTape(c, "partial") ELSE UNCHANGED tape
      /\ UNCHANGED <<link, byTab, byId, stopStep, partings>>
  BY DEF StartEnds
<1>2. cliStep[c] # "idle" BY <1>1 DEF RecInv, StartFits
<1>3. /\ tape' \in [Captures -> Tapes] /\ Held \subseteq Held' /\ TapesStay
      /\ \A d \in Captures \ {c} : tape'[d] = tape[d]
      /\ tape'[c] = tape[c] \/ tape'[c].phase = "stopping"
  <2>1. CASE ~shown /\ c \in Held
    <3>1. TapeGoes(c) /\ tape'[c].next = tape[c].next /\ tape'[c].phase = "stopping"
          /\ tape[c].phase \in {"recording", "stopping"}
      BY <1>1, <2>1, StopsTapeIs
    <3> QED BY <1>1, <3>1, HeldStays DEF TapeGoes, TapesStay
  <2>2. CASE ~(~shown /\ c \in Held)
    BY <1>1, <2>2, TypesAre DEF RecTypes, TapesStay, Held
  <2> QED BY <2>1, <2>2
<1>4. CliTypeOK' /\ \A d \in Captures : cliStep'[d] = "idle" => cliStep[d] = "idle" BY <1>1, AnswerTypes
<1>5. RecTypes' BY <1>1, <1>3, <1>4, TypesAre DEF RecTypes
<1>6. BlockedWhileRecorded' BY <1>1, <1>3 DEF RecInv, BlockedWhileRecorded
<1>7. \A d \in Captures : StartFits(d)' BY <1>1, <1>2, <1>3, <1>4, TypesAre DEF RecInv, StartFits, RecTypes
<1>8. \A d \in Captures : ReceivedFits(d)' BY <1>1, <1>3, AnswerKeeps
<1> QED BY <1>1, <1>5, <1>6, <1>7, <1>8, RecKept DEF RecInv

\* A chunk goes out, or is given up.
LEMMA ChunkSentKeeps == RecInv /\ (\E c \in Captures : ChunkSent(c)) => RecInv'
<1> SUFFICES ASSUME RecInv, NEW c \in Captures, ChunkSent(c) PROVE RecInv'
  OBVIOUS
<1>1. tape[c].queued > 0 /\ UNCHANGED <<link, startStep, byTab, byId, stopStep, partings>>
  BY DEF ChunkSent, recorderVars
<1>2. tape[c] \in Tapes /\ tape \in [Captures -> Tapes] BY DEF RecInv, RecTypeOK
<1>3. tape[c] # NoTape /\ tape[c].phase \notin {"completing", "over"}
  BY <1>1 DEF RecInv, StartFits, NoTape
<1> DEFINE m == [type |-> "chunk", of |-> c, seq |-> tape[c].next]
           s == [tape[c] EXCEPT !.queued = @ - 1, !.next = @ + 1]
           t == [tape[c] EXCEPT !.queued = @ - 1, !.next = @ + 1, !.state = "partial"]
<1>4. /\ s \in Tapes /\ s.phase = tape[c].phase /\ s.next = tape[c].next + 1
      /\ t \in Tapes /\ t.phase = tape[c].phase
  <2>1. tape[c].queued - 1 \in Nat /\ tape[c].next + 1 \in Nat BY <1>1, <1>2 DEF Tapes
  <2>2. \A q, n \in Nat : LET r == [tape[c] EXCEPT !.queued = q, !.next = n]
                             u == [tape[c] EXCEPT !.queued = q, !.next = n, !.state = "partial"]
                         IN  /\ r \in Tapes /\ r.phase = tape[c].phase /\ r.next = n
                             /\ u \in Tapes /\ u.phase = tape[c].phase
    BY <1>2 DEF Tapes
  <2> QED BY <2>1, <2>2
<1>5. \/ Sends(m) /\ tape' = [tape EXCEPT ![c] = s]
      \/ Unhandled(c) /\ tape' = [tape EXCEPT ![c] = t] /\ UNCHANGED recordCliVars
  BY <1>2 DEF ChunkSent
<1>6. m \in Chunks BY <1>2 DEF Chunks, Tapes
<1>7. CliTypeOK' /\ \A d \in Captures : cliStep'[d] = "idle" => cliStep[d] = "idle"
  BY <1>5, <1>6, SendsTypes, NothingTypes
<1>8. tape' \in [Captures -> Tapes] /\ tape'[c] \in {s, t} /\ \A d \in Captures \ {c} : tape'[d] = tape[d]
  BY <1>2, <1>4, <1>5
<1>9. \A d \in Captures : ReceivedFits(d)'
  <2>1. CASE Sends(m) /\ tape' = [tape EXCEPT ![c] = s]
    <3>1. link = "open" => CliHears(m) BY <2>1 DEF Sends
    <3>2. tape'[c] = s BY <1>2, <2>1
    <3>3. tape'[c].next = tape[c].next + 1 /\ tape'[c].phase = tape[c].phase BY <1>4, <3>2
    <3> QED BY <1>1, <1>8, <3>1, <3>3, ChunkKeeps
  <2>2. CASE Unhandled(c)
    <3>1. partings # 0 BY <2>2 DEF Unhandled, RecInv
    <3> QED BY <1>1, <3>1 DEF ReceivedFits
  <2> QED BY <1>5, <2>1, <2>2
<1> HIDE DEF m, s, t
<1>10. tape'[c].phase = tape[c].phase BY <1>4, <1>8
<1>11. RecTypes' BY <1>1, <1>7, <1>8, TypesAre DEF RecTypes
<1>12. BlockedWhileRecorded'
  <2>1. Held' = Held BY <1>8, <1>10 DEF Held
  <2> QED BY <1>1, <2>1 DEF RecInv, BlockedWhileRecorded
<1>13. \A d \in Captures : StartFits(d)' BY <1>1, <1>3, <1>7, <1>8, <1>10 DEF RecInv, StartFits
<1> QED BY <1>1, <1>9, <1>11, <1>12, <1>13, RecKept DEF RecInv

\* A recording completes.
LEMMA CompletesKeeps == RecInv /\ (\E c \in Captures : Completes(c) \/ CompletesAgain(c)) => RecInv'
<1> SUFFICES ASSUME RecInv, NEW c \in Captures, Completes(c) \/ CompletesAgain(c) PROVE RecInv'
  OBVIOUS
<1>1. tape[c].queued = 0 /\ tape[c].phase \in {"stopping", "completing"}
      /\ UNCHANGED <<link, startStep, stopStep, partings>>
  BY DEF Completes, CompletesAgain, RecInv, StartFits
<1>2. tape[c] \in Tapes /\ tape \in [Captures -> Tapes] BY DEF RecInv, RecTypeOK
<1>3. tape[c] # NoTape BY <1>1 DEF NoTape
<1>4. startStep[c] # "sent" BY DEF Completes, CompletesAgain, EndTaken, EndRefused, Handles, Unhandled
<1>5. PICK phase \in {"completing", "over"} :
        \/ EndTaken(c) /\ phase = "over"
        \/ EndRefused(c, phase)
  <2>1. EndTaken(c) \/ EndRefused(c, "completing") \/ EndRefused(c, "over") BY DEF Completes, CompletesAgain
  <2> QED BY <2>1
<1> DEFINE s == [tape[c] EXCEPT !.phase = phase]
           m == [type |-> "final", of |-> c, state |-> tape[c].state]
<1>6. s \in Tapes /\ s.phase = phase /\ s.next = tape[c].next /\ s.queued = 0 BY <1>1, <1>2 DEF Tapes
<1>7. tape' = [tape EXCEPT ![c] = s] BY <1>2, <1>5 DEF EndTaken, EndPasses, EndRefused
<1>8. m \in Finals /\ m.state \in {"complete", "partial"} BY <1>2 DEF Finals, Tapes
<1>9. CliTypeOK' /\ \A d \in Captures : cliStep'[d] = "idle" => cliStep[d] = "idle"
  BY <1>5, <1>8, SendsTypes, NothingTypes DEF EndTaken, EndPasses, EndRefused
<1> HIDE DEF s
<1>10. tape' \in [Captures -> Tapes] /\ tape'[c] = s /\ \A d \in Captures \ {c} : tape'[d] = tape[d]
  BY <1>2, <1>6, <1>7
<1>11. TapesStay BY <1>1, <1>5, <1>6, <1>10 DEF TapesStay
<1>12. \A d \in Captures : ReceivedFits(d)'
  <2>1. CASE EndTaken(c) /\ phase = "over"
    <3>1. link = "open" => CliHears(m) BY <2>1 DEF EndTaken, EndPasses, Sends
    <3>2. tape'[c].phase = "over" BY <1>6, <1>10, <2>1
    <3> QED BY <1>8, <1>11, <3>1, <3>2, FinalKeeps
  <2>2. CASE EndRefused(c, phase)
    <3>1. partings # 0 BY <2>2 DEF EndRefused, Unhandled, RecInv
    <3> QED BY <1>1, <3>1 DEF ReceivedFits
  <2> QED BY <1>5, <2>1, <2>2
<1>13. byId' \subseteq byId \ {c} /\ byTab' \in byId' \cup {Nothing}
  <2>1. CASE EndTaken(c) BY <2>1 DEF EndTaken, RecInv, BlockedWhileRecorded
  <2>2. CASE EndRefused(c, phase) BY <1>4, <2>2 DEF EndRefused, Unhandled, RecInv, BlockedWhileRecorded
  <2> QED BY <1>5, <2>1, <2>2
<1>14. BlockedWhileRecorded'
  <2>1. Held \ {c} \subseteq Held' BY <1>10 DEF Held
  <2> QED BY <1>13, <2>1 DEF RecInv, BlockedWhileRecorded
<1>15. RecTypes' BY <1>1, <1>9, <1>10, <1>13, TypesAre DEF RecTypes
<1>16. \A d \in Captures : StartFits(d)'
  BY <1>1, <1>3, <1>4, <1>6, <1>9, <1>10 DEF RecInv, StartFits
<1> QED BY <1>1, <1>12, <1>14, <1>15, <1>16, RecKept DEF RecInv

\* A stop looks for its recording, or asks the document for it.
LEMMA StopsKeep ==
  RecInv /\ (\E k \in RecordStops : StopRecovers(k) \/ \E named \in BOOLEAN : StopAsked(k, named)) => RecInv'
<1> SUFFICES ASSUME RecInv, NEW k \in RecordStops, StopRecovers(k) \/ \E named \in BOOLEAN : StopAsked(k, named)
             PROVE RecInv'
  OBVIOUS
<1>1. UNCHANGED <<recordCliVars, link, startStep, tape, partings>> BY DEF StopRecovers, StopAsked
<1>2. /\ byId \subseteq byId' /\ byId' \subseteq Held /\ byTab' \in byId' \cup {Nothing}
      /\ \E step \in {"recovering", "requesting", "over"} : \E c \in {Nothing} \cup Captures : StopGoes(k, step, c)
  <2>1. byId \subseteq Held /\ byTab \in byId \cup {Nothing} /\ byId \subseteq Captures /\ Held \subseteq Captures
    BY DEF RecInv, BlockedWhileRecorded, RecTypeOK, Held
  <2>2. CASE StopRecovers(k) BY <2>1, <2>2 DEF StopRecovers
  <2>3. CASE \E named \in BOOLEAN : StopAsked(k, named)
    <3>1. UNCHANGED <<byTab, byId>> BY <2>3 DEF StopAsked
    <3> QED BY <2>1, <2>3, <3>1 DEF StopAsked
  <2> QED BY <2>2, <2>3
<1>3. stopStep' \in [RecordStops -> [step : {"idle", "recovering", "requesting", "over"}, of : {Nothing} \cup Captures]]
  <2>1. PICK step \in {"recovering", "requesting", "over"}, c \in {Nothing} \cup Captures : StopGoes(k, step, c)
    BY <1>2
  <2>2. [step |-> step, of |-> c] \in [step : {"idle", "recovering", "requesting", "over"}, of : {Nothing} \cup Captures]
    OBVIOUS
  <2> QED BY <2>1, <2>2 DEF StopGoes, RecInv, RecTypeOK
<1>4. CliTypeOK' /\ \A d \in Captures : cliStep'[d] = "idle" => cliStep[d] = "idle" BY <1>1, NothingTypes
<1>5. Held' = Held /\ Held \subseteq Captures BY <1>1 DEF Held
<1>6. RecTypes' BY <1>1, <1>2, <1>3, <1>4, <1>5, TypesAre DEF RecTypes
<1>7. BlockedWhileRecorded' BY <1>2, <1>5 DEF BlockedWhileRecorded
<1>8. \A d \in Captures : StartFits(d)' BY <1>1, <1>4 DEF RecInv, StartFits
<1>9. \A d \in Captures : ReceivedFits(d)'
  <2>1. TapesStay BY <1>1 DEF TapesStay
  <2> QED BY <1>1, <2>1, SilenceKeeps
<1> QED BY <1>1, <1>6, <1>7, <1>8, <1>9, RecKept DEF RecInv

\* A CLI asks for a stop.
LEMMA StopRequestsKeeps == RecInv /\ (\E k \in RecordStops : StopRequests(k)) => RecInv'
<1> SUFFICES ASSUME RecInv, NEW k \in RecordStops, StopRequests(k) PROVE RecInv'
  OBVIOUS
<1> DEFINE c == stopStep[k].of
<1>1. /\ StopGoes(k, "over", Nothing) /\ UNCHANGED <<recordCliVars, link, startStep, byTab, byId, partings>>
      /\ IF c \in Held THEN StopsTape(c, "complete") ELSE UNCHANGED tape
  BY DEF StopRequests
<1>2. stopStep' \in [RecordStops -> [step : {"idle", "recovering", "requesting", "over"}, of : {Nothing} \cup Captures]]
  <2>1. [step |-> "over", of |-> Nothing] \in [step : {"idle", "recovering", "requesting", "over"}, of : {Nothing} \cup Captures]
    OBVIOUS
  <2> QED BY <1>1, <2>1 DEF StopGoes, RecInv, RecTypeOK
<1> HIDE DEF c
<1>3. CASE c \in Held
  <2>1. c \in Captures BY <1>3 DEF Held
  <2>2. StopsTape(c, "complete") BY <1>1, <1>3
  <2> QED BY <1>1, <1>2, <2>1, <2>2, StopsTapeIs, TapeKeeps
<1>4. CASE c \notin Held
  <2>1. UNCHANGED tape BY <1>1, <1>4
  <2>2. CliTypeOK' /\ \A d \in Captures : cliStep'[d] = "idle" => cliStep[d] = "idle" BY <1>1, NothingTypes
  <2>3. RecTypes' BY <1>1, <1>2, <2>1, <2>2, TypesAre DEF RecTypes
  <2>4. BlockedWhileRecorded' BY <1>1, <2>1 DEF RecInv, BlockedWhileRecorded, Held
  <2>5. \A d \in Captures : StartFits(d)' BY <1>1, <2>1, <2>2 DEF RecInv, StartFits
  <2>6. \A d \in Captures : ReceivedFits(d)'
    <3>1. TapesStay BY <1>1, <2>1 DEF TapesStay
    <3> QED BY <1>1, <3>1, SilenceKeeps
  <2> QED BY <1>1, <2>3, <2>4, <2>5, <2>6, RecKept DEF RecInv
<1> QED BY <1>3, <1>4

\* Once something has parted, what was received says nothing.
LEMMA PartedFits == partings' # 0 => (\A c \in Captures : ReceivedFits(c)') /\ (partings' = 0 => link' = "open")
BY DEF ReceivedFits

\* What parts of the worker, its socket or the window leave of the CLIs.
LEMMA PartsIs ==
  ASSUME RecInv, Parts
  PROVE  /\ CliTypeOK' /\ link' \in {"open", "dead", "closed"}
         /\ partings' \in Nat /\ partings' # 0
         /\ \A c \in Captures : cliStep'[c] = "idle" => cliStep[c] = "idle"
<1>1. CliTypeOK /\ partings \in Nat BY TypesAre DEF RecTypes
<1>2. partings' \in Nat /\ partings' # 0 BY <1>1 DEF Parts, RecInv
<1>3. CliTypeOK' /\ \A c \in Captures : cliStep'[c] = "idle" => cliStep[c] = "idle"
  BY <1>1 DEF Parts, CliTypeOK
<1> QED BY <1>2, <1>3 DEF Parts

\* A CLI, the socket: the recorder is as it was.
LEMMA LinkKeeps ==
  RecInv /\ ((\E c \in Captures : CliLeaves(c)) \/ LinkDies \/ SocketLost \/ SocketReturns) => RecInv'
<1> SUFFICES ASSUME RecInv, (\E c \in Captures : CliLeaves(c)) \/ LinkDies \/ SocketLost \/ SocketReturns
             PROVE RecInv'
  OBVIOUS
<1>1. UNCHANGED <<startStep, byTab, byId, stopStep, tape>>
  BY DEF CliLeaves, LinkDies, SocketLost, SocketReturns, recorderVars
<1>2. /\ CliTypeOK' /\ link' \in {"open", "dead", "closed"} /\ partings' \in Nat /\ partings' # 0
      /\ \A c \in Captures : cliStep'[c] = "idle" => cliStep[c] = "idle"
  <2>1. RecTypes BY TypesAre
  <2>2. CASE \E c \in Captures : CliLeaves(c)
    BY <2>1, <2>2 DEF CliLeaves, RecTypes, CliTypeOK
  <2>3. CASE LinkDies BY <2>1, <2>3, NothingTypes DEF LinkDies, RecTypes
  <2>4. CASE SocketLost BY <2>4, PartsIs DEF SocketLost
  <2>5. CASE SocketReturns BY <2>1, <2>5, NothingTypes DEF SocketReturns, RecTypes, RecInv
  <2> QED BY <2>2, <2>3, <2>4, <2>5
<1>3. RecTypes' BY <1>1, <1>2, TypesAre DEF RecTypes
<1>4. BlockedWhileRecorded' BY <1>1 DEF RecInv, BlockedWhileRecorded, Held
<1>5. \A d \in Captures : StartFits(d)' BY <1>1, <1>2 DEF RecInv, StartFits
<1> QED BY <1>2, <1>3, <1>4, <1>5, PartedFits, RecKept

\* The worker ends, or disposes of its recorder: it knows of no recording.
LEMMA ForgottenKeeps == RecInv /\ (RecordingWorkerEnds \/ RecorderDisposed) => RecInv'
<1> SUFFICES ASSUME RecInv, RecordingWorkerEnds \/ RecorderDisposed PROVE RecInv'
  OBVIOUS
<1>1. Parts /\ byTab' = Nothing /\ byId' = {} /\ StartsForgotten /\ \E steps \in {{"recovering", "requesting"}, {"recovering"}} : StopsForgotten(steps)
  BY DEF RecordingWorkerEnds, RecorderDisposed
<1>2. RecTypes BY TypesAre
<1>3. startStep' \in [Captures -> {"idle", "asked", "sent", "showing", "over"}]
      /\ \A c \in Captures : startStep'[c] = (IF startStep[c] = "idle" THEN "idle" ELSE "over")
  BY <1>1, <1>2 DEF StartsForgotten, RecTypes
<1>4. stopStep' \in [RecordStops -> [step : {"idle", "recovering", "requesting", "over"}, of : {Nothing} \cup Captures]]
  <2>1. PICK steps \in {{"recovering", "requesting"}, {"recovering"}} : StopsForgotten(steps) BY <1>1
  <2>2. [step |-> "over", of |-> Nothing] \in [step : {"idle", "recovering", "requesting", "over"}, of : {Nothing} \cup Captures]
    OBVIOUS
  <2> QED BY <1>2, <2>1, <2>2 DEF StopsForgotten, RecTypes
<1>5. tape' \in [Captures -> Tapes] /\ \A c \in Captures : \/ tape'[c] = tape[c]
                                                           \/ startStep[c] = "asked" /\ tape'[c].phase = "asked"
                                                           \/ c \in Held /\ tape'[c].phase = "stopping"
  <2>1. CASE RecordingWorkerEnds BY <1>2, <2>1 DEF RecordingWorkerEnds, RecTypes
  <2>2. CASE RecorderDisposed
    <3>1. PICK late \in SUBSET {c \in Captures : startStep[c] = "asked" /\ byTab = Nothing} :
            tape' = [c \in Captures |->
              IF c \in late THEN [tape[c] EXCEPT !.phase = "asked"]
              ELSE IF c \in byId \cap Held THEN [tape[c] EXCEPT !.phase = "stopping", !.state = "partial"]
              ELSE tape[c]]
      BY <2>2 DEF RecorderDisposed
    <3>2. \A r \in Tapes : /\ [r EXCEPT !.phase = "asked"] \in Tapes
                           /\ [r EXCEPT !.phase = "asked"].phase = "asked"
                           /\ [r EXCEPT !.phase = "stopping", !.state = "partial"] \in Tapes
                           /\ [r EXCEPT !.phase = "stopping", !.state = "partial"].phase = "stopping"
      BY DEF Tapes
    <3>3. \A c \in Captures : tape[c] \in Tapes BY <1>2 DEF RecTypes
    <3>4. \A c \in Captures : tape'[c] \in Tapes BY <3>1, <3>2, <3>3
    <3>5. tape' \in [Captures -> Tapes] BY <3>1, <3>4
    <3>6. ASSUME NEW c \in Captures
          PROVE  \/ tape'[c] = tape[c]
                 \/ startStep[c] = "asked" /\ tape'[c].phase = "asked"
                 \/ c \in Held /\ tape'[c].phase = "stopping"
      <4>1. CASE c \in late BY <3>1, <3>2, <3>3, <4>1
      <4>2. CASE c \notin late /\ c \in byId \cap Held BY <3>1, <3>2, <3>3, <4>2
      <4>3. CASE c \notin late /\ c \notin byId \cap Held BY <3>1, <4>3
      <4> QED BY <4>1, <4>2, <4>3
    <3> QED BY <3>5, <3>6
  <2> QED BY <2>1, <2>2
<1>6. /\ CliTypeOK' /\ link' \in {"open", "dead", "closed"} /\ partings' \in Nat /\ partings' # 0
      /\ \A c \in Captures : cliStep'[c] = "idle" => cliStep[c] = "idle"
  BY <1>1, PartsIs
<1>7. RecTypes' BY <1>1, <1>3, <1>4, <1>5, <1>6 DEF RecTypes
<1>8. BlockedWhileRecorded' BY <1>1 DEF BlockedWhileRecorded
<1>9. ASSUME NEW c \in Captures PROVE StartFits(c)'
  <2>1. StartFits(c) BY DEF RecInv
  <2>2. startStep[c] = "idle" => tape'[c] = tape[c]
    <3>1. startStep[c] = "idle" => c \notin Held BY <2>1 DEF StartFits, NoTape, Held
    <3> QED BY <1>5, <3>1
  <2> QED BY <1>3, <1>5, <1>6, <2>1, <2>2 DEF StartFits
<1> QED BY <1>6, <1>7, <1>8, <1>9, PartedFits, RecKept

\* The invariant holds in every behaviour.
LEMMA RecInvariant == RecordingSpec => []RecInv
<1>1. RecordingInit => RecInv
  <2> SUFFICES ASSUME RecordingInit PROVE RecInv
    OBVIOUS
  <2>1. NoTape \in Tapes /\ <<>> \in Seq(Nat) BY DEF NoTape, Tapes
  <2>2. RecTypeOK BY <2>1 DEF RecordingInit, RecTypeOK, Nothing
  <2>3. BlockedWhileRecorded BY DEF RecordingInit, BlockedWhileRecorded
  <2>4. \A c \in Captures : StartFits(c) BY DEF RecordingInit, StartFits, NoTape
  <2>5. \A c \in Captures : ReceivedFits(c)
    <3>1. CountedTo(0) = <<>> BY DEF CountedTo
    <3> QED BY <3>1 DEF RecordingInit, ReceivedFits, NoTape
  <2> QED BY <2>2, <2>3, <2>4, <2>5 DEF RecInv, RecordingInit
<1>2. RecInv /\ [RecordingNext]_recordingVars => RecInv'
  <2> SUFFICES ASSUME RecInv, [RecordingNext]_recordingVars PROVE RecInv'
    OBVIOUS
  <2>1. CASE \E c \in Captures : RecordAsks(c) \/ StartSteps(c) \/ TapeSteps(c) \/ ChunkRecorded(c) \/ ChunkSent(c) \/ CliLeaves(c)
    <3>1. PICK c \in Captures : RecordAsks(c) \/ StartSteps(c) \/ TapeSteps(c) \/ ChunkRecorded(c) \/ ChunkSent(c) \/ CliLeaves(c)
      BY <2>1
    <3>2. CASE StartSteps(c) BY <3>2, StartSendsKeeps, StartAnsweredKeeps, StartEndsKeeps DEF StartSteps
    <3>3. CASE TapeSteps(c) \/ ChunkRecorded(c) BY <3>3, DocumentKeeps, CompletesKeeps DEF TapeSteps
    <3>4. CASE RecordAsks(c) \/ ChunkSent(c) \/ CliLeaves(c) BY <3>4, AsksKeeps, ChunkSentKeeps, LinkKeeps
    <3> QED BY <3>1, <3>2, <3>3, <3>4
  <2>2. CASE \E k \in RecordStops : StopRecovers(k) \/ StopRequests(k) \/ \E named \in BOOLEAN : StopAsked(k, named)
    BY <2>2, StopsKeep, StopRequestsKeeps
  <2>3. CASE LinkDies \/ SocketLost \/ RecordingWorkerEnds \/ RecorderDisposed \/ SocketReturns
    BY <2>3, LinkKeeps, ForgottenKeeps
  <2>4. CASE UNCHANGED recordingVars
    BY <2>4 DEF recordingVars, recordCliVars, recorderVars, RecInv, RecTypeOK, BlockedWhileRecorded, Held,
                StartFits, ReceivedFits
  <2> QED BY <2>1, <2>2, <2>3, <2>4 DEF RecordingNext
<1> QED BY <1>1, <1>2, PTL DEF RecordingSpec

\* A CLI that waits for its answer waits for its start, and has heard of no recording but its own
\* and one the document holds; a CLI that was answered has heard of its own, whose end it will hear.
AnswerFits(c) ==
  /\ cliStep[c] = "idle" => adopted[c] = Nothing
  /\ cliStep[c] = "asked" =>
       /\ startStep[c] \in {"asked", "sent", "showing"} \/ link = "dead"
       /\ link # "closed" /\ tape[c].phase # "completing"
       /\ tape[c].phase = "over" => c \in swallowed
       /\ link = "open" => adopted[c] \in {Nothing, c} \cup Held
  /\ cliStep[c] = "started" =>
       adopted[c] = c /\ (tape[c].phase \in {"recording", "stopping", "completing"} \/ c \in swallowed)
TapeFits(c) ==
  /\ startStep[c] = "showing" => tape[c].phase \in {"recording", "stopping", "completing", "over"}
  /\ tape[c].queued # 0 => c \in Held
OneHeld == \A c, d \in Held : c = d
AllAnswersFit == OneHeld /\ \A c \in Captures : AnswerFits(c) /\ TapeFits(c)

\* Nobody hears anything, and the document holds what it held.
LEMMA AnswersKept ==
  ASSUME AllAnswersFit, UNCHANGED <<cliStep, adopted, link, startStep, tape, swallowed>>
  PROVE  AllAnswersFit'
BY DEF AllAnswersFit, OneHeld, AnswerFits, TapeFits, Held

\* The document moves one tape; nobody hears of it.
LEMMA TapeKeepsAnswers ==
  ASSUME RecInv, AllAnswersFit, NEW c \in Captures, TapeGoes(c),
         tape[c].phase \in {"asked", "recording", "stopping"},
         tape'[c].phase \in {"refused", "recording", "stopping"},
         tape'[c].queued # 0 => tape'[c].phase # "refused",
         tape[c].phase = "asked" /\ tape'[c].phase # "refused" => Held = {},
         UNCHANGED <<recordCliVars, link, startStep, swallowed>>
  PROVE  AllAnswersFit'
<1>1. UNCHANGED <<cliStep, adopted, link, startStep, swallowed>> BY DEF recordCliVars
<1>2. Held \subseteq Held' BY HeldStays
<1>3. \A d \in Captures \ {c} : tape'[d] = tape[d] BY DEF TapeGoes
<1>4. Held' = Held \/ (Held = {} /\ Held' = {c}) \/ (c \notin Held /\ Held' = Held)
  <2>1. Held \subseteq Captures /\ Held' \subseteq Captures BY DEF Held
  <2>2. \A d \in Captures \ {c} : d \in Held' <=> d \in Held BY <1>3 DEF Held
  <2>3. c \in Held \/ c \notin Held' \/ Held = {} BY DEF Held
  <2> QED BY <1>2, <2>1, <2>2, <2>3
<1>5. OneHeld' BY <1>4 DEF AllAnswersFit, OneHeld
<1>6. ASSUME NEW d \in Captures PROVE AnswerFits(d)' /\ TapeFits(d)'
  <2>1. AnswerFits(d) /\ TapeFits(d) BY DEF AllAnswersFit
  <2>2. CASE d # c BY <1>1, <1>2, <1>3, <2>1, <2>2 DEF AnswerFits, TapeFits
  <2>3. CASE d = c
    <3>1. TapeFits(c)'
      <4>1. startStep[c] = "showing" => tape'[c].phase # "refused"
        BY <2>1, <2>3 DEF TapeFits, TapeGoes, Held
      <4>2. tape'[c].queued # 0 => c \in Held' BY DEF Held
      <4> QED BY <1>1, <4>1, <4>2 DEF TapeFits
    <3>2. AnswerFits(c)'
      <4>1. cliStep[c] = "asked" => adopted[c] \in {Nothing, c} \cup Held' \/ link # "open"
        BY <1>2, <2>1, <2>3 DEF AnswerFits
      <4>2. cliStep[c] = "started" =>
              adopted[c] = c /\ (tape'[c].phase \in {"recording", "stopping", "completing"} \/ c \in swallowed)
        BY <2>1, <2>3 DEF AnswerFits, TapeGoes, Held
      <4> QED BY <1>1, <2>1, <2>3, <4>1, <4>2 DEF AnswerFits
    <3> QED BY <2>3, <3>1, <3>2
  <2> QED BY <2>2, <2>3
<1> QED BY <1>5, <1>6 DEF AllAnswersFit

\* A CLI is answered, with its recording or without.
LEMMA AnswerIs ==
  ASSUME RecInv, NEW c \in Captures, NEW ok \in BOOLEAN, Answers(c, ok)
  PROVE  /\ \A d \in Captures \ {c} : cliStep'[d] = cliStep[d] /\ adopted'[d] = adopted[d]
         /\ \/ cliStep'[c] = cliStep[c] /\ adopted'[c] = adopted[c] /\ (link # "open" \/ cliStep[c] # "asked")
            \/ cliStep[c] = "asked" /\ ~ok /\ cliStep'[c] = "failed"
            \/ cliStep[c] = "asked" /\ ok /\ cliStep'[c] = "started" /\ adopted'[c] = c
<1>1. RecTypeOK BY DEF RecInv
<1>2. CASE link # "open" BY <1>2 DEF Answers, Sends, recordCliVars
<1>3. CASE link = "open"
  <2>1. CliHearsResponse([type |-> "response", of |-> c, ok |-> ok])
    BY <1>3 DEF Answers, Sends, CliHears
  <2>2. /\ cliStep' = [cliStep EXCEPT ![c] = IF @ # "asked" THEN @ ELSE IF ok THEN "started" ELSE "failed"]
        /\ adopted' = [adopted EXCEPT ![c] = IF cliStep[c] = "asked" /\ ok THEN c ELSE @]
    BY <2>1 DEF CliHearsResponse
  <2> QED BY <1>1, <2>2 DEF RecTypeOK
<1> QED BY <1>2, <1>3

\* A start goes on, or ends with an answer.
LEMMA StartKeepsAnswers ==
  ASSUME RecInv, AllAnswersFit, NEW c \in Captures, StartSteps(c) PROVE AllAnswersFit'
<1>1. RecTypeOK /\ StartFits(c) /\ AnswerFits(c) /\ TapeFits(c) BY DEF RecInv, AllAnswersFit
<1>2. UNCHANGED <<link, swallowed>> BY DEF StartSteps, StartSends, StartAnswered, StartEnds
\* What it does not touch: the others.
<1>3. ASSUME \A d \in Captures \ {c} : /\ cliStep'[d] = cliStep[d] /\ adopted'[d] = adopted[d]
                                       /\ startStep'[d] = startStep[d] /\ tape'[d] = tape[d],
             Held' = Held, AnswerFits(c)', TapeFits(c)'
      PROVE  AllAnswersFit'
  <2>1. \A d \in Captures \ {c} : AnswerFits(d)' /\ TapeFits(d)'
    BY <1>2, <1>3 DEF AllAnswersFit, AnswerFits, TapeFits
  <2> QED BY <1>3, <2>1 DEF AllAnswersFit, OneHeld
<1>4. CASE (StartSends(c) /\ byTab # Nothing) \/ (StartAnswered(c) /\ tape[c].phase = "refused")
  <2>1. startStep' = [startStep EXCEPT ![c] = "over"] /\ Answers(c, FALSE) /\ UNCHANGED tape
    BY <1>4 DEF StartSends, StartAnswered
  <2>2. startStep'[c] = "over" /\ \A d \in Captures \ {c} : startStep'[d] = startStep[d]
    BY <1>1, <2>1 DEF RecTypeOK
  <2>3. Held' = Held BY <2>1 DEF Held
  <2>4. TapeFits(c)' BY <1>1, <2>1, <2>2, <2>3 DEF TapeFits
  <2>5. /\ \A d \in Captures \ {c} : cliStep'[d] = cliStep[d] /\ adopted'[d] = adopted[d]
        /\ \/ cliStep'[c] = cliStep[c] /\ adopted'[c] = adopted[c] /\ (link # "open" \/ cliStep[c] # "asked")
           \/ cliStep'[c] = "failed"
    BY <2>1, AnswerIs
  <2>6. AnswerFits(c)'
    <3>1. CASE cliStep'[c] = "failed" BY <3>1 DEF AnswerFits
    <3>2. CASE cliStep'[c] = cliStep[c] /\ adopted'[c] = adopted[c] /\ (link # "open" \/ cliStep[c] # "asked")
      <4>1. link \in {"open", "dead", "closed"} BY <1>1 DEF RecTypeOK
      <4> QED BY <1>1, <1>2, <2>1, <2>3, <3>2, <4>1 DEF AnswerFits
    <3> QED BY <2>5, <3>1, <3>2
  <2> QED BY <1>3, <2>1, <2>2, <2>3, <2>4, <2>5, <2>6
<1>5. CASE StartSends(c) /\ byTab = Nothing
  <2>1. startStep[c] = "asked" /\ startStep' = [startStep EXCEPT ![c] = "sent"] /\ tape' = [tape EXCEPT ![c].phase = "asked"]
        /\ UNCHANGED <<cliStep, adopted>>
    BY <1>5 DEF StartSends, recordCliVars
  <2>2. tape[c] = NoTape /\ tape[c] \in Tapes BY <1>1, <2>1 DEF StartFits, RecTypeOK
  <2>3. tape'[c].phase = "asked" /\ tape'[c].queued = 0 /\ \A d \in Captures \ {c} : tape'[d] = tape[d]
    BY <1>1, <2>1, <2>2 DEF RecTypeOK, Tapes, NoTape
  <2>4. startStep'[c] = "sent" /\ \A d \in Captures \ {c} : startStep'[d] = startStep[d]
    BY <1>1, <2>1 DEF RecTypeOK
  <2>5. Held' = Held BY <2>2, <2>3 DEF Held, NoTape
  <2>6. TapeFits(c)' BY <2>3, <2>4 DEF TapeFits
  <2>7. tape[c].phase = "none" BY <2>2 DEF NoTape
  <2>8. AnswerFits(c)' BY <1>1, <1>2, <2>1, <2>3, <2>4, <2>5, <2>7 DEF AnswerFits
  <2> QED BY <1>3, <2>1, <2>3, <2>4, <2>5, <2>6, <2>8
<1>6. CASE StartAnswered(c) /\ tape[c].phase # "refused"
  <2>1. startStep[c] = "sent" /\ tape[c].phase # "asked" /\ startStep' = [startStep EXCEPT ![c] = "showing"]
        /\ UNCHANGED <<cliStep, adopted, tape>>
    BY <1>6 DEF StartAnswered, recordCliVars
  <2>2. startStep'[c] = "showing" /\ \A d \in Captures \ {c} : startStep'[d] = startStep[d]
    BY <1>1, <2>1 DEF RecTypeOK
  <2>3. Held' = Held BY <2>1 DEF Held
  <2>4. TapeFits(c)' BY <1>1, <1>6, <2>1, <2>2, <2>3 DEF TapeFits, StartFits
  <2>5. AnswerFits(c)' BY <1>1, <1>2, <2>1, <2>2, <2>3 DEF AnswerFits
  <2> QED BY <1>3, <2>1, <2>2, <2>3, <2>4, <2>5
<1>7. CASE \E shown \in BOOLEAN : StartEnds(c, shown)
  <2>1. PICK shown \in BOOLEAN : StartEnds(c, shown) BY <1>7
  <2>2. /\ startStep[c] = "showing" /\ startStep' = [startStep EXCEPT ![c] = "over"] /\ Answers(c, shown)
        /\ IF ~shown /\ c \in Held THEN StopsTape(c, "partial") ELSE UNCHANGED tape
    BY <2>1 DEF StartEnds
  <2>3. startStep'[c] = "over" /\ \A d \in Captures \ {c} : startStep'[d] = startStep[d]
    BY <1>1, <2>2 DEF RecTypeOK
  <2>4. /\ tape'[c] = tape[c] \/ (c \in Held /\ tape'[c].phase = "stopping")
        /\ \A d \in Captures \ {c} : tape'[d] = tape[d]
    <3>1. CASE ~shown /\ c \in Held
      <4>1. StopsTape(c, "partial") BY <2>2, <3>1
      <4> QED BY <3>1, <4>1, StopsTapeIs DEF TapeGoes
    <3>2. CASE ~(~shown /\ c \in Held) BY <2>2, <3>2
    <3> QED BY <3>1, <3>2
  <2>5. Held' = Held BY <2>4 DEF Held
  <2>6. TapeFits(c)' BY <1>1, <2>3, <2>4, <2>5 DEF TapeFits
  <2>7. /\ \A d \in Captures \ {c} : cliStep'[d] = cliStep[d] /\ adopted'[d] = adopted[d]
        /\ \/ cliStep'[c] = cliStep[c] /\ adopted'[c] = adopted[c] /\ (link # "open" \/ cliStep[c] # "asked")
           \/ cliStep'[c] = "failed"
           \/ cliStep[c] = "asked" /\ cliStep'[c] = "started" /\ adopted'[c] = c
    BY <2>2, AnswerIs
  <2>8. AnswerFits(c)'
    <3>1. CASE cliStep'[c] = "failed" BY <3>1 DEF AnswerFits
    <3>2. CASE cliStep'[c] = cliStep[c] /\ adopted'[c] = adopted[c] /\ (link # "open" \/ cliStep[c] # "asked")
      <4>1. link \in {"open", "dead", "closed"} BY <1>1 DEF RecTypeOK
      <4>2. tape'[c].phase \in {tape[c].phase, "stopping"} BY <2>4
      <4> QED BY <1>1, <1>2, <2>5, <3>2, <4>1, <4>2 DEF AnswerFits
    <3>3. CASE cliStep[c] = "asked" /\ cliStep'[c] = "started" /\ adopted'[c] = c
      <4>1. tape[c].phase \in {"recording", "stopping"} \/ c \in swallowed
        BY <1>1, <2>2, <3>3 DEF AnswerFits, TapeFits
      <4>2. tape'[c].phase \in {"recording", "stopping"} \/ c \in swallowed' BY <1>2, <2>4, <4>1
      <4> QED BY <3>3, <4>2 DEF AnswerFits
    <3> QED BY <2>7, <3>1, <3>2, <3>3
  <2> QED BY <1>3, <2>3, <2>4, <2>5, <2>6, <2>7, <2>8
<1> QED BY <1>4, <1>5, <1>6, <1>7 DEF StartSteps

\* A chunk goes out: of a recording the document holds, which a CLI that waits may take for its own.
LEMMA ChunkKeepsAnswers ==
  ASSUME RecInv, AllAnswersFit, NEW c \in Captures, ChunkSent(c) PROVE AllAnswersFit'
<1>1. tape[c].queued > 0 /\ UNCHANGED <<link, startStep, swallowed>> BY DEF ChunkSent, recorderVars
<1>2. RecTypeOK /\ c \in Held BY <1>1 DEF RecInv, AllAnswersFit, TapeFits
<1>3. tape[c] \in Tapes /\ tape \in [Captures -> Tapes] BY <1>2 DEF RecTypeOK
<1>4. tape'[c].phase = tape[c].phase /\ \A d \in Captures \ {c} : tape'[d] = tape[d]
  <2> DEFINE s == [tape[c] EXCEPT !.queued = @ - 1, !.next = @ + 1]
             t == [tape[c] EXCEPT !.queued = @ - 1, !.next = @ + 1, !.state = "partial"]
  <2>1. s.phase = tape[c].phase /\ t.phase = tape[c].phase BY <1>3 DEF Tapes
  <2>2. tape' = [tape EXCEPT ![c] = s] \/ tape' = [tape EXCEPT ![c] = t] BY <1>3 DEF ChunkSent
  <2> HIDE DEF s, t
  <2>3. tape'[c] \in {s, t} /\ \A d \in Captures \ {c} : tape'[d] = tape[d] BY <1>3, <2>2
  <2> QED BY <2>1, <2>3
<1>5. Held' = Held BY <1>4 DEF Held
<1>6. /\ cliStep' = cliStep
      /\ \A d \in Captures : \/ adopted'[d] = adopted[d]
                             \/ cliStep[d] # "idle" /\ adopted[d] \in {Nothing, c} /\ adopted'[d] = c
  <2>1. CASE UNCHANGED recordCliVars BY <2>1 DEF recordCliVars
  <2>2. CASE ~UNCHANGED recordCliVars
    <3> DEFINE m == [type |-> "chunk", of |-> c, seq |-> tape[c].next]
    <3>1. CliHearsChunk(m) BY <2>2 DEF ChunkSent, Sends, CliHears
    <3>2. m.of = c OBVIOUS
    <3> HIDE DEF m
    <3>3. cliStep' = cliStep /\ adopted' = [d \in Captures |-> IF CliListens(d, m) THEN c ELSE adopted[d]]
      BY <3>1, <3>2 DEF CliHearsChunk
    <3>4. \A d \in Captures : CliListens(d, m) => cliStep[d] # "idle" /\ adopted[d] \in {Nothing, c} BY <3>2 DEF CliListens
    <3> QED BY <3>3, <3>4
  <2> QED BY <2>1, <2>2
<1>7. ASSUME NEW d \in Captures PROVE AnswerFits(d)' /\ TapeFits(d)'
  <2>1. AnswerFits(d) /\ TapeFits(d) BY DEF AllAnswersFit
  <2>2. tape'[d].phase = tape[d].phase BY <1>4
  <2>3. TapeFits(d)' BY <1>1, <1>2, <1>4, <1>5, <2>1, <2>2 DEF TapeFits
  <2>4. cliStep[d] = "started" => adopted'[d] = d
    <3>1. Nothing # d BY DEF Nothing, Captures
    <3> QED BY <1>6, <2>1, <3>1 DEF AnswerFits
  <2>5. adopted[d] \in {Nothing, d} \cup Held => adopted'[d] \in {Nothing, d} \cup Held' BY <1>2, <1>5, <1>6
  <2>6. AnswerFits(d)' BY <1>1, <1>6, <2>1, <2>2, <2>4, <2>5 DEF AnswerFits
  <2> QED BY <2>3, <2>6
<1>8. OneHeld' BY <1>5 DEF AllAnswersFit, OneHeld
<1> QED BY <1>7, <1>8 DEF AllAnswersFit

\* A recording ends, and its CLI hears of that, or it is swallowed.
LEMMA EndKeepsAnswers ==
  ASSUME RecInv, AllAnswersFit, NEW c \in Captures, Completes(c) \/ CompletesAgain(c) PROVE AllAnswersFit'
<1>1. tape[c].queued = 0 /\ tape[c].phase \in {"stopping", "completing"} /\ UNCHANGED <<link, startStep>>
  BY DEF Completes, CompletesAgain, RecInv, StartFits
<1>2. RecTypeOK /\ tape[c] \in Tapes /\ tape \in [Captures -> Tapes] BY DEF RecInv, RecTypeOK
<1>3. PICK phase \in {"completing", "over"} :
        \/ EndTaken(c) /\ phase = "over"
        \/ EndRefused(c, phase)
  <2>1. EndTaken(c) \/ EndRefused(c, "completing") \/ EndRefused(c, "over") BY DEF Completes, CompletesAgain
  <2> QED BY <2>1
<1>4. tape' = [tape EXCEPT ![c].phase = phase] BY <1>3 DEF EndTaken, EndPasses, EndRefused
<1>5. tape'[c].phase = phase /\ tape'[c].queued = 0 /\ \A d \in Captures \ {c} : tape'[d] = tape[d]
  BY <1>1, <1>2, <1>4 DEF Tapes
<1>6. Held' = Held \ {c} BY <1>5 DEF Held
<1>7. OneHeld' BY <1>6 DEF AllAnswersFit, OneHeld
<1>8. startStep[c] # "sent" BY DEF Completes, CompletesAgain, EndTaken, EndRefused, Handles, Unhandled
<1>9. \A d \in Captures : TapeFits(d)' BY <1>1, <1>5, <1>6 DEF AllAnswersFit, TapeFits
<1>10. ASSUME NEW d \in Captures PROVE AnswerFits(d)'
  <2>1. AnswerFits(d) BY DEF AllAnswersFit
  <2>2. link \in {"open", "dead", "closed"} BY <1>2 DEF RecTypeOK
  <2>3. CASE EndRefused(c, phase)
    <3>1. link = "closed" /\ UNCHANGED <<cliStep, adopted>> BY <2>2, <2>3 DEF EndRefused, Unhandled, recordCliVars
    <3>2. cliStep[d] # "asked" BY <2>1, <3>1 DEF AnswerFits
    <3>3. swallowed \subseteq swallowed' /\ (phase = "over" => c \in swallowed') BY <2>3 DEF EndRefused
    <3> QED BY <1>5, <2>1, <3>1, <3>2, <3>3 DEF AnswerFits
  <2>4. CASE EndTaken(c) /\ phase = "over" /\ link # "open"
    <3>1. UNCHANGED <<cliStep, adopted>> /\ swallowed' = swallowed \cup {c}
      BY <2>4 DEF EndTaken, EndPasses, Sends, recordCliVars
    <3> QED BY <1>1, <1>5, <2>1, <2>4, <3>1 DEF AnswerFits
  <2>5. CASE EndTaken(c) /\ phase = "over" /\ link = "open"
    <3> DEFINE m == [type |-> "final", of |-> c, state |-> tape[c].state]
    <3>1. CliHearsFinal(m) /\ swallowed' = swallowed BY <2>5 DEF EndTaken, EndPasses, Sends, CliHears
    <3>2. m.of = c OBVIOUS
    <3> HIDE DEF m
    <3>3. adopted' = adopted /\ cliStep'[d] = IF CliListens(d, m) THEN "finished" ELSE cliStep[d]
      BY <3>1 DEF CliHearsFinal
    <3>4. CliListens(d, m) <=> cliStep[d] \in {"asked", "started"} /\ adopted[d] \in {Nothing, c}
      BY <3>2 DEF CliListens
    <3>5. CASE CliListens(d, m) BY <3>3, <3>5 DEF AnswerFits
    <3>6. CASE ~CliListens(d, m) /\ cliStep[d] = "asked"
      <4>1. adopted[d] \in ({d} \cup Held) \ {Nothing, c} BY <2>1, <2>5, <3>4, <3>6 DEF AnswerFits
      <4>2. d # c
        <5>1. SUFFICES ASSUME d = c PROVE FALSE OBVIOUS
        <5>2. c \in Held /\ adopted[c] \in Held \ {c} BY <1>1, <2>1, <3>6, <4>1, <5>1 DEF AnswerFits, Held
        <5> QED BY <5>2 DEF AllAnswersFit, OneHeld
      <4>3. adopted'[d] \in {d} \cup Held' BY <1>6, <3>3, <4>1
      <4> QED BY <1>1, <1>5, <2>1, <3>1, <3>3, <3>6, <4>2, <4>3 DEF AnswerFits
    <3>7. CASE ~CliListens(d, m) /\ cliStep[d] # "asked"
      <4>1. cliStep[d] = "started" => d # c BY <2>1, <3>4, <3>7 DEF AnswerFits
      <4> QED BY <1>5, <2>1, <3>1, <3>3, <3>7, <4>1 DEF AnswerFits
    <3> QED BY <3>5, <3>6, <3>7
  <2> QED BY <1>3, <2>3, <2>4, <2>5
<1> QED BY <1>7, <1>9, <1>10 DEF AllAnswersFit

\* What parts the worker, its socket or the window leaves nobody waiting.
LEMMA PartsKeepsAnswers ==
  ASSUME RecInv, AllAnswersFit, Parts,
         \A c \in Captures : startStep'[c] \in {startStep[c], "over"},
         \A c \in Captures : \/ tape'[c] = tape[c]
                             \/ /\ tape[c].phase = "none" /\ tape'[c].phase = "asked" /\ tape'[c].queued = 0
                                /\ startStep'[c] = "over"
                             \/ c \in Held /\ tape'[c].phase = "stopping"
  PROVE  AllAnswersFit'
<1>1. /\ cliStep' = [c \in Captures |-> IF cliStep[c] = "asked" THEN "failed" ELSE cliStep[c]]
      /\ UNCHANGED <<adopted, swallowed>>
  BY DEF Parts
<1>2. Held' = Held BY DEF Held
<1>3. OneHeld' BY <1>2 DEF AllAnswersFit, OneHeld
<1>4. ASSUME NEW c \in Captures PROVE AnswerFits(c)' /\ TapeFits(c)'
  <2>1. AnswerFits(c) /\ TapeFits(c) BY DEF AllAnswersFit
  <2>2. cliStep'[c] # "asked" /\ (cliStep'[c] = "started" => cliStep[c] = "started") BY <1>1
  <2>3. AnswerFits(c)' BY <1>1, <2>1, <2>2 DEF AnswerFits
  <2>4. TapeFits(c)' BY <1>2, <2>1 DEF TapeFits
  <2> QED BY <2>3, <2>4
<1> QED BY <1>3, <1>4 DEF AllAnswersFit

\* The recorder is disposed of, or ends with its worker.
LEMMA ForgottenKeepsAnswers ==
  ASSUME RecInv, AllAnswersFit, RecordingWorkerEnds \/ RecorderDisposed PROVE AllAnswersFit'
<1>1. Parts /\ StartsForgotten BY DEF RecordingWorkerEnds, RecorderDisposed
<1>2. \A c \in Captures : startStep'[c] = IF startStep[c] = "idle" THEN "idle" ELSE "over"
  BY <1>1 DEF StartsForgotten
<1>3. CASE RecordingWorkerEnds
  <2>1. tape' = tape BY <1>3 DEF RecordingWorkerEnds
  <2> QED BY <1>1, <1>2, <2>1, PartsKeepsAnswers
<1>4. CASE RecorderDisposed
  <2>1. PICK late \in SUBSET {c \in Captures : startStep[c] = "asked" /\ byTab = Nothing} :
          tape' = [c \in Captures |->
            IF c \in late THEN [tape[c] EXCEPT !.phase = "asked"]
            ELSE IF c \in byId \cap Held THEN [tape[c] EXCEPT !.phase = "stopping", !.state = "partial"]
            ELSE tape[c]]
    BY <1>4 DEF RecorderDisposed
  <2>2. \A r \in Tapes : /\ [r EXCEPT !.phase = "asked"].phase = "asked" /\ [r EXCEPT !.phase = "asked"].queued = r.queued
                         /\ [r EXCEPT !.phase = "stopping", !.state = "partial"].phase = "stopping"
    BY DEF Tapes
  <2>3. \A c \in Captures : tape[c] \in Tapes BY DEF RecInv, RecTypeOK
  <2>4. ASSUME NEW c \in Captures
        PROVE  \/ tape'[c] = tape[c]
               \/ /\ tape[c].phase = "none" /\ tape'[c].phase = "asked" /\ tape'[c].queued = 0
                  /\ startStep'[c] = "over"
               \/ c \in Held /\ tape'[c].phase = "stopping"
    <3>1. CASE c \in late
      <4>1. tape[c] = NoTape /\ startStep[c] = "asked" BY <3>1 DEF RecInv, StartFits
      <4>2. tape'[c] = [tape[c] EXCEPT !.phase = "asked"] BY <2>1, <3>1
      <4>3. tape[c].phase = "none" /\ tape[c].queued = 0 BY <4>1 DEF NoTape
      <4> QED BY <1>2, <2>2, <2>3, <4>1, <4>2, <4>3
    <3>2. CASE c \notin late /\ c \in byId \cap Held BY <2>1, <2>2, <2>3, <3>2
    <3>3. CASE c \notin late /\ c \notin byId \cap Held BY <2>1, <3>3
    <3> QED BY <3>1, <3>2, <3>3
  <2>5. \A c \in Captures : startStep'[c] \in {startStep[c], "over"} BY <1>2
  <2> QED BY <1>1, <2>4, <2>5, PartsKeepsAnswers
<1> QED BY <1>3, <1>4

\* Every step leaves everybody who waits with something to wait for.
LEMMA RecordingKeepsAnswers == RecInv /\ AllAnswersFit /\ [RecordingNext]_recordingVars => AllAnswersFit'
<1> SUFFICES ASSUME RecInv, AllAnswersFit, [RecordingNext]_recordingVars PROVE AllAnswersFit'
  OBVIOUS
<1>1. RecTypeOK /\ \A c \in Captures : tape[c] \in Tapes BY DEF RecInv, RecTypeOK
<1>2. ASSUME NEW c \in Captures, RecordAsks(c) PROVE AllAnswersFit'
  <2>1. /\ cliStep[c] = "idle" /\ link = "open" /\ cliStep' = [cliStep EXCEPT ![c] = "asked"]
        /\ startStep' = [startStep EXCEPT ![c] = "asked"] /\ UNCHANGED <<adopted, link, tape, swallowed>>
    BY <1>2 DEF RecordAsks
  <2>2. startStep[c] = "idle" /\ tape[c] = NoTape BY <2>1 DEF RecInv, StartFits
  <2>3. adopted[c] = Nothing BY <2>1 DEF AllAnswersFit, AnswerFits
  <2>4. Held' = Held BY <2>1 DEF Held
  <2>5. \A d \in Captures \ {c} : cliStep'[d] = cliStep[d] /\ startStep'[d] = startStep[d] BY <1>1, <2>1 DEF RecTypeOK
  <2>6. cliStep'[c] = "asked" /\ startStep'[c] = "asked" BY <1>1, <2>1 DEF RecTypeOK
  <2>7. tape[c].phase = "none" BY <2>2 DEF NoTape
  <2>8. AnswerFits(c)' /\ TapeFits(c)' BY <2>1, <2>2, <2>3, <2>4, <2>6, <2>7 DEF AnswerFits, TapeFits, NoTape
  <2>9. \A d \in Captures \ {c} : AnswerFits(d)' /\ TapeFits(d)'
    BY <2>1, <2>4, <2>5 DEF AllAnswersFit, AnswerFits, TapeFits
  <2> QED BY <2>4, <2>8, <2>9 DEF AllAnswersFit, OneHeld
<1>3. ASSUME NEW c \in Captures, StartSteps(c) PROVE AllAnswersFit' BY <1>3, StartKeepsAnswers
<1>4. ASSUME NEW c \in Captures, Completes(c) \/ CompletesAgain(c) PROVE AllAnswersFit' BY <1>4, EndKeepsAnswers
<1>5. ASSUME NEW c \in Captures, DocumentStarts(c) PROVE AllAnswersFit'
  <2>1. PICK phase \in {"refused", "recording"} :
          tape' = [tape EXCEPT ![c].phase = phase] /\ (phase = "recording" => Held = {})
    BY <1>5 DEF DocumentStarts
  <2>2. tape[c].phase = "asked" /\ UNCHANGED <<recordCliVars, link, startStep, swallowed>>
    BY <1>5 DEF DocumentStarts, recorderVars
  <2> DEFINE r == [tape[c] EXCEPT !.phase = phase]
  <2>3. r \in Tapes /\ r.phase = phase /\ r.queued = tape[c].queued BY <1>1 DEF Tapes
  <2>4. tape' = [tape EXCEPT ![c] = r] /\ tape \in [Captures -> Tapes] BY <1>1, <2>1 DEF RecTypeOK
  <2> HIDE DEF r
  <2>5. tape'[c] = r /\ TapeGoes(c) BY <2>2, <2>3, <2>4 DEF TapeGoes, Held
  <2>6. tape[c].queued = 0 BY <2>2 DEF AllAnswersFit, TapeFits, Held
  <2> QED BY <2>1, <2>2, <2>3, <2>5, <2>6, TapeKeepsAnswers
\* A recorder is stopped.
<1>6. ASSUME NEW c \in Captures, NEW state \in {"complete", "partial"}, StopsTape(c, state),
             UNCHANGED <<recordCliVars, link, startStep, swallowed>>
      PROVE  AllAnswersFit'
  <2>1. TapeGoes(c) /\ tape'[c].phase = "stopping" /\ tape[c].phase \in {"recording", "stopping"}
    BY <1>6, StopsTapeIs
  <2> QED BY <1>6, <2>1, TapeKeepsAnswers
<1>7. ASSUME NEW c \in Captures, RecorderEnds(c) PROVE AllAnswersFit'
  <2>1. PICK state \in {"complete", "partial"} : StopsTape(c, state) BY <1>7 DEF RecorderEnds
  <2> QED BY <1>6, <1>7, <2>1 DEF RecorderEnds, recorderVars
<1>8. ASSUME NEW c \in Captures, ChunkRecorded(c) PROVE AllAnswersFit'
  <2>1. tape' = [tape EXCEPT ![c].queued = @ + 1] /\ tape[c].phase = "recording"
        /\ UNCHANGED <<recordCliVars, link, startStep, swallowed>>
    BY <1>8 DEF ChunkRecorded, recorderVars
  <2> DEFINE r == [tape[c] EXCEPT !.queued = @ + 1]
  <2>2. r \in Tapes /\ r.phase = "recording" BY <1>1, <2>1 DEF Tapes
  <2>3. tape' = [tape EXCEPT ![c] = r] /\ tape \in [Captures -> Tapes] BY <1>1, <2>1 DEF RecTypeOK
  <2> HIDE DEF r
  <2>4. tape'[c] = r /\ TapeGoes(c) BY <2>2, <2>3 DEF TapeGoes
  <2> QED BY <2>1, <2>2, <2>4, TapeKeepsAnswers
<1>9. ASSUME NEW c \in Captures, ChunkSent(c) PROVE AllAnswersFit' BY <1>9, ChunkKeepsAnswers
\* A CLI leaves, the socket dies or returns.
<1>10. ASSUME tape' = tape, startStep' = startStep, swallowed' = swallowed, adopted' = adopted,
              link' # "closed" \/ \A c \in Captures : cliStep'[c] # "asked",
              link' = "open" => link = "open" \/ \A c \in Captures : cliStep'[c] # "asked",
              link' = "dead" \/ link' = link \/ \A c \in Captures : cliStep'[c] # "asked",
              \A c \in Captures : cliStep'[c] \in {cliStep[c], "failed"}
       PROVE  AllAnswersFit'
  <2>1. Held' = Held BY <1>10 DEF Held
  <2>2. ASSUME NEW c \in Captures PROVE AnswerFits(c)' /\ TapeFits(c)'
    <3>1. AnswerFits(c) /\ TapeFits(c) BY DEF AllAnswersFit
    <3>2. cliStep'[c] = cliStep[c] \/ cliStep'[c] = "failed" BY <1>10
    <3>3. AnswerFits(c)' BY <1>10, <2>1, <3>1, <3>2 DEF AnswerFits
    <3> QED BY <1>10, <2>1, <3>1, <3>3 DEF TapeFits
  <2> QED BY <2>1, <2>2 DEF AllAnswersFit, OneHeld
<1>11. ASSUME NEW c \in Captures, CliLeaves(c) PROVE AllAnswersFit'
  <2>1. cliStep' = [cliStep EXCEPT ![c] = "failed"] /\ UNCHANGED <<adopted, link, startStep, tape, swallowed>>
    BY <1>11 DEF CliLeaves, recorderVars
  <2>2. \A d \in Captures : cliStep'[d] \in {cliStep[d], "failed"} BY <1>1, <2>1 DEF RecTypeOK
  <2>3. link # "closed" \/ \A d \in Captures : cliStep'[d] # "asked" BY <2>2 DEF AllAnswersFit, AnswerFits
  <2> QED BY <1>10, <2>1, <2>2, <2>3
<1>12. CASE LinkDies
  <2>1. link' = "dead" /\ UNCHANGED <<cliStep, adopted, startStep, tape, swallowed>>
    BY <1>12 DEF LinkDies, recordCliVars, recorderVars
  <2> QED BY <1>10, <2>1
<1>13. CASE SocketReturns
  <2>1. link = "closed" /\ UNCHANGED <<cliStep, adopted, startStep, tape, swallowed>>
    BY <1>13 DEF SocketReturns, recordCliVars, recorderVars
  <2>2. \A c \in Captures : cliStep'[c] # "asked" BY <2>1 DEF AllAnswersFit, AnswerFits
  <2> QED BY <1>10, <2>1, <2>2
<1>14. CASE SocketLost
  <2>1. Parts /\ startStep' = startStep /\ tape' = tape BY <1>14 DEF SocketLost, recorderVars
  <2> QED BY <2>1, PartsKeepsAnswers
<1>15. CASE RecordingWorkerEnds \/ RecorderDisposed BY <1>15, ForgottenKeepsAnswers
<1>16. ASSUME NEW j \in RecordStops, StopRequests(j) PROVE AllAnswersFit'
  <2> DEFINE c == stopStep[j].of
  <2>1. /\ UNCHANGED <<recordCliVars, link, startStep, swallowed>>
        /\ IF c \in Held THEN StopsTape(c, "complete") ELSE UNCHANGED tape
    BY <1>16 DEF StopRequests
  <2> HIDE DEF c
  <2>2. CASE c \in Held
    <3>1. c \in Captures BY <2>2 DEF Held
    <3> QED BY <1>6, <2>1, <2>2, <3>1
  <2>3. CASE c \notin Held BY <2>1, <2>3, AnswersKept DEF recordCliVars
  <2> QED BY <2>2, <2>3
<1>17. ASSUME NEW j \in RecordStops, StopRecovers(j) \/ \E named \in BOOLEAN : StopAsked(j, named) PROVE AllAnswersFit'
  <2>1. UNCHANGED <<recordCliVars, link, startStep, tape, swallowed>> BY <1>17 DEF StopRecovers, StopAsked
  <2> QED BY <2>1, AnswersKept DEF recordCliVars
<1>18. CASE UNCHANGED recordingVars BY <1>18, AnswersKept DEF recordingVars, recordCliVars, recorderVars
<1> QED BY <1>2, <1>3, <1>4, <1>5, <1>7, <1>8, <1>9, <1>11, <1>12, <1>13, <1>14, <1>15, <1>16, <1>17, <1>18
        DEF RecordingNext, TapeSteps

\* A record_start that is not answered waits for a start that goes on, or for the loss of a socket
\* that is dead; and one whose recording has begun has an end to come, as its chunks and its
\* end are its own among what every CLI hears (recordSession of cli.ts, start and completeCapture
\* of the recorder): what RecordStartEnds builds on.
THEOREM StartsHaveAnEnd == RecordingSpec => []StartsAreAnswered
<1>1. RecordingInit => AllAnswersFit
  <2> SUFFICES ASSUME RecordingInit PROVE AllAnswersFit OBVIOUS
  <2>1. Held = {} BY DEF RecordingInit, Held, NoTape
  <2>2. \A c \in Captures : AnswerFits(c) /\ TapeFits(c) BY DEF RecordingInit, AnswerFits, TapeFits, NoTape
  <2> QED BY <2>1, <2>2 DEF AllAnswersFit, OneHeld
<1>2. AllAnswersFit => StartsAreAnswered BY DEF AllAnswersFit, AnswerFits, StartsAreAnswered
<1> QED BY <1>1, <1>2, RecInvariant, RecordingKeepsAnswers, PTL DEF RecordingSpec

\* The worker refuses a recording of the tab only while the document has one (BlockedWhileRecorded):
\* byTabId and byRecordingId of chrome-tab-capture-recorder.ts against captures of
\* offscreen-tab-capture.ts.
THEOREM BlockedByRecording == RecordingSpec => []BlockedWhileRecorded
<1>1. RecInv => BlockedWhileRecorded BY DEF RecInv
<1> QED BY <1>1, RecInvariant, PTL

\* A file that is called complete has all chunks of its recording, in order (ArtifactWhole):
\* recordSession of cli.ts and the document's chunk queue.
THEOREM CompleteIsWhole == RecordingSpec => []ArtifactWhole
<1>1. RecInv => ArtifactWhole
  <2> SUFFICES ASSUME RecInv, NEW c \in Captures, artifact[c] = "complete", c \notin mixed, partings = 0
               PROVE  received[c] = [n \in 1..tape[c].next + tape[c].queued |-> n - 1]
    BY DEF ArtifactWhole
  <2>1. received[c] = CountedTo(tape[c].next) /\ tape[c].queued = 0 BY DEF RecInv, ReceivedFits, StartFits
  <2>2. tape[c].next + tape[c].queued = tape[c].next
    <3>1. tape[c] \in Tapes BY DEF RecInv, RecTypeOK
    <3> QED BY <2>1, <3>1 DEF Tapes
  <2> QED BY <2>1, <2>2 DEF CountedTo
<1> QED BY <1>1, RecInvariant, PTL

-----------------------------------------------------------------------------
(* The network capture *)

LifeCycles == [phase : {"none", "starting", "active", "inactive"}, acquired : BOOLEAN, stopRequested : BOOLEAN,
               step : {"none", "acquire", "ensure", "releasing", "failing"}]

NetTypeOK ==
  /\ life \in [Epochs -> LifeCycles]
  /\ lifecycle \in 0..MaxEpochs /\ holders \subseteq Epochs
  /\ stopping \in [epoch : 0..MaxEpochs, releases : BOOLEAN]
  /\ waitingStarts \in Nat
  /\ netEngine \in [disposed : BOOLEAN, closed : BOOLEAN, transport : BOOLEAN]

\* A life cycle that has not begun has nothing; one that waits for the debugger has not got it.
EpochFits(e) ==
  /\ life[e].phase = "none" => life[e].step = "none" /\ ~life[e].acquired
  /\ life[e].step = "acquire" => ~life[e].acquired

\* An owner that holds the debugger is of a start that goes on, or of a capture that is active,
\* or somebody is about to release it.
HolderFits(e) ==
  \/ life[e].acquired /\ (life[e].step = "ensure" \/ lifecycle = e)
  \/ life[e].step = "releasing"
  \/ stopping = [epoch |-> e, releases |-> TRUE]

\* The current life cycle is starting or active, and holds the debugger once it has acquired it.
LifecycleFits ==
  lifecycle # 0 =>
    /\ stopping = NoStop
    /\ \/ life[lifecycle].phase = "starting" /\ life[lifecycle].step = "acquire"
       \/ /\ life[lifecycle].phase = "starting" /\ life[lifecycle].step = "ensure"
          /\ life[lifecycle].acquired /\ lifecycle \in holders
       \/ /\ life[lifecycle].phase = "active" /\ life[lifecycle].step = "none"
          /\ life[lifecycle].acquired /\ lifecycle \in holders

NetInv ==
  /\ NetTypeOK /\ LifecycleFits
  /\ \A e \in Epochs : EpochFits(e) /\ (e \in holders => HolderFits(e))

\* What a step leaves alone when it leaves the life cycles alone.
LEMMA LogKeeps == NetInv /\ UNCHANGED lifeVars => NetInv'
BY DEF NetInv, NetTypeOK, EpochFits, HolderFits, LifecycleFits, lifeVars

\* Starts make life cycles that had not begun; the last of them is the current one.
LEMMA BeginIs ==
  ASSUME NetTypeOK, NEW count \in Nat \ {0}, Begin(count)
  PROVE  /\ lifecycle' \in Epochs /\ life' \in [Epochs -> LifeCycles]
         /\ life[lifecycle'].phase = "none"
         /\ life'[lifecycle'].phase = "starting" /\ life'[lifecycle'].step = "acquire"
         /\ \A e \in Epochs : \/ life'[e] = life[e]
                              \/ /\ life[e].phase = "none"
                                 /\ life'[e] = [life[e] EXCEPT !.phase = "starting", !.step = "acquire"]
<1>1. PICK n \in 0..MaxEpochs :
        LET new == (n + 1)..(n + count) IN
        /\ new \subseteq Epochs
        /\ \A e \in Epochs : e <= n <=> life[e].phase # "none"
        /\ life' = [e \in Epochs |->
             IF e \in new THEN [life[e] EXCEPT !.phase = "starting", !.step = "acquire"] ELSE life[e]]
        /\ lifecycle' = n + count
  BY DEF Begin
<1>2. n + count \in (n + 1)..(n + count) /\ \A e \in (n + 1)..(n + count) : ~(e <= n)
  BY NetworkAssumption
<1>3. lifecycle' \in Epochs BY <1>1, <1>2
<1>4. \A e \in Epochs : life[e] \in LifeCycles BY DEF NetTypeOK
<1>5. \A e \in Epochs : [life[e] EXCEPT !.phase = "starting", !.step = "acquire"] \in LifeCycles
  BY <1>4 DEF LifeCycles
<1>6. \A e \in Epochs : /\ [life[e] EXCEPT !.phase = "starting", !.step = "acquire"].phase = "starting"
                        /\ [life[e] EXCEPT !.phase = "starting", !.step = "acquire"].step = "acquire"
  BY <1>4 DEF LifeCycles
<1>7. life' \in [Epochs -> LifeCycles] BY <1>1, <1>4, <1>5
<1>8. \A e \in Epochs : \/ life'[e] = life[e]
                        \/ /\ life[e].phase = "none"
                           /\ life'[e] = [life[e] EXCEPT !.phase = "starting", !.step = "acquire"]
  BY <1>1, <1>2
<1> QED BY <1>1, <1>2, <1>3, <1>6, <1>7, <1>8

\* A life cycle that begins takes nothing from an active one.
LEMMA BeginKeeps ==
  ASSUME NetInv, NEW count \in Nat \ {0}, Begin(count),
         lifecycle # 0 => life[lifecycle].phase # "active",
         holders' \subseteq holders, waitingStarts' \in Nat, UNCHANGED netEngine,
         \/ stopping = NoStop /\ stopping' = NoStop /\ holders' = holders
         \/ stopping # NoStop /\ stopping' = NoStop /\ lifecycle = 0
            /\ (stopping.releases => stopping.epoch \notin holders')
  PROVE  NetInv'
<1>1. NetTypeOK BY DEF NetInv
<1> DEFINE Started(r) == [r EXCEPT !.phase = "starting", !.step = "acquire"]
<1>2. /\ lifecycle' \in Epochs /\ life' \in [Epochs -> LifeCycles]
      /\ life'[lifecycle'].phase = "starting" /\ life'[lifecycle'].step = "acquire"
      /\ \A e \in Epochs : life'[e] = life[e] \/ (life[e].phase = "none" /\ life'[e] = Started(life[e]))
  BY <1>1, BeginIs
<1>3. \A e \in Epochs : life[e] \in LifeCycles BY <1>1 DEF NetTypeOK
<1>4. \A r \in LifeCycles : /\ Started(r).phase = "starting" /\ Started(r).step = "acquire"
                            /\ Started(r).acquired = r.acquired
  BY DEF LifeCycles
<1> HIDE DEF Started
<1>5. NetTypeOK'
  <2>1. lifecycle' \in 0..MaxEpochs /\ 0 \in 0..MaxEpochs BY <1>2, NetworkAssumption DEF Epochs
  <2>2. stopping' \in [epoch : 0..MaxEpochs, releases : BOOLEAN] 
    <3>1. stopping' = [epoch |-> 0, releases |-> FALSE] BY DEF NoStop
    <3> QED BY <2>1, <3>1
  <2> QED BY <1>1, <1>2, <2>1, <2>2 DEF NetTypeOK
<1>6. ASSUME NEW e \in Epochs PROVE EpochFits(e)'
  BY <1>2, <1>3, <1>4 DEF NetInv, EpochFits
<1>7. ASSUME NEW e \in Epochs, e \in holders' PROVE HolderFits(e)'
  <2>1. e \in holders /\ ~(stopping = [epoch |-> e, releases |-> TRUE])
    BY <1>7 DEF NoStop
  <2>2. \/ life[e].acquired /\ (life[e].step = "ensure" \/ lifecycle = e)
        \/ life[e].step = "releasing"
    BY <2>1 DEF NetInv, HolderFits
  <2>3. life[e].phase # "none" BY <2>2 DEF NetInv, EpochFits
  <2>4. life'[e] = life[e] BY <1>2, <2>3
  <2>5. lifecycle = e => life[e].step \in {"acquire", "ensure"}
    BY NetworkAssumption DEF NetInv, LifecycleFits, Epochs
  <2>6. life[e].acquired => life[e].step # "acquire" BY DEF NetInv, EpochFits
  <2> QED BY <2>2, <2>4, <2>5, <2>6 DEF HolderFits
<1>8. LifecycleFits'
  BY <1>2 DEF LifecycleFits
<1> QED BY <1>5, <1>6, <1>7, <1>8 DEF NetInv

\* A start replaces the capture of before (start).
LEMMA NetStartKeeps == NetInv /\ NetStart => NetInv'
<1> SUFFICES ASSUME NetInv, NetStart PROVE NetInv'
  OBVIOUS
<1>1. UNCHANGED <<holders, stopping, netEngine>> /\ (lifecycle # 0 => life[lifecycle].phase # "active")
  BY DEF NetStart
<1>2. CASE stopping = NoStop
  BY <1>1, <1>2, BeginKeeps DEF NetStart, NetInv, NetTypeOK
<1>3. CASE stopping # NoStop
  <2>1. waitingStarts' = waitingStarts + 1 /\ UNCHANGED <<life, lifecycle, holders, stopping, netEngine>>
    BY <1>1, <1>3 DEF NetStart
  <2>2. waitingStarts' \in Nat BY <2>1 DEF NetInv, NetTypeOK
  <2> QED BY <2>1, <2>2 DEF NetInv, NetTypeOK, EpochFits, HolderFits, LifecycleFits
<1> QED BY <1>2, <1>3

\* The parts of a life cycle that is cleaned.
LEMMA CleanedIs ==
  ASSUME NEW r \in LifeCycles, NEW step \in {"none", "acquire", "ensure", "releasing", "failing"}
  PROVE  /\ Cleaned(r, step) \in LifeCycles /\ Cleaned(r, step).phase = "inactive"
         /\ Cleaned(r, step).acquired = FALSE /\ Cleaned(r, step).step = step
BY DEF Cleaned, LifeCycles

\* One life cycle moves; what the others hold is theirs.
LEMMA OneMoves ==
  ASSUME NetInv, NEW e \in Epochs, life' \in [Epochs -> LifeCycles],
         \A f \in Epochs \ {e} : life'[f] = life[f],
         lifecycle' = lifecycle \/ (lifecycle' = 0 /\ lifecycle = e),
         stopping' = stopping, \A f \in holders' : f \in holders \/ f = e
  PROVE  \A f \in Epochs \ {e} : EpochFits(f)' /\ (f \in holders' => HolderFits(f)')
<1> SUFFICES ASSUME NEW f \in Epochs \ {e} PROVE EpochFits(f)' /\ (f \in holders' => HolderFits(f)')
  OBVIOUS
<1>1. life'[f] = life[f] /\ (f \in holders' => f \in holders) /\ (lifecycle = f => lifecycle' = f) OBVIOUS
<1>2. EpochFits(f) /\ (f \in holders => HolderFits(f)) BY DEF NetInv
<1> QED BY <1>1, <1>2 DEF EpochFits, HolderFits

\* A start fails: if it has acquired the debugger it is about to release it.
LEMMA StartFailsKeeps ==
  ASSUME NetInv, NEW e \in Epochs, NEW r \in LifeCycles, StartFails(e, r),
         life[e].phase # "none", life[e].step \in {"acquire", "ensure"},
         UNCHANGED <<stopping, netEngine, waitingStarts>>,
         \/ holders' = holders /\ r.acquired = life[e].acquired /\ (e \in holders /\ ~life[e].acquired => stopping = [epoch |-> e, releases |-> TRUE])
         \/ holders' = holders \cup {e} /\ r.acquired
  PROVE  NetInv'
<1> DEFINE step == IF r.acquired THEN "releasing" ELSE "failing"
<1>1. life' = [life EXCEPT ![e] = Cleaned(r, step)] /\ lifecycle' = (IF lifecycle = e THEN 0 ELSE lifecycle)
  BY DEF StartFails, Forget
<1>2. step \in {"none", "acquire", "ensure", "releasing", "failing"} /\ step # "acquire" /\ (r.acquired => step = "releasing") OBVIOUS
<1> HIDE DEF step
<1>3. NetTypeOK BY DEF NetInv
<1>4. life' \in [Epochs -> LifeCycles] /\ life'[e] = Cleaned(r, step) /\ \A f \in Epochs \ {e} : life'[f] = life[f]
  <2>1. Cleaned(r, step) \in LifeCycles BY <1>2, CleanedIs
  <2> QED BY <1>1, <1>3, <2>1 DEF NetTypeOK
<1>5. life'[e].phase = "inactive" /\ life'[e].acquired = FALSE /\ life'[e].step = step
  <2>1. /\ Cleaned(r, step).phase = "inactive" /\ Cleaned(r, step).acquired = FALSE
        /\ Cleaned(r, step).step = step
    BY <1>2, CleanedIs
  <2> QED BY <1>4, <2>1
<1>6. \A f \in Epochs \ {e} : EpochFits(f)' /\ (f \in holders' => HolderFits(f)')
  <2>1. \A f \in holders' : f \in holders \/ f = e OBVIOUS
  <2>2. lifecycle' = lifecycle \/ (lifecycle' = 0 /\ lifecycle = e) BY <1>1
  <2> QED BY <1>4, <2>1, <2>2, OneMoves
<1>7. EpochFits(e)' /\ (e \in holders' => HolderFits(e)')
  BY <1>2, <1>5 DEF EpochFits, HolderFits
<1>8. NetTypeOK'
  BY <1>1, <1>3, <1>4, NetworkAssumption DEF NetTypeOK
<1>9. LifecycleFits'
  <2>1. lifecycle' # 0 => lifecycle' = lifecycle /\ lifecycle # e BY <1>1
  <2>2. lifecycle' # 0 => lifecycle \in Epochs \ {e} BY <1>3, <2>1, NetworkAssumption DEF NetTypeOK, Epochs
  <2> QED BY <1>4, <2>1, <2>2 DEF NetInv, LifecycleFits
<1> QED BY <1>6, <1>7, <1>8, <1>9 DEF NetInv

\* An owner acquires the debugger, or cannot.
LEMMA NetAcquiredKeeps == NetInv /\ (\E e \in Epochs : NetAcquired(e)) => NetInv'
<1> SUFFICES ASSUME NetInv, NEW e \in Epochs, NetAcquired(e) PROVE NetInv'
  OBVIOUS
<1> DEFINE r == [life[e] EXCEPT !.acquired = netEngine.transport]
<1>1. /\ life[e].step = "acquire" /\ UNCHANGED <<stopping, waitingStarts, netEngine>>
      /\ holders' = (IF r.acquired THEN holders \cup {e} ELSE holders)
      /\ IF r.acquired /\ MayGoOn(e)
         THEN life' = [life EXCEPT ![e] = [r EXCEPT !.step = "ensure"]] /\ UNCHANGED lifecycle
         ELSE StartFails(e, r)
  BY DEF NetAcquired
<1>2. life[e] \in LifeCycles /\ netEngine.transport \in BOOLEAN BY DEF NetInv, NetTypeOK
<1>3. /\ r \in LifeCycles /\ r.acquired = netEngine.transport
      /\ r.phase = life[e].phase /\ r.step = life[e].step
  BY <1>2 DEF LifeCycles
<1>4. ~life[e].acquired /\ life[e].phase # "none" BY <1>1 DEF NetInv, EpochFits
<1> HIDE DEF r
<1>5. CASE ~(r.acquired /\ MayGoOn(e))
  <2>1. StartFails(e, r) BY <1>1, <1>5
  <2>2. CASE r.acquired BY <1>1, <1>3, <1>4, <2>1, <2>2, StartFailsKeeps
  <2>3. CASE ~r.acquired
    <3>1. e \in holders => stopping = [epoch |-> e, releases |-> TRUE]
      <4>1. lifecycle = e => life[e].step # "acquire" \/ ~life[e].acquired BY <1>4
      <4> QED BY <1>1, <1>4 DEF NetInv, HolderFits
    <3>2. r.acquired = FALSE /\ life[e].acquired = FALSE
      BY <1>2, <1>3, <1>4, <2>3 DEF LifeCycles
    <3> QED BY <1>1, <1>3, <1>4, <2>1, <2>3, <3>1, <3>2, StartFailsKeeps
  <2> QED BY <2>2, <2>3
<1>6. CASE r.acquired /\ MayGoOn(e)
  <2>1. life' = [life EXCEPT ![e] = [r EXCEPT !.step = "ensure"]] /\ lifecycle' = lifecycle
        /\ holders' = holders \cup {e}
    BY <1>1, <1>6
  <2>2. /\ [r EXCEPT !.step = "ensure"] \in LifeCycles /\ [r EXCEPT !.step = "ensure"].step = "ensure"
        /\ [r EXCEPT !.step = "ensure"].acquired = r.acquired /\ [r EXCEPT !.step = "ensure"].phase = r.phase
    BY <1>3 DEF LifeCycles
  <2>3. /\ life' \in [Epochs -> LifeCycles] /\ life'[e] = [r EXCEPT !.step = "ensure"]
        /\ \A f \in Epochs \ {e} : life'[f] = life[f]
    BY <2>1, <2>2 DEF NetInv, NetTypeOK
  <2>4. \A f \in Epochs \ {e} : EpochFits(f)' /\ (f \in holders' => HolderFits(f)')
    BY <1>1, <2>1, <2>3, OneMoves
  <2>5. EpochFits(e)' /\ HolderFits(e)'
    BY <1>3, <1>4, <1>6, <2>2, <2>3 DEF EpochFits, HolderFits
  <2>6. NetTypeOK' BY <1>1, <2>1, <2>3 DEF NetInv, NetTypeOK
  <2>7. LifecycleFits'
    <3>1. lifecycle = e BY <1>6 DEF MayGoOn
    <3>2. stopping = NoStop /\ life[e].phase = "starting"
      BY <1>1, <3>1, NetworkAssumption DEF NetInv, LifecycleFits, Epochs
    <3> QED BY <1>1, <1>3, <1>6, <2>1, <2>2, <2>3, <3>1, <3>2 DEF LifecycleFits
  <2> QED BY <2>4, <2>5, <2>6, <2>7 DEF NetInv
<1> QED BY <1>5, <1>6

\* The domain is enabled, and the capture is active if its start may go on.
LEMMA NetEnabledKeeps == NetInv /\ (\E e \in Epochs : NetEnabled(e)) => NetInv'
<1> SUFFICES ASSUME NetInv, NEW e \in Epochs, NetEnabled(e) PROVE NetInv'
  OBVIOUS
<1>1. /\ life[e].step = "ensure" /\ UNCHANGED <<holders, stopping, waitingStarts, netEngine>>
      /\ IF netEngine.transport /\ MayGoOn(e)
         THEN life' = [life EXCEPT ![e].phase = "active", ![e].step = "none"] /\ UNCHANGED lifecycle
         ELSE StartFails(e, life[e])
  BY DEF NetEnabled
<1>2. life[e] \in LifeCycles BY DEF NetInv, NetTypeOK
<1>3. life[e].phase # "none" BY <1>1 DEF NetInv, EpochFits
<1>4. CASE ~(netEngine.transport /\ MayGoOn(e))
  <2>1. e \in holders /\ ~life[e].acquired => stopping = [epoch |-> e, releases |-> TRUE]
    BY <1>1 DEF NetInv, HolderFits
  <2> QED BY <1>1, <1>2, <1>3, <1>4, <2>1, StartFailsKeeps
<1>5. CASE netEngine.transport /\ MayGoOn(e)
  <2>1. lifecycle = e /\ lifecycle # 0 BY <1>5, NetworkAssumption DEF MayGoOn, Epochs
  <2>2. stopping = NoStop /\ life[e].acquired /\ e \in holders
    BY <1>1, <2>1 DEF NetInv, LifecycleFits
  <2> DEFINE s == [life[e] EXCEPT !.phase = "active", !.step = "none"]
  <2>3. s \in LifeCycles /\ s.phase = "active" /\ s.step = "none" /\ s.acquired = life[e].acquired
    BY <1>2 DEF LifeCycles
  <2>4. life' = [life EXCEPT ![e] = s] /\ lifecycle' = lifecycle
    BY <1>1, <1>2, <1>5 DEF NetInv, NetTypeOK
  <2> HIDE DEF s
  <2>5. life' \in [Epochs -> LifeCycles] /\ life'[e] = s /\ \A f \in Epochs \ {e} : life'[f] = life[f]
    BY <2>3, <2>4 DEF NetInv, NetTypeOK
  <2>6. \A f \in Epochs \ {e} : EpochFits(f)' /\ (f \in holders' => HolderFits(f)')
    BY <1>1, <2>4, <2>5, OneMoves
  <2>7. EpochFits(e)' /\ HolderFits(e)'
    BY <2>1, <2>2, <2>3, <2>4, <2>5 DEF EpochFits, HolderFits
  <2>8. NetTypeOK' BY <1>1, <2>4, <2>5 DEF NetInv, NetTypeOK
  <2>9. LifecycleFits'
    BY <1>1, <2>1, <2>2, <2>3, <2>4, <2>5 DEF LifecycleFits
  <2> QED BY <2>6, <2>7, <2>8, <2>9 DEF NetInv
<1> QED BY <1>4, <1>5

\* A start that fails has released what it held.
LEMMA NetStartFailedKeeps == NetInv /\ (\E e \in Epochs : NetStartFailed(e)) => NetInv'
<1> SUFFICES ASSUME NetInv, NEW e \in Epochs, NetStartFailed(e) PROVE NetInv'
  OBVIOUS
<1>1. /\ life[e].step \in {"releasing", "failing"} /\ life' = [life EXCEPT ![e].step = "none"]
      /\ holders' = (IF life[e].step = "releasing" THEN holders \ {e} ELSE holders)
      /\ UNCHANGED <<lifecycle, stopping, waitingStarts, netEngine>>
  BY DEF NetStartFailed
<1> DEFINE s == [life[e] EXCEPT !.step = "none"]
<1>2. s \in LifeCycles /\ s.phase = life[e].phase /\ s.step = "none" /\ s.acquired = life[e].acquired
  <2>1. life[e] \in LifeCycles BY DEF NetInv, NetTypeOK
  <2> QED BY <2>1 DEF LifeCycles
<1>3. life' = [life EXCEPT ![e] = s] BY <1>1
<1> HIDE DEF s
<1>4. life' \in [Epochs -> LifeCycles] /\ life'[e] = s /\ \A f \in Epochs \ {e} : life'[f] = life[f]
  BY <1>2, <1>3 DEF NetInv, NetTypeOK
<1>5. \A f \in Epochs \ {e} : EpochFits(f)' /\ (f \in holders' => HolderFits(f)')
  BY <1>1, <1>4, OneMoves
<1>6. lifecycle # e
  <2>1. SUFFICES ASSUME lifecycle = e PROVE FALSE
    OBVIOUS
  <2>2. life[e].step \in {"acquire", "ensure", "none"}
    BY <2>1, NetworkAssumption DEF NetInv, LifecycleFits, Epochs
  <2> QED BY <1>1, <2>2
<1>7. EpochFits(e)' /\ (e \in holders' => HolderFits(e)')
  <2>1. life[e].phase # "none" BY <1>1 DEF NetInv, EpochFits
  <2>2. e \in holders' => stopping = [epoch |-> e, releases |-> TRUE]
    BY <1>1, <1>6 DEF NetInv, HolderFits
  <2> QED BY <1>1, <1>2, <1>4, <2>1, <2>2 DEF EpochFits, HolderFits
<1>8. NetTypeOK' BY <1>1, <1>4 DEF NetInv, NetTypeOK
<1>9. LifecycleFits'
  <2>1. lifecycle # 0 => lifecycle \in Epochs \ {e} BY <1>6, NetworkAssumption DEF NetInv, NetTypeOK, Epochs
  <2> QED BY <1>1, <1>4, <2>1 DEF NetInv, LifecycleFits
<1> QED BY <1>5, <1>7, <1>8, <1>9 DEF NetInv

\* The current life cycle is ended, and somebody will release what it has acquired.
LEMMA StopCurrentKeeps ==
  ASSUME NetInv, StopCurrent, UNCHANGED <<holders, waitingStarts>>,
         netEngine' \in [disposed : BOOLEAN, closed : BOOLEAN, transport : BOOLEAN]
  PROVE  NetInv'
<1>1. CASE lifecycle = 0 \/ stopping # NoStop
  BY <1>1 DEF StopCurrent, NetInv, NetTypeOK, EpochFits, HolderFits, LifecycleFits
<1>2. CASE lifecycle # 0 /\ stopping = NoStop
  <2> DEFINE e == lifecycle
             s == Cleaned(life[e], life[e].step)
  <2>1. /\ life' = [life EXCEPT ![e] = s] /\ lifecycle' = 0
        /\ stopping' = [epoch |-> e, releases |-> life[e].acquired]
    BY <1>2 DEF StopCurrent
  <2>2. e \in Epochs /\ life[e] \in LifeCycles
    BY <1>2, NetworkAssumption DEF NetInv, NetTypeOK, Epochs
  <2>3. s \in LifeCycles /\ s.phase = "inactive" /\ s.acquired = FALSE /\ s.step = life[e].step
    <3>1. life[e].step \in {"none", "acquire", "ensure", "releasing", "failing"} BY <2>2 DEF LifeCycles
    <3> QED BY <2>2, <3>1, CleanedIs
  <2>4. e \in holders => life[e].acquired
    <3>1. life[e].step # "releasing" BY <1>2 DEF NetInv, LifecycleFits
    <3>2. stopping # [epoch |-> e, releases |-> TRUE] BY <1>2 DEF NoStop
    <3> QED BY <2>2, <3>1, <3>2 DEF NetInv, HolderFits
  <2>5. life[e].acquired \in BOOLEAN BY <2>2 DEF LifeCycles
  <2>9. e \in 0..MaxEpochs BY DEF NetInv, NetTypeOK
  <2> HIDE DEF e, s
  <2>6. life' \in [Epochs -> LifeCycles] /\ life'[e] = s /\ \A f \in Epochs \ {e} : life'[f] = life[f]
    BY <2>1, <2>2, <2>3 DEF NetInv, NetTypeOK
  <2>7. NetTypeOK'
    <3>1. stopping' \in [epoch : 0..MaxEpochs, releases : BOOLEAN] BY <2>1, <2>5, <2>9
    <3>2. lifecycle' \in 0..MaxEpochs BY <2>1, NetworkAssumption
    <3> QED BY <2>6, <3>1, <3>2 DEF NetInv, NetTypeOK
  <2>8. ASSUME NEW f \in Epochs PROVE EpochFits(f)' /\ (f \in holders' => HolderFits(f)')
    <3>1. CASE f # e
      <4>1. life'[f] = life[f] /\ lifecycle # f /\ EpochFits(f) /\ (f \in holders => HolderFits(f))
        BY <2>6, <3>1 DEF NetInv, e
      <4>2. stopping # [epoch |-> f, releases |-> TRUE] BY <1>2 DEF NoStop
      <4> QED BY <4>1, <4>2 DEF EpochFits, HolderFits
    <3>2. CASE f = e
      <4>1. life'[e].phase = "inactive" /\ life'[e].acquired = FALSE BY <2>3, <2>6
      <4>2. e \in holders => stopping' = [epoch |-> e, releases |-> TRUE] BY <2>1, <2>4, <2>5
      <4> QED BY <3>2, <4>1, <4>2 DEF EpochFits, HolderFits
    <3> QED BY <3>1, <3>2
  <2>10. LifecycleFits' BY <2>1 DEF LifecycleFits
  <2> QED BY <2>7, <2>8, <2>10 DEF NetInv
<1> QED BY <1>1, <1>2

\* A stop that finds a start under way leaves it to end.
LEMMA StopKeeps ==
  ASSUME NetInv, Stop, UNCHANGED <<holders, waitingStarts>>,
         netEngine' \in [disposed : BOOLEAN, closed : BOOLEAN, transport : BOOLEAN]
  PROVE  NetInv'
<1>1. CASE ~(starting /\ lifecycle # 0 /\ life[lifecycle].phase = "starting")
  BY <1>1, StopCurrentKeeps DEF Stop
<1>2. CASE starting /\ lifecycle # 0 /\ life[lifecycle].phase = "starting"
  <2> DEFINE e == lifecycle
             s == [life[e] EXCEPT !.stopRequested = TRUE]
  <2>1. life' = [life EXCEPT ![e] = s] /\ UNCHANGED <<lifecycle, stopping>> BY <1>2 DEF Stop
  <2>2. e \in Epochs /\ life[e] \in LifeCycles
    BY <1>2, NetworkAssumption DEF NetInv, NetTypeOK, Epochs
  <2>3. s \in LifeCycles /\ s.phase = life[e].phase /\ s.acquired = life[e].acquired /\ s.step = life[e].step
    BY <2>2 DEF LifeCycles
  <2> HIDE DEF e, s
  <2>4. life' \in [Epochs -> LifeCycles] /\ life'[e] = s /\ \A f \in Epochs \ {e} : life'[f] = life[f]
    BY <2>1, <2>2, <2>3 DEF NetInv, NetTypeOK
  <2>5. \A f \in Epochs : life'[f].phase = life[f].phase /\ life'[f].acquired = life[f].acquired
                          /\ life'[f].step = life[f].step
    BY <2>3, <2>4
  <2>6. NetTypeOK' BY <2>1, <2>4 DEF NetInv, NetTypeOK
  <2>7. \A f \in Epochs : EpochFits(f)' /\ (f \in holders' => HolderFits(f)')
    BY <2>1, <2>5 DEF NetInv, EpochFits, HolderFits
  <2>8. LifecycleFits'
    BY <2>1, <2>2, <2>5 DEF NetInv, LifecycleFits, e
  <2> QED BY <2>6, <2>7, <2>8 DEF NetInv
<1> QED BY <1>1, <1>2

\* A capture is stopped or its tab disposed (stop, dispose).
LEMMA NetStopKeeps == NetInv /\ (NetStop \/ NetDispose \/ NetStopResumes) => NetInv'
<1> SUFFICES ASSUME NetInv, NetStop \/ NetDispose \/ NetStopResumes PROVE NetInv'
  OBVIOUS
<1>1. UNCHANGED <<holders, waitingStarts>> BY DEF NetStop, NetDispose, NetStopResumes
<1>2. netEngine' \in [disposed : BOOLEAN, closed : BOOLEAN, transport : BOOLEAN]
  BY DEF NetStop, NetDispose, NetStopResumes, NetInv, NetTypeOK
<1>3. CASE NetStop \/ NetDispose BY <1>1, <1>2, <1>3, StopKeeps DEF NetStop, NetDispose
<1>4. CASE NetStopResumes BY <1>1, <1>2, <1>4, StopCurrentKeeps DEF NetStopResumes
<1> QED BY <1>3, <1>4

\* The debugger is released; starts that waited for it begin.
LEMMA NetStoppedKeeps == NetInv /\ NetStopped => NetInv'
<1> SUFFICES ASSUME NetInv, NetStopped PROVE NetInv'
  OBVIOUS
<1>1. /\ stopping # NoStop /\ stopping' = NoStop /\ waitingStarts' = 0 /\ UNCHANGED netEngine
      /\ holders' = (IF stopping.releases THEN holders \ {stopping.epoch} ELSE holders)
      /\ IF waitingStarts = 0 THEN UNCHANGED <<life, lifecycle>> ELSE Begin(waitingStarts)
  BY DEF NetStopped
<1>2. lifecycle = 0 BY <1>1 DEF NetInv, LifecycleFits
<1>3. waitingStarts \in Nat BY DEF NetInv, NetTypeOK
<1>4. CASE waitingStarts # 0
  BY <1>1, <1>2, <1>3, <1>4, BeginKeeps
<1>5. CASE waitingStarts = 0
  <2>1. UNCHANGED <<life, lifecycle>> BY <1>1, <1>5
  <2>2. NetTypeOK'
    <3>1. 0 \in 0..MaxEpochs BY NetworkAssumption
    <3>2. stopping' \in [epoch : 0..MaxEpochs, releases : BOOLEAN]
      <4>1. stopping' = [epoch |-> 0, releases |-> FALSE] BY <1>1 DEF NoStop
      <4> QED BY <3>1, <4>1
    <3> QED BY <1>1, <2>1, <3>2 DEF NetInv, NetTypeOK
  <2>3. ASSUME NEW f \in Epochs PROVE EpochFits(f)' /\ (f \in holders' => HolderFits(f)')
    <3>1. f \in holders' => f \in holders /\ stopping # [epoch |-> f, releases |-> TRUE] BY <1>1
    <3> QED BY <2>1, <3>1 DEF NetInv, EpochFits, HolderFits
  <2>4. LifecycleFits' BY <1>1, <1>2, <2>1 DEF LifecycleFits
  <2> QED BY <2>2, <2>3, <2>4 DEF NetInv
<1> QED BY <1>4, <1>5

\* The transport closes: nobody holds the debugger, and a capture that listens is over.
LEMMA NetTransportKeeps == NetInv /\ NetTransportCloses => NetInv'
<1> SUFFICES ASSUME NetInv, NetTransportCloses PROVE NetInv'
  OBVIOUS
<1> DEFINE wasTold == lifecycle # 0 /\ life[lifecycle].acquired
           e == lifecycle
           s == Cleaned(life[e], life[e].step)
<1>1. /\ holders' = {} /\ UNCHANGED <<stopping, waitingStarts>>
      /\ netEngine' = [netEngine EXCEPT !.transport = FALSE, !.closed = @ \/ wasTold]
      /\ IF wasTold THEN life' = [life EXCEPT ![e] = s] /\ lifecycle' = 0 ELSE UNCHANGED <<life, lifecycle>>
  BY DEF NetTransportCloses
<1>2. netEngine' \in [disposed : BOOLEAN, closed : BOOLEAN, transport : BOOLEAN]
  <2>1. netEngine \in [disposed : BOOLEAN, closed : BOOLEAN, transport : BOOLEAN] BY DEF NetInv, NetTypeOK
  <2>2. (netEngine.closed \/ wasTold) \in BOOLEAN BY <2>1 DEF wasTold
  <2> HIDE DEF wasTold
  <2> QED BY <1>1, <2>1, <2>2
<1>3. CASE wasTold
  <2>1. e \in Epochs /\ life[e] \in LifeCycles
    BY <1>3, NetworkAssumption DEF NetInv, NetTypeOK, Epochs
  <2>2. s \in LifeCycles /\ s.phase = "inactive" /\ s.acquired = FALSE /\ s.step = life[e].step
    <3>1. life[e].step \in {"none", "acquire", "ensure", "releasing", "failing"} BY <2>1 DEF LifeCycles
    <3> QED BY <2>1, <3>1, CleanedIs
  <2>3. life' = [life EXCEPT ![e] = s] /\ lifecycle' = 0 BY <1>1, <1>3
  <2> HIDE DEF wasTold, e, s
  <2>4. life' \in [Epochs -> LifeCycles] /\ life'[e] = s /\ \A f \in Epochs \ {e} : life'[f] = life[f]
    BY <2>1, <2>2, <2>3 DEF NetInv, NetTypeOK
  <2>5. NetTypeOK' BY <1>1, <1>2, <2>3, <2>4, NetworkAssumption DEF NetInv, NetTypeOK
  <2>6. \A f \in Epochs : EpochFits(f)'
    BY <2>2, <2>4 DEF NetInv, EpochFits
  <2>7. LifecycleFits'
    BY <1>1, <2>2, <2>3, <2>4 DEF NetInv, LifecycleFits
  <2> QED BY <1>1, <2>5, <2>6, <2>7 DEF NetInv
<1>4. CASE ~wasTold
  <2>1. UNCHANGED <<life, lifecycle>> BY <1>1, <1>4
  <2>2. lifecycle # 0 => ~life[lifecycle].acquired BY <1>4
  <2> HIDE DEF wasTold
  <2> QED BY <1>1, <1>2, <2>1, <2>2 DEF NetInv, NetTypeOK, EpochFits, LifecycleFits
<1> QED BY <1>3, <1>4

\* The invariant holds in every behaviour.
LEMMA NetInvariant == NetSpec => []NetInv
<1>1. NetInit => NetInv
  <2> SUFFICES ASSUME NetInit PROVE NetInv
    OBVIOUS
  <2>1. \A e \in Epochs : life[e] = [phase |-> "none", acquired |-> FALSE, stopRequested |-> FALSE, step |-> "none"]
    BY DEF NetInit
  <2>2. NetTypeOK
    <3>1. 0 \in 0..MaxEpochs BY NetworkAssumption
    <3>2. life \in [Epochs -> LifeCycles] BY DEF NetInit, LifeCycles
    <3>3. stopping \in [epoch : 0..MaxEpochs, releases : BOOLEAN] BY <3>1 DEF NetInit, NoStop
    <3> QED BY <3>1, <3>2, <3>3 DEF NetInit, NetTypeOK
  <2>3. \A e \in Epochs : EpochFits(e) /\ e \notin holders BY <2>1 DEF EpochFits, NetInit
  <2>4. LifecycleFits BY DEF NetInit, LifecycleFits
  <2> QED BY <2>2, <2>3, <2>4 DEF NetInv
<1>2. NetInv /\ [NetNext]_netVars => NetInv'
  <2> SUFFICES ASSUME NetInv, [NetNext]_netVars PROVE NetInv'
    OBVIOUS
  <2>1. CASE NetProgress
    BY <2>1, NetAcquiredKeeps, NetEnabledKeeps, NetStartFailedKeeps, NetStopKeeps, NetStoppedKeeps DEF NetProgress
  <2>2. CASE NetStart \/ NetStop \/ NetDispose \/ NetTransportCloses
    BY <2>2, NetStartKeeps, NetStopKeeps, NetTransportKeeps
  <2>3. CASE (\E i \in NetIds : NetRequest(i) \/ NetFinish(i)) \/ (\E b \in bodies : NetBody(b)) \/ NetClear
    BY <2>3, LogKeeps DEF NetRequest, NetFinish, NetBody, NetClear
  <2>4. CASE UNCHANGED netVars BY <2>4, LogKeeps DEF netVars
  <2> QED BY <2>1, <2>2, <2>3, <2>4 DEF NetNext
<1> QED BY <1>1, <1>2, PTL DEF NetSpec

\* Once nothing is under way the debugger is held by the active capture, if there is one, and by
\* nothing else (CaptureHolds): start, stop and dispose of page-network-engine.ts's engine.
THEOREM OnlyActiveCapturesHold == NetSpec => []CaptureHolds
<1>1. NetInv => CaptureHolds
  <2> SUFFICES ASSUME NetInv, stopping = NoStop, \A e \in Epochs : life[e].step = "none"
               PROVE  holders = IF lifecycle # 0 /\ life[lifecycle].phase = "active" THEN {lifecycle} ELSE {}
    BY DEF CaptureHolds
  <2>1. \A e \in holders : e = lifecycle /\ e # 0
    <3> SUFFICES ASSUME NEW e \in holders PROVE e = lifecycle /\ e # 0
      OBVIOUS
    <3>1. e \in Epochs /\ HolderFits(e) BY DEF NetInv, NetTypeOK
    <3>2. e # 0 /\ stopping # [epoch |-> e, releases |-> TRUE]
      BY <3>1, NetworkAssumption DEF Epochs, NoStop
    <3> QED BY <3>1, <3>2 DEF HolderFits
  <2>2. lifecycle # 0 => life[lifecycle].phase = "active" /\ lifecycle \in holders
    <3>1. lifecycle # 0 => lifecycle \in Epochs BY NetworkAssumption DEF NetInv, NetTypeOK, Epochs
    <3> QED BY <3>1 DEF NetInv, LifecycleFits
  <2> QED BY <2>1, <2>2
<1> QED BY <1>1, NetInvariant, PTL

-----------------------------------------------------------------------------
(* The bytes of a log *)

\* A request of the log, and the ids among `ids` that have a body sent, or got.
RequestType == [number : Nat, sent : Sizes, got : Sizes]
WithSent(reqs, ids) == {i \in ids : reqs[i].sent = 1}
WithGot(reqs, ids) == {i \in ids : reqs[i].got = 1}
Total(reqs, ids) == Cardinality(WithSent(reqs, ids)) + Cardinality(WithGot(reqs, ids))

\* The ids where f is 1, and their number without one of them.
Ones(f, ids) == {i \in ids : f[i] = 1}

\* Without one of the ids there is one less where f is 1, if that is where it was.
LEMMA CountWithout ==
  ASSUME NEW S, IsFiniteSet(S), NEW f, NEW x \in S
  PROVE  /\ Cardinality(Ones(f, S)) \in Nat /\ Cardinality(Ones(f, S \ {x})) \in Nat
         /\ Cardinality(Ones(f, S)) = Cardinality(Ones(f, S \ {x})) + (IF f[x] = 1 THEN 1 ELSE 0)
<1>1. IsFiniteSet(Ones(f, S)) BY FS_Subset DEF Ones
<1>2. Ones(f, S \ {x}) = Ones(f, S) \ {x} BY DEF Ones
<1>3. /\ IsFiniteSet(Ones(f, S) \ {x})
      /\ Cardinality(Ones(f, S) \ {x}) = IF x \in Ones(f, S) THEN Cardinality(Ones(f, S)) - 1 ELSE Cardinality(Ones(f, S))
  <2> DEFINE ones == Ones(f, S)
  <2>1. IsFiniteSet(ones) BY <1>1
  <2> HIDE DEF ones
  <2>2. IsFiniteSet(ones \ {x}) BY <2>1, FS_RemoveElement
  <2>3. Cardinality(ones \ {x}) = IF x \in ones THEN Cardinality(ones) - 1 ELSE Cardinality(ones)
    BY <2>1, FS_RemoveElement
  <2> QED BY <2>2, <2>3 DEF ones
<1>4. Cardinality(Ones(f, S)) \in Nat BY <1>1, FS_CardinalityType
<1>5. Cardinality(Ones(f, S) \ {x}) \in Nat BY <1>3, FS_CardinalityType
<1>6. x \in Ones(f, S) <=> f[x] = 1 BY DEF Ones
<1> QED BY <1>2, <1>3, <1>4, <1>5, <1>6

\* The total of a set is that of all but one, and that one's bytes.
LEMMA TotalWithout ==
  ASSUME NEW S, IsFiniteSet(S), NEW reqs \in [S -> RequestType], NEW ids \in SUBSET S, NEW x \in ids
  PROVE  /\ Total(reqs, ids) \in Nat /\ Total(reqs, ids \ {x}) \in Nat
         /\ Total(reqs, ids) = Bytes(reqs[x]) + Total(reqs, ids \ {x})
<1>1. IsFiniteSet(ids) BY FS_Subset
<1> DEFINE sent == [i \in S |-> reqs[i].sent]
           got == [i \in S |-> reqs[i].got]
<1>2. /\ Cardinality(Ones(sent, ids)) \in Nat /\ Cardinality(Ones(sent, ids \ {x})) \in Nat
      /\ Cardinality(Ones(sent, ids)) = Cardinality(Ones(sent, ids \ {x})) + (IF sent[x] = 1 THEN 1 ELSE 0)
  <2> HIDE DEF sent
  <2> QED BY <1>1, CountWithout
<1>3. /\ Cardinality(Ones(got, ids)) \in Nat /\ Cardinality(Ones(got, ids \ {x})) \in Nat
      /\ Cardinality(Ones(got, ids)) = Cardinality(Ones(got, ids \ {x})) + (IF got[x] = 1 THEN 1 ELSE 0)
  <2> HIDE DEF got
  <2> QED BY <1>1, CountWithout
<1>4. ASSUME NEW some \in SUBSET ids PROVE Ones(sent, some) = WithSent(reqs, some) /\ Ones(got, some) = WithGot(reqs, some)
  BY DEF WithSent, WithGot, Ones
<1>5. reqs[x] \in RequestType OBVIOUS
<1>6. sent[x] = reqs[x].sent /\ got[x] = reqs[x].got OBVIOUS
<1>7. ids \in SUBSET ids /\ ids \ {x} \in SUBSET ids OBVIOUS
<1> HIDE DEF sent, got
<1>8. /\ Total(reqs, ids) = Cardinality(Ones(sent, ids)) + Cardinality(Ones(got, ids))
      /\ Total(reqs, ids \ {x}) = Cardinality(Ones(sent, ids \ {x})) + Cardinality(Ones(got, ids \ {x}))
  BY <1>4, <1>7 DEF Total
<1>9. Bytes(reqs[x]) = (IF sent[x] = 1 THEN 1 ELSE 0) + (IF got[x] = 1 THEN 1 ELSE 0)
  BY <1>5, <1>6 DEF Bytes, RequestType, Sizes
<1> QED BY <1>2, <1>3, <1>8, <1>9

\* Of no request there is nothing.
LEMMA TotalOfNone == ASSUME NEW reqs PROVE Total(reqs, {}) = 0
<1>1. WithSent(reqs, {}) = {} /\ WithGot(reqs, {}) = {} BY DEF WithSent, WithGot
<1> QED BY <1>1, FS_EmptySet DEF Total

\* The fold over a log, one set of ids after the other.
FoldStep(reqs, iter, s) == IF s = {} THEN 0 ELSE Bytes(reqs[CHOOSE x \in s : TRUE]) + iter[s \ {CHOOSE x \in s : TRUE}]
Sums(reqs, S, iter) == iter = [s \in SUBSET S |-> FoldStep(reqs, iter, s)]

\* The totals are such a fold, so there is one.
LEMMA TotalsSum ==
  ASSUME NEW S, IsFiniteSet(S), NEW reqs \in [S -> RequestType]
  PROVE  Sums(reqs, S, [s \in SUBSET S |-> Total(reqs, s)])
<1> DEFINE totals == [s \in SUBSET S |-> Total(reqs, s)]
<1>1. ASSUME NEW s \in SUBSET S PROVE Total(reqs, s) = FoldStep(reqs, totals, s)
  <2>1. CASE s = {} BY <2>1, TotalOfNone DEF FoldStep
  <2>2. CASE s # {}
    <3> DEFINE x == CHOOSE y \in s : TRUE
    <3>1. x \in s BY <2>2
    <3>2. s \ {x} \in SUBSET S OBVIOUS
    <3> HIDE DEF x
    <3>3. Total(reqs, s) = Bytes(reqs[x]) + Total(reqs, s \ {x}) BY <3>1, TotalWithout
    <3>4. Total(reqs, s) = Bytes(reqs[x]) + totals[s \ {x}] BY <3>2, <3>3
    <3> QED BY <2>2, <3>4 DEF FoldStep, x
  <2> QED BY <2>1, <2>2
<1>2. totals = [s \in SUBSET S |-> FoldStep(reqs, totals, s)]
  <2> DEFINE steps == [s \in SUBSET S |-> FoldStep(reqs, totals, s)]
  <2>1. \A s \in SUBSET S : totals[s] = steps[s] BY <1>1
  <2> QED BY <2>1
<1> QED BY <1>2 DEF Sums

\* There is no other.
LEMMA SumsAreTotals ==
  ASSUME NEW S, IsFiniteSet(S), NEW reqs \in [S -> RequestType], NEW iter, Sums(reqs, S, iter)
  PROVE  \A s \in SUBSET S : iter[s] = Total(reqs, s)
<1> DEFINE wrong == {s \in SUBSET S : iter[s] # Total(reqs, s)}
<1>1. IsWellFoundedOn(StrictSubsetOrdering(S), SUBSET S)
  BY FS_StrictSubsetOrderingWellFounded, FS_FiniteSubsetsOfFinite
<1>2. SUFFICES ASSUME wrong # {} PROVE FALSE OBVIOUS
<1>3. wrong \subseteq SUBSET S OBVIOUS
<1>4. PICK s \in wrong : \A t \in wrong : ~(<<t, s>> \in StrictSubsetOrdering(S))
  <2> HIDE DEF wrong
  <2> QED BY <1>1, <1>2, <1>3, WFMin
<1>5. s \in SUBSET S /\ iter[s] # Total(reqs, s) OBVIOUS
<1>6. iter[s] = FoldStep(reqs, iter, s) BY <1>5 DEF Sums
<1>7. s # {} BY <1>5, <1>6, TotalOfNone DEF FoldStep
<1> DEFINE x == CHOOSE y \in s : TRUE
<1>8. x \in s BY <1>7
<1>9. iter[s] = Bytes(reqs[x]) + iter[s \ {x}] BY <1>6, <1>7 DEF FoldStep
<1> HIDE DEF x
<1>10. <<s \ {x}, s>> \in StrictSubsetOrdering(S) BY <1>5, <1>8 DEF StrictSubsetOrdering
<1>11. s \ {x} \notin wrong BY <1>4, <1>10
<1>12. iter[s \ {x}] = Total(reqs, s \ {x}) BY <1>5, <1>11
<1>13. Total(reqs, s) = Bytes(reqs[x]) + Total(reqs, s \ {x}) BY <1>5, <1>8, TotalWithout
<1> QED BY <1>5, <1>9, <1>12, <1>13

\* So the fold of a log is its total.
LEMMA FoldIsTotal ==
  ASSUME NEW S, IsFiniteSet(S), NEW reqs \in [S -> RequestType]
  PROVE  FoldFunction(LAMBDA r, n : Bytes(r) + n, 0, reqs) = Total(reqs, S)
<1> DEFINE iter == CHOOSE g : Sums(reqs, S, g)
<1>1. Sums(reqs, S, iter) BY TotalsSum
<1>2. iter[S] = Total(reqs, S)
  <2> HIDE DEF iter
  <2> QED BY <1>1, SumsAreTotals
<1>3. DOMAIN reqs = S OBVIOUS
<1>4. FoldFunction(LAMBDA r, n : Bytes(r) + n, 0, reqs) = iter[S]
  BY <1>3 DEF FoldFunction, FoldFunctionOnSet, MapThenFoldSet, Sums, FoldStep
<1> QED BY <1>2, <1>4

\* One request changes: the total changes by its bytes.
LEMMA TotalChanges ==
  ASSUME NEW reqs \in [NetIds -> RequestType], NEW x \in NetIds, NEW r \in RequestType
  PROVE  /\ Total(reqs, NetIds) \in Nat /\ Bytes(r) \in Nat /\ Bytes(reqs[x]) \in Nat
         /\ Total([reqs EXCEPT ![x] = r], NetIds) = Total(reqs, NetIds) - Bytes(reqs[x]) + Bytes(r)
<1> DEFINE more == [reqs EXCEPT ![x] = r]
           ids == NetIds
<1>1. more \in [NetIds -> RequestType] /\ more[x] = r /\ \A i \in NetIds \ {x} : more[i] = reqs[i] OBVIOUS
<1>2. IsFiniteSet(NetIds) /\ ids \in SUBSET NetIds /\ x \in ids BY NetworkAssumption
<1> HIDE DEF more
<1>3. WithSent(more, ids \ {x}) = WithSent(reqs, ids \ {x}) /\ WithGot(more, ids \ {x}) = WithGot(reqs, ids \ {x})
  BY <1>1 DEF WithSent, WithGot
<1>4. Total(more, ids \ {x}) = Total(reqs, ids \ {x}) BY <1>3 DEF Total
<1>5. reqs[x] \in RequestType OBVIOUS
<1>6. Bytes(reqs[x]) \in Nat /\ Bytes(r) \in Nat BY <1>5 DEF RequestType, Sizes, Bytes
<1> HIDE DEF ids
<1>7. /\ Total(reqs, ids) \in Nat /\ Total(reqs, ids \ {x}) \in Nat
      /\ Total(reqs, ids) = Bytes(reqs[x]) + Total(reqs, ids \ {x})
  <2>1. Total(reqs, ids) = Bytes(reqs[x]) + Total(reqs, ids \ {x}) BY <1>2, TotalWithout
  <2>2. Total(reqs, ids) \in Nat BY <1>2, TotalWithout
  <2>3. Total(reqs, ids \ {x}) \in Nat BY <1>2, TotalWithout
  <2> QED BY <2>1, <2>2, <2>3
<1>8. Total(more, ids) = Bytes(more[x]) + Total(more, ids \ {x}) BY <1>1, <1>2, TotalWithout
<1>9. Total(more, ids) = Total(reqs, ids) - Bytes(reqs[x]) + Bytes(r) BY <1>1, <1>4, <1>6, <1>7, <1>8
<1> QED BY <1>6, <1>7, <1>9 DEF more, ids

\* A log: every request that is known is listed once, and its bytes are counted.
LogFits(reqs, ids, stored) ==
  /\ reqs \in [NetIds -> RequestType] /\ \A i \in NetIds : reqs[i].number = 0 => reqs[i] = NoRequest
  /\ ids \in Seq(NetIds) /\ \A k, l \in 1..Len(ids) : ids[k] = ids[l] => k = l
  /\ {ids[k] : k \in 1..Len(ids)} = {i \in NetIds : reqs[i] # NoRequest}
  /\ stored = Total(reqs, NetIds)
LogInv ==
  /\ LogFits(requests, order, storedBytes) /\ Len(order) <= MaxEntries
  /\ made \in Nat /\ \A b \in bodies : b.id \in NetIds /\ b.number \in Nat \ {0}

\* The empty log.
LEMMA EmptyLogFits == LogFits([i \in NetIds |-> NoRequest], <<>>, 0)
<1> DEFINE none == [i \in NetIds |-> NoRequest]
<1>1. WithSent(none, NetIds) = {} /\ WithGot(none, NetIds) = {} BY DEF WithSent, WithGot, NoRequest
<1>2. Total(none, NetIds) = 0 BY <1>1, FS_EmptySet DEF Total
<1>3. none \in [NetIds -> RequestType] BY DEF NoRequest, RequestType, Sizes
<1> QED BY <1>2, <1>3 DEF LogFits

\* A request that is known changes, but not its number.
LEMMA KnownChanges ==
  ASSUME NEW reqs, NEW ids, NEW stored, LogFits(reqs, ids, stored),
         NEW i \in NetIds, reqs[i] # NoRequest, NEW r \in RequestType, r.number = reqs[i].number
  PROVE  LogFits([reqs EXCEPT ![i] = r], ids, stored - Bytes(reqs[i]) + Bytes(r))
<1> DEFINE more == [reqs EXCEPT ![i] = r]
<1>1. reqs \in [NetIds -> RequestType] BY DEF LogFits
<1>2. Total(more, NetIds) = stored - Bytes(reqs[i]) + Bytes(r)
  <2>1. Total(more, NetIds) = Total(reqs, NetIds) - Bytes(reqs[i]) + Bytes(r)
    BY <1>1, TotalChanges
  <2> QED BY <2>1 DEF LogFits
<1>3. more \in [NetIds -> RequestType] /\ more[i] = r /\ \A j \in NetIds \ {i} : more[j] = reqs[j] BY <1>1
<1>4. r.number # 0 BY DEF LogFits
<1>5. r # NoRequest BY <1>4 DEF NoRequest
<1> HIDE DEF more
<1>6. {j \in NetIds : more[j] # NoRequest} = {j \in NetIds : reqs[j] # NoRequest} BY <1>3, <1>5
<1>7. \A j \in NetIds : more[j].number = 0 => more[j] = NoRequest BY <1>3, <1>4 DEF LogFits
<1>8. LogFits(more, ids, stored - Bytes(reqs[i]) + Bytes(r)) BY <1>2, <1>3, <1>6, <1>7 DEF LogFits
<1> QED BY <1>8 DEF more

\* A new request is the last of the list.
LEMMA NewIsListed ==
  ASSUME NEW reqs, NEW ids, NEW stored, LogFits(reqs, ids, stored),
         NEW i \in NetIds, reqs[i] = NoRequest, NEW r \in RequestType, r.number # 0
  PROVE  LogFits([reqs EXCEPT ![i] = r], Append(ids, i), stored + Bytes(r))
<1> DEFINE more == [reqs EXCEPT ![i] = r]
           list == Append(ids, i)
<1>1. reqs \in [NetIds -> RequestType] /\ ids \in Seq(NetIds) BY DEF LogFits
<1>2. Bytes(reqs[i]) = 0 BY DEF Bytes, NoRequest
<1>3. Total(more, NetIds) = stored + Bytes(r)
  <2>1. /\ Total(reqs, NetIds) \in Nat /\ Bytes(r) \in Nat /\ Bytes(reqs[i]) \in Nat
        /\ Total(more, NetIds) = Total(reqs, NetIds) - Bytes(reqs[i]) + Bytes(r)
    BY <1>1, TotalChanges
  <2>2. stored = Total(reqs, NetIds) BY DEF LogFits
  <2> HIDE DEF more
  <2> QED BY <1>2, <2>1, <2>2
<1>4. more \in [NetIds -> RequestType] /\ more[i] = r /\ \A j \in NetIds \ {i} : more[j] = reqs[j] BY <1>1
<1>5. /\ list \in Seq(NetIds) /\ Len(list) = Len(ids) + 1 /\ list[Len(ids) + 1] = i /\ Len(ids) \in Nat
      /\ \A k \in 1..Len(ids) : list[k] = ids[k]
  BY <1>1
<1>6. r # NoRequest BY DEF NoRequest
<1> HIDE DEF more, list
<1>7. \A k \in 1..Len(ids) : ids[k] # i BY DEF LogFits
<1>8. \A k, l \in 1..Len(list) : list[k] = list[l] => k = l
  <2> TAKE k, l \in 1..Len(list)
  <2>1. CASE k = Len(ids) + 1 \/ l = Len(ids) + 1 BY <1>5, <1>7, <2>1
  <2>2. CASE k # Len(ids) + 1 /\ l # Len(ids) + 1 BY <1>5, <2>2 DEF LogFits
  <2> QED BY <2>1, <2>2
<1>9. {list[k] : k \in 1..Len(list)} = {list[k] : k \in 1..Len(ids)} \cup {i} BY <1>5
<1>10. {list[k] : k \in 1..Len(ids)} = {ids[k] : k \in 1..Len(ids)} BY <1>5
<1>11. {j \in NetIds : more[j] # NoRequest} = {j \in NetIds : reqs[j] # NoRequest} \cup {i} BY <1>4, <1>6
<1>12. {list[k] : k \in 1..Len(list)} = {j \in NetIds : more[j] # NoRequest}
  BY <1>9, <1>10, <1>11 DEF LogFits
<1>13. \A j \in NetIds : more[j].number = 0 => more[j] = NoRequest BY <1>4 DEF LogFits
<1>14. LogFits(more, list, stored + Bytes(r)) BY <1>3, <1>4, <1>5, <1>8, <1>12, <1>13 DEF LogFits
<1> QED BY <1>14 DEF more, list

\* The oldest request goes, with its bytes.
LEMMA OldestGoes ==
  ASSUME NEW reqs, NEW ids, NEW stored, LogFits(reqs, ids, stored), ids # <<>>
  PROVE  LogFits([reqs EXCEPT ![Head(ids)] = NoRequest], Tail(ids), stored - Bytes(reqs[Head(ids)]))
<1> DEFINE i == Head(ids)
           more == [reqs EXCEPT ![i] = NoRequest]
           list == Tail(ids)
<1>1. reqs \in [NetIds -> RequestType] /\ ids \in Seq(NetIds) BY DEF LogFits
<1>2. i \in NetIds /\ i = ids[1] /\ Len(ids) \in Nat /\ Len(ids) >= 1 BY <1>1
<1>3. NoRequest \in RequestType /\ Bytes(NoRequest) = 0 BY DEF NoRequest, RequestType, Sizes, Bytes
<1>4. Total(more, NetIds) = stored - Bytes(reqs[i])
  <2> HIDE DEF i
  <2>1. /\ Total(reqs, NetIds) \in Nat /\ Bytes(NoRequest) \in Nat /\ Bytes(reqs[i]) \in Nat
        /\ Total(more, NetIds) = Total(reqs, NetIds) - Bytes(reqs[i]) + Bytes(NoRequest)
    <3>1. i \in NetIds /\ NoRequest \in RequestType BY <1>2, <1>3
    <3> QED BY <1>1, <3>1, TotalChanges
  <2>2. stored = Total(reqs, NetIds) BY DEF LogFits
  <2> HIDE DEF more
  <2> QED BY <1>3, <2>1, <2>2
<1>5. more \in [NetIds -> RequestType] /\ more[i] = NoRequest /\ \A j \in NetIds \ {i} : more[j] = reqs[j]
  BY <1>1, <1>2, <1>3
<1>6. list \in Seq(NetIds) /\ Len(list) = Len(ids) - 1 /\ \A k \in 1..Len(list) : list[k] = ids[k + 1]
  BY <1>1
<1> HIDE DEF more, list, i
<1>7. \A k, l \in 1..Len(list) : list[k] = list[l] => k = l
  <2> TAKE k, l \in 1..Len(list)
  <2>1. k + 1 \in 1..Len(ids) /\ l + 1 \in 1..Len(ids) BY <1>2, <1>6
  <2>2. ids[k + 1] = ids[l + 1] => k + 1 = l + 1 BY <2>1 DEF LogFits
  <2> QED BY <1>6, <2>2
<1>8. ASSUME NEW j \in NetIds PROVE j \in {list[k] : k \in 1..Len(list)} <=> more[j] # NoRequest
  <2>1. ASSUME NEW k \in 1..Len(list), j = list[k] PROVE more[j] # NoRequest
    <3>1. k + 1 \in 1..Len(ids) /\ 1 \in 1..Len(ids) /\ k + 1 # 1 BY <1>2, <1>6
    <3>2. j = ids[k + 1] BY <1>6, <2>1
    <3>3. j # i BY <1>2, <3>1, <3>2 DEF LogFits
    <3>4. reqs[j] # NoRequest BY <3>1, <3>2 DEF LogFits
    <3> QED BY <1>5, <3>3, <3>4
  <2>2. ASSUME more[j] # NoRequest PROVE \E k \in 1..Len(list) : j = list[k]
    <3>1. j # i /\ reqs[j] # NoRequest BY <1>5, <2>2
    <3>2. PICK k \in 1..Len(ids) : j = ids[k] BY <3>1 DEF LogFits
    <3>3. k # 1 BY <1>2, <3>1, <3>2
    <3>4. k - 1 \in 1..Len(list) /\ (k - 1) + 1 = k BY <1>2, <1>6, <3>3
    <3>5. j = list[k - 1] BY <1>6, <3>2, <3>4
    <3> QED BY <3>4, <3>5
  <2> QED BY <2>1, <2>2
<1>9. {list[k] : k \in 1..Len(list)} = {j \in NetIds : more[j] # NoRequest}
  <2>1. \A k \in 1..Len(list) : list[k] \in NetIds BY <1>6
  <2> QED BY <1>8, <2>1
<1>10. \A j \in NetIds : more[j].number = 0 => more[j] = NoRequest BY <1>5 DEF LogFits
<1>11. LogFits(more, list, stored - Bytes(reqs[i])) BY <1>4, <1>5, <1>6, <1>7, <1>9, <1>10 DEF LogFits
<1> QED BY <1>11 DEF more, list, i

\* evictOverflow leaves a log that is not too long.
LEMMA EvictionFits ==
  ASSUME NEW reqs, NEW ids, NEW stored, LogFits(reqs, ids, stored), Len(ids) <= MaxEntries + 1,
         Logged(reqs, ids, stored)
  PROVE  LogFits(requests', order', storedBytes') /\ Len(order') <= MaxEntries
<1>1. ids \in Seq(NetIds) /\ MaxEntries \in Nat \ {0} /\ Len(ids) \in Nat BY NetworkAssumption DEF LogFits
<1>2. CASE Len(ids) > MaxEntries
  <2>1. requests' = [reqs EXCEPT ![Head(ids)] = NoRequest] /\ order' = Tail(ids)
        /\ storedBytes' = stored - Bytes(reqs[Head(ids)])
    BY <1>2 DEF Logged
  <2>2. ids # <<>> BY <1>1, <1>2
  <2>3. Len(order') = Len(ids) - 1 BY <1>1, <2>1, <2>2
  <2>4. LogFits(requests', order', storedBytes') BY <2>1, <2>2, OldestGoes
  <2> QED BY <1>1, <2>3, <2>4
<1>3. CASE ~(Len(ids) > MaxEntries)
  <2>1. requests' = reqs /\ order' = ids /\ storedBytes' = stored
    <3>1. Total(reqs, NetIds) \in Nat
      <4>1. IsFiniteSet(WithSent(reqs, NetIds)) /\ IsFiniteSet(WithGot(reqs, NetIds))
        BY NetworkAssumption, FS_Subset DEF WithSent, WithGot
      <4> QED BY <4>1, FS_CardinalityType DEF Total
    <3>2. stored \in Nat BY <3>1 DEF LogFits
    <3> QED BY <1>3, <3>2 DEF Logged
  <2> QED BY <1>1, <1>3, <2>1
<1> QED BY <1>2, <1>3

\* The log is empty in the beginning.
LEMMA LogInvInit == NetInit => LogInv
BY EmptyLogFits, NetworkAssumption DEF NetInit, LogInv

\* The log keeps, whatever comes after its request was evicted, cleared or captured anew.
LEMMA LogInvKept == LogInv /\ [NetNext]_netVars => LogInv'
<1> SUFFICES ASSUME LogInv, [NetNext]_netVars PROVE LogInv' OBVIOUS
<1>1. ASSUME UNCHANGED logVars PROVE LogInv' BY <1>1 DEF LogInv, logVars
<1>2. ASSUME NEW i \in NetIds, NetRequest(i) PROVE LogInv'
  <2> DEFINE known == requests[i] # NoRequest
             r(size) == IF known THEN [requests[i] EXCEPT !.sent = size]
                        ELSE [number |-> made + 1, sent |-> size, got |-> 0]
             list == IF known THEN order ELSE Append(order, i)
  <2>1. PICK size \in Sizes :
          Logged([requests EXCEPT ![i] = r(size)], list, storedBytes - requests[i].sent + size)
    BY <1>2 DEF NetRequest
  <2>2. made' = made + 1 /\ bodies' = bodies BY <1>2 DEF NetRequest
  <2>3. requests \in [NetIds -> RequestType] /\ order \in Seq(NetIds) /\ made \in Nat /\ Len(order) \in Nat
        /\ MaxEntries \in Nat /\ Len(order) <= MaxEntries
    BY NetworkAssumption DEF LogInv, LogFits
  <2>4. requests[i] \in RequestType BY <2>3
  <2>5. storedBytes \in Nat /\ requests[i].sent \in Nat /\ requests[i].got \in Nat /\ size \in Nat
    <3>1. Total(requests, NetIds) \in Nat BY <2>3, <2>4, TotalChanges
    <3> QED BY <2>4, <3>1 DEF LogInv, LogFits, RequestType, Sizes
  <2>6. r(size) \in RequestType /\ r(size).sent = size
    <3>1. [requests[i] EXCEPT !.sent = size] \in RequestType /\ [requests[i] EXCEPT !.sent = size].sent = size
      BY <2>4 DEF RequestType
    <3>2. made + 1 \in Nat /\ 0 \in Sizes BY <2>3 DEF Sizes
    <3>3. [number |-> made + 1, sent |-> size, got |-> 0] \in RequestType BY <3>2 DEF RequestType
    <3> QED BY <3>1, <3>3
  <2>7. LogFits([requests EXCEPT ![i] = r(size)], list, storedBytes - requests[i].sent + size)
    <3>1. CASE known
      <4>1. r(size).number = requests[i].number /\ r(size).got = requests[i].got BY <2>4, <3>1 DEF RequestType
      <4> DEFINE new == r(size)
      <4>2. new \in RequestType /\ new.number = requests[i].number BY <2>6, <4>1
      <4>3. list = order BY <3>1
      <4>4. storedBytes - Bytes(requests[i]) + Bytes(new) = storedBytes - requests[i].sent + size
        BY <2>5, <2>6, <4>1 DEF Bytes
      <4> HIDE DEF new, list
      <4>5. LogFits([requests EXCEPT ![i] = new], order, storedBytes - Bytes(requests[i]) + Bytes(new))
        BY <3>1, <4>2, KnownChanges DEF LogInv
      <4> QED BY <4>3, <4>4, <4>5 DEF new
    <3>2. CASE ~known
      <4>1. r(size).number = made + 1 /\ r(size).got = 0 BY <3>2
      <4> DEFINE new == r(size)
      <4>2. new \in RequestType /\ new.number # 0 BY <2>3, <2>6, <4>1
      <4>3. list = Append(order, i) /\ requests[i] = NoRequest BY <3>2
      <4>4. storedBytes + Bytes(new) = storedBytes - requests[i].sent + size
        BY <2>5, <2>6, <4>1, <4>3 DEF Bytes, NoRequest
      <4> HIDE DEF new, list
      <4>5. LogFits([requests EXCEPT ![i] = new], Append(order, i), storedBytes + Bytes(new))
        BY <4>2, <4>3, NewIsListed DEF LogInv
      <4> QED BY <4>3, <4>4, <4>5 DEF new
    <3> QED BY <3>1, <3>2
  <2>8. Len(list) <= MaxEntries + 1 BY <2>3
  <2>9. LogFits(requests', order', storedBytes') /\ Len(order') <= MaxEntries
    <3> DEFINE reqs == [requests EXCEPT ![i] = r(size)]
               stored == storedBytes - requests[i].sent + size
    <3>1. LogFits(reqs, list, stored) /\ Logged(reqs, list, stored) BY <2>1, <2>7
    <3> HIDE DEF reqs, list, stored
    <3> QED BY <2>8, <3>1, EvictionFits
  <2> QED BY <2>2, <2>3, <2>9 DEF LogInv
<1>3. ASSUME NEW i \in NetIds, NetFinish(i) PROVE LogInv'
  <2>1. requests[i].number \in Nat \ {0} BY <1>3 DEF NetFinish, LogInv, LogFits, RequestType
  <2>2. \A b \in bodies' : b.id \in NetIds /\ b.number \in Nat \ {0} BY <1>3, <2>1 DEF NetFinish, LogInv
  <2>3. UNCHANGED <<requests, order, storedBytes, made>> BY <1>3 DEF NetFinish
  <2> QED BY <2>2, <2>3 DEF LogInv
<1>4. ASSUME NEW b \in bodies, NetBody(b) PROVE LogInv'
  <2>1. bodies' \subseteq bodies /\ UNCHANGED <<order, made>> BY <1>4 DEF NetBody
  <2>2. b.id \in NetIds /\ b.number \in Nat \ {0} BY DEF LogInv
  <2>3. LogFits(requests', order, storedBytes')
    <3>1. CASE UNCHANGED <<requests, storedBytes>> BY <3>1 DEF LogInv
    <3>2. CASE ~UNCHANGED <<requests, storedBytes>>
      <4>1. PICK size \in Sizes : /\ requests' = [requests EXCEPT ![b.id].got = size]
                                  /\ storedBytes' = storedBytes - requests[b.id].got + size
        BY <1>4, <3>2 DEF NetBody
      <4>2. requests[b.id].number = b.number BY <1>4, <3>2 DEF NetBody
      <4>3. requests[b.id] # NoRequest BY <2>2, <4>2 DEF NoRequest
      <4>4. requests[b.id] \in RequestType /\ requests \in [NetIds -> RequestType] BY <2>2 DEF LogInv, LogFits
      <4> DEFINE new == [requests[b.id] EXCEPT !.got = size]
      <4>5. new \in RequestType /\ new.number = requests[b.id].number
            /\ new.got = size /\ new.sent = requests[b.id].sent
        BY <4>4 DEF RequestType
      <4>6. requests' = [requests EXCEPT ![b.id] = new] BY <4>1
      <4> HIDE DEF new
      <4>7. storedBytes \in Nat
        <5>1. Total(requests, NetIds) \in Nat BY <2>2, <4>4, TotalChanges
        <5> QED BY <5>1 DEF LogInv, LogFits
      <4>8. requests[b.id].sent \in Nat /\ requests[b.id].got \in Nat /\ size \in Nat
        BY <4>4 DEF RequestType, Sizes
      <4>9. storedBytes' = storedBytes - Bytes(requests[b.id]) + Bytes(new) BY <4>1, <4>5, <4>7, <4>8 DEF Bytes
      <4>10. LogFits([requests EXCEPT ![b.id] = new], order, storedBytes - Bytes(requests[b.id]) + Bytes(new))
        BY <2>2, <4>3, <4>5, KnownChanges DEF LogInv
      <4> QED BY <4>6, <4>9, <4>10
    <3> QED BY <3>1, <3>2
  <2> QED BY <2>1, <2>3 DEF LogInv
<1>5. ASSUME NetClear PROVE LogInv'
  <2>1. requests' = [i \in NetIds |-> NoRequest] /\ order' = <<>> /\ storedBytes' = 0
        /\ made' = made + 1 /\ bodies' = bodies
    BY <1>5 DEF NetClear
  <2> QED BY <2>1, EmptyLogFits, NetworkAssumption DEF LogInv
<1>6. ASSUME NetProgress \/ NetStart \/ NetStop \/ NetDispose \/ NetTransportCloses PROVE UNCHANGED logVars
  BY <1>6 DEF NetProgress, NetAcquired, NetEnabled, NetStartFailed, NetStopResumes, NetStopped, NetStart, NetStop,
     NetDispose, NetTransportCloses
<1>7. CASE UNCHANGED netVars BY <1>1, <1>7 DEF netVars
<1> QED BY <1>1, <1>2, <1>3, <1>4, <1>5, <1>6, <1>7 DEF NetNext

\* The bytes counted are the bytes kept (StoredBytesFit): upsertRequest, setRequestBody,
\* setResponseBody, evictOverflow and clear of page-network-engine.ts's engine.
THEOREM BytesAreCounted == NetSpec => []StoredBytesFit
<1>1. LogInv => StoredBytesFit
  <2> SUFFICES ASSUME LogInv PROVE StoredBytesFit OBVIOUS
  <2>1. requests \in [NetIds -> RequestType] BY DEF LogInv, LogFits
  <2>2. FoldFunction(LAMBDA r, n : Bytes(r) + n, 0, requests) = Total(requests, NetIds)
    BY <2>1, NetworkAssumption, FoldIsTotal
  <2> QED BY <2>2 DEF LogInv, LogFits, StoredBytesFit
<1>2. LogInv /\ [NetNext]_netVars => LogInv' BY LogInvKept
<1> QED BY <1>1, <1>2, LogInvInit, PTL DEF NetSpec

-----------------------------------------------------------------------------
(* Handoffs to the human *)

\* What a handoff was told when it is how far.
HandRecords == {"none", "started", "acknowledged", "lost"} \cup Terminal
ToldFits(held, t) ==
  \/ held = "none" /\ t = <<>>
  \/ held \in {"started", "lost"} /\ t = <<"started">>
  \/ held \in {"acknowledged", "lost"} /\ t = <<"started", "acknowledged">>
  \/ held \in Terminal \ {"completed"} /\ t = <<"started", held>>
  \/ held \in Terminal /\ t = <<"started", "acknowledged", held>>

Shows == {"waiting", "clicking", "preparing", "ending", "removing"}
Overlays == {NoOverlay} \cup [of : Handoffs, acknowledged : BOOLEAN, enabled : BOOLEAN]

\* A handoff has the outcome it was told last, if it was, and its command returns that one;
\* an overlay is of a command that has its handle and will remove it.
HandTypeOK ==
  /\ handRecord \in [Handoffs -> HandRecords]
  /\ told \in [Handoffs -> Seq(HandRecords)]
  /\ stage \in [Handoffs -> {"idle", "showing", "done"} \cup Shows]
  /\ handed \in [Handoffs -> BOOLEAN] /\ cut \subseteq Handoffs
  /\ boundTo \in [Handoffs -> Nat] /\ frameGeneration \in Nat
  /\ answered \in [Handoffs -> {"none", "failed"} \cup Terminal]
  /\ overlay \in Overlays
  /\ said \subseteq [by : Handoffs, state : {"acknowledged", "completed", "cancelled"}]
  /\ restarted \in BOOLEAN

OutcomeFits(h) ==
  /\ ToldFits(handRecord[h], told[h])
  /\ stage[h] = "idle" <=> handRecord[h] = "none"
  /\ handRecord[h] = "lost" => stage[h] = "done"
  /\ h \in cut <=> handRecord[h] \in Terminal
  /\ answered[h] \in Terminal => answered[h] = handRecord[h]
OverlayFits == ~restarted /\ overlay # NoOverlay => stage[overlay.of] \in Shows /\ handed[overlay.of]

HandInv == HandTypeOK /\ (\A h \in Handoffs : OutcomeFits(h)) /\ OverlayFits

\* What listeners are told comes after what they were told.
LEMMA AppendOne == ASSUME NEW S, NEW a \in S, NEW b \in S PROVE Append(<<a>>, b) = <<a, b>>
<1> DEFINE s == Append(<<a>>, b) t == <<a, b>>
<1>1. s \in Seq(S) /\ t \in Seq(S) /\ Len(s) = 2 /\ Len(t) = 2 OBVIOUS
<1>2. \A i \in 1..2 : s[i] = t[i]
  OBVIOUS
<1> HIDE DEF s, t
<1>3. \A i \in 1..Len(s) : s[i] = t[i] BY <1>1, <1>2
<1>4. s = t BY <1>1, <1>3, SeqEqual
<1> QED BY <1>4 DEF s, t

\* The same of a third event.
LEMMA AppendTwo == ASSUME NEW S, NEW a \in S, NEW b \in S, NEW c \in S PROVE Append(<<a, b>>, c) = <<a, b, c>>
<1> DEFINE s == Append(<<a, b>>, c) t == <<a, b, c>>
<1>1. s \in Seq(S) /\ t \in Seq(S) /\ Len(s) = 3 /\ Len(t) = 3 OBVIOUS
<1>2. \A i \in 1..3 : s[i] = t[i]
  OBVIOUS
<1> HIDE DEF s, t
<1>3. \A i \in 1..Len(s) : s[i] = t[i] BY <1>1, <1>2
<1>4. s = t BY <1>1, <1>3, SeqEqual
<1> QED BY <1>4 DEF s, t

\* What a step may make of the coordinator's records: an outcome stays.
CoordinatorFits ==
  /\ handRecord' \in [Handoffs -> HandRecords] /\ told' \in [Handoffs -> Seq(HandRecords)] /\ cut' \subseteq Handoffs
  /\ \A g \in Handoffs :
       /\ ToldFits(handRecord'[g], told'[g])
       /\ g \in cut' <=> handRecord'[g] \in Terminal
       /\ handRecord'[g] = "none" <=> handRecord[g] = "none"
       /\ handRecord[g] \in Terminal => handRecord'[g] = handRecord[g]
       /\ handRecord'[g] = "lost" => handRecord[g] = "lost"

\* A step of something else keeps the coordinator in order.
LEMMA UnchangedFits == HandInv /\ UNCHANGED coordinatorVars => CoordinatorFits
BY DEF HandInv, HandTypeOK, OutcomeFits, CoordinatorFits, coordinatorVars

\* An outcome counts if no other came first (terminate, finish).
LEMMA FinishFits ==
  ASSUME HandInv, NEW h \in Handoffs, NEW outcome \in Terminal, Finish(h, outcome),
         outcome = "completed" => handRecord[h] = "acknowledged"
  PROVE  CoordinatorFits /\ (handRecord[h] # "none" => handRecord'[h] \in Terminal \cup {"lost"})
<1>1. /\ handRecord \in [Handoffs -> HandRecords] /\ told \in [Handoffs -> Seq(HandRecords)] /\ cut \subseteq Handoffs
      /\ \A g \in Handoffs : ToldFits(handRecord[g], told[g]) /\ (g \in cut <=> handRecord[g] \in Terminal)
  BY DEF HandInv, HandTypeOK, OutcomeFits
<1>2. CASE ~Open(h)
  <2>1. UNCHANGED coordinatorVars BY <1>2 DEF Finish
  <2>2. handRecord[h] \in Terminal \cup {"lost", "none"} BY <1>1, <1>2 DEF Open, HandRecords
  <2> QED BY <2>1, <2>2, UnchangedFits DEF coordinatorVars
<1>3. CASE Open(h)
  <2>1. /\ handRecord' = [handRecord EXCEPT ![h] = outcome]
        /\ told' = [told EXCEPT ![h] = Append(@, outcome)]
        /\ cut' = cut \cup {h}
    BY <1>3 DEF Finish
  <2>2. handRecord[h] \in {"started", "acknowledged"} BY <1>3 DEF Open
  <2>3. told[h] = IF handRecord[h] = "started" THEN <<"started">> ELSE <<"started", "acknowledged">>
    BY <1>1, <2>2 DEF ToldFits, Terminal
  <2>4. told'[h] = Append(told[h], outcome) BY <1>1, <2>1
  <2>10. ToldFits(outcome, told'[h])
    <3> DEFINE S == {"started", "acknowledged"} \cup Terminal
    <3>3. "started" \in S /\ "acknowledged" \in S /\ outcome \in S OBVIOUS
    <3> HIDE DEF S
    <3>1. Append(<<"started">>, outcome) = <<"started", outcome>> BY <3>3, AppendOne
    <3>2. Append(<<"started", "acknowledged">>, outcome) = <<"started", "acknowledged", outcome>> BY <3>3, AppendTwo
    <3> QED BY <2>2, <2>3, <2>4, <3>1, <3>2 DEF ToldFits, Terminal
  <2>5. outcome \in HandRecords /\ {"started", "acknowledged", "none", "lost"} \cap Terminal = {}
    BY DEF HandRecords, Terminal
  <2>6. handRecord' \in [Handoffs -> HandRecords] /\ cut' \subseteq Handoffs BY <1>1, <2>1, <2>5
  <2>7. told' \in [Handoffs -> Seq(HandRecords)]
    <3>1. Append(told[h], outcome) \in Seq(HandRecords) BY <1>1, <2>5
    <3> QED BY <1>1, <2>1, <3>1
  <2>8. \A g \in Handoffs \ {h} : handRecord'[g] = handRecord[g] /\ told'[g] = told[g] BY <1>1, <2>1
  <2>9. handRecord'[h] = outcome BY <1>1, <2>1
  <2> QED BY <1>1, <2>1, <2>2, <2>5, <2>6, <2>7, <2>8, <2>9, <2>10 DEF CoordinatorFits
<1> QED BY <1>2, <1>3

\* The first acknowledgement counts (acceptPageEvent).
LEMMA AcknowledgementFits ==
  ASSUME HandInv, NEW h \in Handoffs, AcceptAcknowledgement(h)
  PROVE  CoordinatorFits
<1>1. /\ handRecord \in [Handoffs -> HandRecords] /\ told \in [Handoffs -> Seq(HandRecords)] /\ cut \subseteq Handoffs
      /\ \A g \in Handoffs : ToldFits(handRecord[g], told[g]) /\ (g \in cut <=> handRecord[g] \in Terminal)
  BY DEF HandInv, HandTypeOK, OutcomeFits
<1>2. CASE handRecord[h] # "started"
  BY <1>2, UnchangedFits DEF AcceptAcknowledgement
<1>3. CASE handRecord[h] = "started"
  <2>1. /\ handRecord' = [handRecord EXCEPT ![h] = "acknowledged"]
        /\ told' = [told EXCEPT ![h] = Append(@, "acknowledged")]
        /\ cut' = cut
    BY <1>3 DEF AcceptAcknowledgement
  <2>2. told[h] = <<"started">> BY <1>1, <1>3 DEF ToldFits, Terminal
  <2>3. ToldFits("acknowledged", told'[h])
    <3> DEFINE S == {"started", "acknowledged"}
    <3>2. "started" \in S /\ "acknowledged" \in S OBVIOUS
    <3> HIDE DEF S
    <3>1. Append(<<"started">>, "acknowledged") = <<"started", "acknowledged">> BY <3>2, AppendOne
    <3> QED BY <1>1, <2>1, <2>2, <3>1 DEF ToldFits
  <2>4. "acknowledged" \in HandRecords /\ {"started", "acknowledged", "none", "lost"} \cap Terminal = {}
    BY DEF HandRecords, Terminal
  <2>5. handRecord' \in [Handoffs -> HandRecords] /\ handRecord'[h] = "acknowledged" BY <1>1, <2>1, <2>4
  <2>6. told' \in [Handoffs -> Seq(HandRecords)]
    <3>1. Append(told[h], "acknowledged") \in Seq(HandRecords) BY <1>1, <2>4
    <3> QED BY <1>1, <2>1, <3>1
  <2>7. \A g \in Handoffs \ {h} : handRecord'[g] = handRecord[g] /\ told'[g] = told[g] BY <1>1, <2>1
  <2> QED BY <1>1, <1>3, <2>1, <2>3, <2>4, <2>5, <2>6, <2>7 DEF CoordinatorFits
<1> QED BY <1>2, <1>3

\* The coordinator moves, or one command, whose answer is the outcome.
LEMMA HandMoves ==
  ASSUME HandInv, CoordinatorFits,
         stage' \in [Handoffs -> {"idle", "showing", "done"} \cup Shows],
         answered' \in [Handoffs -> {"none", "failed"} \cup Terminal],
         \A h \in Handoffs : /\ (stage'[h] = "idle") <=> (stage[h] = "idle")
                             /\ stage[h] = "done" => stage'[h] = "done"
                             /\ answered'[h] # answered[h] /\ answered'[h] \in Terminal => answered'[h] = handRecord'[h]
  PROVE  \A h \in Handoffs : OutcomeFits(h)'
<1> SUFFICES ASSUME NEW h \in Handoffs PROVE OutcomeFits(h)'
  OBVIOUS
<1>1. OutcomeFits(h) BY DEF HandInv
<1>2. "none" \notin Terminal /\ "lost" \notin Terminal BY DEF Terminal
<1>3. handRecord'[h] = "lost" => stage'[h] = "done" BY <1>1 DEF CoordinatorFits, OutcomeFits
<1>4. answered'[h] \in Terminal => answered'[h] = handRecord'[h]
  BY <1>1 DEF CoordinatorFits, OutcomeFits
<1> QED BY <1>1, <1>2, <1>3, <1>4 DEF CoordinatorFits, OutcomeFits

\* What a step may make of the overlay that is there: it stays of its handoff, which goes on.
OverlayStays ==
  \/ overlay' = NoOverlay
  \/ /\ overlay # NoOverlay /\ overlay'.of = overlay.of
     /\ restarted' \/ (stage'[overlay.of] = stage[overlay.of] /\ handed'[overlay.of] = handed[overlay.of])

\* A step that leaves the overlays keeps them with their commands.
LEMMA OverlayKept == HandInv /\ OverlayStays /\ (restarted => restarted') => OverlayFits'
BY DEF HandInv, OverlayFits, OverlayStays

\* What is left for each action to show.
LEMMA HandKept ==
  ASSUME HandInv, CoordinatorFits, OverlayFits',
         overlay' \in Overlays, handed' \in [Handoffs -> BOOLEAN], boundTo' \in [Handoffs -> Nat],
         frameGeneration' \in Nat, restarted' \in BOOLEAN,
         said' \subseteq [by : Handoffs, state : {"acknowledged", "completed", "cancelled"}],
         stage' \in [Handoffs -> {"idle", "showing", "done"} \cup Shows],
         answered' \in [Handoffs -> {"none", "failed"} \cup Terminal],
         \A h \in Handoffs : /\ (stage'[h] = "idle") <=> (stage[h] = "idle")
                             /\ stage[h] = "done" => stage'[h] = "done"
                             /\ answered'[h] # answered[h] /\ answered'[h] \in Terminal => answered'[h] = handRecord'[h]
  PROVE  HandInv'
<1>1. \A h \in Handoffs : OutcomeFits(h)' BY HandMoves
<1>2. HandTypeOK' BY DEF HandTypeOK, CoordinatorFits
<1> QED BY <1>1, <1>2 DEF HandInv

\* An overlay of nobody is of no handoff.
LEMMA NoOverlayIs == NoOverlay.of \notin Handoffs /\ NoOverlay \in Overlays /\ NoOverlay.enabled = FALSE
BY HandoffAssumption DEF NoOverlay, Overlays

\* The page takes the overlay of a refused message away.
LEMMA RefusedFits ==
  ASSUME HandInv, NEW h \in Handoffs, Refused(h), UNCHANGED commandVars
  PROVE  OverlayStays /\ overlay' \in Overlays
BY NoOverlayIs DEF HandInv, HandTypeOK, Refused, OverlayStays, commandVars

\* An acknowledged overlay stays where it is.
LEMMA AcknowledgedStays ==
  ASSUME HandInv, NEW h \in Handoffs, AcceptAcknowledgement(h), UNCHANGED commandVars
  PROVE  OverlayStays /\ overlay' \in Overlays
<1>1. CASE handRecord[h] # "started" BY <1>1, RefusedFits DEF AcceptAcknowledgement
<1>2. CASE handRecord[h] = "started" /\ overlay.of # h
  BY <1>2 DEF AcceptAcknowledgement, HandInv, HandTypeOK, OverlayStays, commandVars
<1>3. CASE handRecord[h] = "started" /\ overlay.of = h
  <2>1. overlay' = [overlay EXCEPT !.acknowledged = TRUE] BY <1>3 DEF AcceptAcknowledgement
  <2>2. overlay # NoOverlay BY <1>3, NoOverlayIs
  <2>3. overlay \in [of : Handoffs, acknowledged : BOOLEAN, enabled : BOOLEAN]
    BY <2>2 DEF HandInv, HandTypeOK, Overlays
  <2>4. overlay'.of = overlay.of /\ overlay' \in [of : Handoffs, acknowledged : BOOLEAN, enabled : BOOLEAN]
    BY <2>1, <2>3
  <2> QED BY <2>2, <2>4 DEF OverlayStays, Overlays, commandVars
<1> QED BY <1>1, <1>2, <1>3

\* An end counts once, and takes the overlay away.
LEMMA EndFits ==
  ASSUME HandInv, NEW h \in Handoffs, NEW state \in {"completed", "cancelled"}, AcceptEnd(h, state)
  PROVE  CoordinatorFits
<1>1. state \in Terminal BY DEF Terminal
<1>2. CASE state = "completed" /\ handRecord[h] # "acknowledged"
  BY <1>2, UnchangedFits DEF AcceptEnd
<1>3. CASE ~(state = "completed" /\ handRecord[h] # "acknowledged")
  BY <1>1, <1>3, FinishFits DEF AcceptEnd
<1> QED BY <1>2, <1>3

\* A handoff times out or is aborted.
LEMMA TimesOutKeeps == HandInv /\ (\E h \in Handoffs : HandTimesOut(h) \/ HandAborted(h)) => HandInv'
<1> SUFFICES ASSUME HandInv, NEW h \in Handoffs, HandTimesOut(h) \/ HandAborted(h) PROVE HandInv'
  OBVIOUS
<1>1. UNCHANGED <<stage, handed, answered, boundTo, overlay, said, frameGeneration, restarted>>
  BY DEF HandTimesOut, HandAborted, commandVars, pageVars
<1>2. CoordinatorFits
  <2>1. {"timed_out", "cancelled"} \subseteq Terminal BY DEF Terminal
  <2> QED BY <2>1, FinishFits DEF HandTimesOut, HandAborted
<1>3. OverlayFits' BY <1>1 DEF HandInv, OverlayFits
<1> QED BY <1>1, <1>2, <1>3, HandKept DEF HandInv, HandTypeOK

\* The page says that its human is done or has cancelled (acceptPageEvent).
LEMMA PageEventKeeps == HandInv /\ (\E m \in said : AcceptPageEvent(m)) => HandInv'
<1> SUFFICES ASSUME HandInv, NEW m \in said, AcceptPageEvent(m) PROVE HandInv'
  OBVIOUS
<1>1. UNCHANGED <<stage, handed, answered, boundTo, frameGeneration, restarted>> /\ said' \subseteq said
  BY DEF AcceptPageEvent, commandVars
<1>2. m \in [by : Handoffs, state : {"acknowledged", "completed", "cancelled"}]
  BY DEF HandInv, HandTypeOK
<1>3. m.by \in Handoffs /\ m.state \in {"acknowledged", "completed", "cancelled"} BY <1>2
<1>4. UNCHANGED commandVars BY <1>1 DEF commandVars
<1>5. CoordinatorFits /\ OverlayStays /\ overlay' \in Overlays
  <2>1. CASE ~Open(m.by)
    BY <1>3, <1>4, <2>1, UnchangedFits, RefusedFits DEF AcceptPageEvent
  <2>2. CASE Open(m.by) /\ boundTo[m.by] # frameGeneration
    <3>1. "cancelled" \in Terminal BY DEF Terminal
    <3>2. Finish(m.by, "cancelled") /\ Refused(m.by) BY <2>2 DEF AcceptPageEvent
    <3>3. CoordinatorFits BY <1>3, <3>1, <3>2, FinishFits
    <3> QED BY <1>3, <1>4, <3>2, <3>3, RefusedFits
  <2>3. CASE Open(m.by) /\ boundTo[m.by] = frameGeneration /\ m.state = "acknowledged"
    BY <1>3, <1>4, <2>3, AcknowledgementFits, AcknowledgedStays DEF AcceptPageEvent
  <2>4. CASE Open(m.by) /\ boundTo[m.by] = frameGeneration /\ m.state # "acknowledged"
    <3>1. AcceptEnd(m.by, m.state) /\ m.state \in {"completed", "cancelled"} BY <1>3, <2>4 DEF AcceptPageEvent
    <3>2. CoordinatorFits BY <1>3, <3>1, EndFits
    <3> QED BY <1>3, <1>4, <3>1, <3>2, RefusedFits DEF AcceptEnd
  <2> QED BY <2>1, <2>2, <2>3, <2>4
<1>6. OverlayFits' BY <1>1, <1>5, OverlayKept
<1> QED BY <1>1, <1>5, <1>6, HandKept DEF HandInv, HandTypeOK

\* A command that goes to step keeps the answers it has, or gives this one.
HandGoes(h, step, answer) ==
  /\ stage' = [stage EXCEPT ![h] = step]
  /\ answered' = [answered EXCEPT ![h] = answer]

\* The command of h goes on, with what is on the page as it was.
LEMMA CommandKeeps ==
  ASSUME HandInv, NEW h \in Handoffs, NEW step \in {"done"} \cup Shows, NEW answer \in {"none", "failed"} \cup Terminal,
         HandGoes(h, step, answer), CoordinatorFits,
         stage[h] \in {"showing"} \cup Shows,
         answer \in Terminal => answer = handRecord'[h] \/ answer = answered[h],
         handed' \in [Handoffs -> BOOLEAN], \A g \in Handoffs : handed[g] => handed'[g],
         UNCHANGED <<boundTo, said, frameGeneration, restarted>>, overlay' \in Overlays,
         OverlayFits'
  PROVE  HandInv'
<1>1. stage' \in [Handoffs -> {"idle", "showing", "done"} \cup Shows]
      /\ answered' \in [Handoffs -> {"none", "failed"} \cup Terminal]
  BY DEF HandGoes, HandInv, HandTypeOK
<1>2. \A g \in Handoffs : stage'[g] = (IF g = h THEN step ELSE stage[g])
                       /\ answered'[g] = (IF g = h THEN answer ELSE answered[g])
  BY DEF HandGoes, HandInv, HandTypeOK
<1>3. step # "idle" /\ "idle" \notin Shows /\ "done" \notin Shows BY DEF Shows
<1>4. \A g \in Handoffs : /\ (stage'[g] = "idle") <=> (stage[g] = "idle")
                          /\ stage[g] = "done" => stage'[g] = "done"
                          /\ answered'[g] # answered[g] /\ answered'[g] \in Terminal => answered'[g] = handRecord'[g]
  BY <1>2, <1>3
<1> QED BY <1>1, <1>4, HandKept DEF HandInv, HandTypeOK

\* A handoff whose command runs has been started.
LEMMA StartedFits == ASSUME HandInv, NEW h \in Handoffs, stage[h] \in {"showing"} \cup Shows
                     PROVE  handRecord[h] # "none" /\ handRecord[h] # "lost"
BY DEF HandInv, OutcomeFits, Shows

\* A step that throws ends the handoff, if nothing has, and answers how it ended or that it failed.
LEMMA ThrowsFits ==
  ASSUME HandInv, NEW h \in Handoffs, Throws(h), stage[h] \in {"showing"} \cup Shows
  PROVE  CoordinatorFits /\ \E answer \in {"none", "failed"} \cup Terminal :
           HandGoes(h, "removing", answer) /\ (answer \in Terminal => answer = handRecord'[h])
<1>1. "cancelled" \in Terminal /\ "cancelled" # "completed" /\ "failed" \notin Terminal BY DEF Terminal
<1>2. CoordinatorFits BY <1>1, FinishFits DEF Throws
<1>3. h \in cut => handRecord[h] \in Terminal BY DEF HandInv, OutcomeFits
<1>4. h \in cut => handRecord'[h] = handRecord[h] BY <1>2, <1>3 DEF CoordinatorFits
<1> DEFINE a == IF h \in cut THEN handRecord[h] ELSE "failed"
<1>5. a \in {"none", "failed"} \cup Terminal /\ (a \in Terminal => a = handRecord'[h]) BY <1>1, <1>3, <1>4
<1>6. HandGoes(h, "removing", a) BY DEF Throws, HandGoes, Goes
<1> HIDE DEF a
<1> QED BY <1>2, <1>5, <1>6

\* Such a step, with what is on the page as it was.
LEMMA ThrowsKeeps ==
  ASSUME HandInv, NEW h \in Handoffs, Throws(h), stage[h] \in {"showing"} \cup Shows,
         UNCHANGED <<overlay, handed, boundTo, said, frameGeneration, restarted>>
  PROVE  HandInv'
<1>1. PICK answer \in {"none", "failed"} \cup Terminal :
         HandGoes(h, "removing", answer) /\ (answer \in Terminal => answer = handRecord'[h])
  BY ThrowsFits
<1>2. "removing" \in Shows BY DEF Shows
<1>3. OverlayFits' BY <1>1, <1>2 DEF HandGoes, HandInv, HandTypeOK, OverlayFits, Overlays
<1>4. CoordinatorFits BY ThrowsFits
<1> QED BY <1>1, <1>2, <1>3, <1>4, CommandKeeps DEF HandInv, HandTypeOK

\* A step of a command that leaves the coordinator and the page alone.
LEMMA StepKeeps ==
  ASSUME HandInv, NEW h \in Handoffs, NEW step \in Shows, stage[h] \in Shows, Goes(h, step),
         answered' = answered \/ (answered' = [answered EXCEPT ![h] = handRecord[h]]),
         handRecord[h] \in Terminal \/ answered' = answered,
         UNCHANGED <<coordinatorVars, handed, boundTo, pageVars, restarted>>
  PROVE  HandInv'
<1>1. UNCHANGED <<handRecord, told, cut, handed, boundTo, overlay, said, frameGeneration, restarted>>
  BY DEF coordinatorVars, pageVars
<1>2. CoordinatorFits BY UnchangedFits
<1>3. OverlayFits' BY <1>1 DEF Goes, HandInv, HandTypeOK, OverlayFits
<1>4. CASE answered' = answered
  <2>1. HandGoes(h, step, answered[h]) BY <1>4 DEF HandGoes, Goes, HandInv, HandTypeOK
  <2>2. answered[h] \in {"none", "failed"} \cup Terminal BY DEF HandInv, HandTypeOK
  <2> QED BY <1>1, <1>2, <1>3, <2>1, <2>2, CommandKeeps DEF HandInv, HandTypeOK
<1>5. CASE answered' = [answered EXCEPT ![h] = handRecord[h]] /\ handRecord[h] \in Terminal
  <2>1. HandGoes(h, step, handRecord[h]) BY <1>5 DEF HandGoes, Goes
  <2> QED BY <1>1, <1>2, <1>3, <1>5, <2>1, CommandKeeps DEF HandInv, HandTypeOK
<1> QED BY <1>4, <1>5

\* The steps of a command that runs.
LEMMA ShownKeeps == HandInv /\ (\E h \in Handoffs : HandShown(h)) => HandInv'
<1> SUFFICES ASSUME HandInv, NEW h \in Handoffs, HandShown(h) PROVE HandInv'
  OBVIOUS
<1>1. stage[h] = "showing" /\ UNCHANGED <<boundTo, said, frameGeneration, restarted>> BY DEF HandShown
<1>2. CASE Throws(h) /\ UNCHANGED <<overlay, handed>>
  BY <1>1, <1>2, ThrowsKeeps
<1>3. CASE /\ overlay = NoOverlay
           /\ overlay' = [of |-> h, acknowledged |-> FALSE, enabled |-> TRUE]
           /\ handed' = [handed EXCEPT ![h] = TRUE]
           /\ Goes(h, "waiting")
           /\ UNCHANGED <<coordinatorVars, answered>>
  <2>1. CoordinatorFits BY <1>3, UnchangedFits
  <2>2. overlay' \in Overlays /\ overlay'.of = h BY <1>3 DEF Overlays
  <2>3. handed' \in [Handoffs -> BOOLEAN] /\ handed'[h] /\ \A g \in Handoffs : handed[g] => handed'[g]
    BY <1>3 DEF HandInv, HandTypeOK
  <2>4. HandGoes(h, "waiting", answered[h]) BY <1>3 DEF HandGoes, Goes, HandInv, HandTypeOK
  <2>5. stage'[h] = "waiting" /\ "waiting" \in Shows BY <2>4 DEF HandGoes, HandInv, HandTypeOK, Shows
  <2>6. OverlayFits' BY <2>2, <2>3, <2>5 DEF OverlayFits
  <2>7. answered[h] \in {"none", "failed"} \cup Terminal BY DEF HandInv, HandTypeOK
  <2> QED BY <1>1, <2>1, <2>2, <2>3, <2>4, <2>5, <2>6, <2>7, CommandKeeps
<1> QED BY <1>2, <1>3 DEF HandShown

\* The overlay is in the page.
LEMMA BeganKeeps == HandInv /\ (\E h \in Handoffs : HandBegan(h)) => HandInv'
<1> SUFFICES ASSUME HandInv, NEW h \in Handoffs, HandBegan(h) PROVE HandInv'
  OBVIOUS
<1>1. /\ stage[h] = "waiting" /\ handRecord[h] # "started" /\ stage[h] \in Shows
      /\ UNCHANGED <<coordinatorVars, handed, boundTo, pageVars, restarted>>
  BY DEF HandBegan, Shows
<1>2. CASE Contains(told[h], "acknowledged")
  <2>1. answered' = answered /\ \E next \in Shows : Goes(h, next) BY <1>2 DEF HandBegan, Shows
  <2> QED BY <1>1, <2>1, StepKeeps
<1>3. CASE ~Contains(told[h], "acknowledged")
  <2>1. answered' = [answered EXCEPT ![h] = handRecord[h]] /\ Goes(h, "removing") BY <1>3 DEF HandBegan
  <2>2. handRecord[h] # "acknowledged"
    <3>1. SUFFICES ASSUME handRecord[h] = "acknowledged" PROVE FALSE
      OBVIOUS
    <3>2. told[h] = <<"started", "acknowledged">> BY <3>1 DEF HandInv, OutcomeFits, ToldFits, Terminal
    <3>3. Len(told[h]) = 2 /\ told[h][2] = "acknowledged" BY <3>2
    <3> QED BY <1>3, <3>3 DEF Contains
  <2>3. handRecord[h] \in Terminal
    BY <1>1, <2>2, StartedFits DEF HandInv, HandTypeOK, HandRecords
  <2>4. "removing" \in Shows BY DEF Shows
  <2> QED BY <1>1, <2>1, <2>3, <2>4, StepKeeps
<1> QED BY <1>2, <1>3

\* The human clicks.
LEMMA ClickedKeeps == HandInv /\ (\E h \in Handoffs : HandClicked(h)) => HandInv'
<1> SUFFICES ASSUME HandInv, NEW h \in Handoffs, HandClicked(h) PROVE HandInv'
  OBVIOUS
<1>1. stage[h] = "clicking" /\ stage[h] \in Shows /\ UNCHANGED <<handed, boundTo, pageVars, restarted>>
  BY DEF HandClicked, Shows
<1>2. CASE Goes(h, "preparing") /\ UNCHANGED <<coordinatorVars, answered>>
  <2>1. "preparing" \in Shows BY DEF Shows
  <2> QED BY <1>1, <1>2, <2>1, StepKeeps
<1>3. CASE Throws(h)
  BY <1>1, <1>3, ThrowsKeeps DEF pageVars
<1> QED BY <1>2, <1>3 DEF HandClicked

\* A command goes on to put its overlay in the page.
LEMMA PreparedKeeps == HandInv /\ (\E h \in Handoffs : HandPrepared(h)) => HandInv'
<1> SUFFICES ASSUME HandInv, NEW h \in Handoffs, HandPrepared(h) PROVE HandInv'
  OBVIOUS
<1>1. stage[h] = "preparing" /\ stage[h] \in Shows /\ UNCHANGED <<handed, boundTo, said, frameGeneration, restarted>>
  BY DEF HandPrepared, Shows
<1>2. CASE overlay.of # h
  BY <1>1, <1>2, ThrowsKeeps DEF HandPrepared
<1>3. CASE overlay.of = h
  <2>1. /\ overlay' = [overlay EXCEPT !.enabled = TRUE]
        /\ Goes(h, "ending") /\ UNCHANGED <<coordinatorVars, answered>>
    BY <1>3 DEF HandPrepared
  <2>2. overlay # NoOverlay /\ overlay \in [of : Handoffs, acknowledged : BOOLEAN, enabled : BOOLEAN]
    BY <1>3, NoOverlayIs DEF HandInv, HandTypeOK, Overlays
  <2>3. overlay'.of = h /\ overlay' \in Overlays BY <1>3, <2>1, <2>2 DEF Overlays
  <2>4. CoordinatorFits BY <2>1, UnchangedFits
  <2>5. HandGoes(h, "ending", answered[h]) BY <2>1 DEF HandGoes, Goes, HandInv, HandTypeOK
  <2>6. stage'[h] = "ending" /\ "ending" \in Shows BY <2>5 DEF HandGoes, HandInv, HandTypeOK, Shows
  <2>7. OverlayFits' BY <1>1, <1>3, <2>2, <2>3, <2>6 DEF HandInv, OverlayFits
  <2>8. answered[h] \in {"none", "failed"} \cup Terminal BY DEF HandInv, HandTypeOK
  <2> QED BY <1>1, <2>3, <2>4, <2>5, <2>6, <2>7, <2>8, CommandKeeps DEF HandInv, HandTypeOK
<1> QED BY <1>2, <1>3

\* A command hears how its handoff ended.
LEMMA EndedKeeps == HandInv /\ (\E h \in Handoffs : HandEnded(h)) => HandInv'
<1> SUFFICES ASSUME HandInv, NEW h \in Handoffs, HandEnded(h) PROVE HandInv'
  OBVIOUS
<1>1. /\ stage[h] = "ending" /\ stage[h] \in Shows /\ ~Open(h) /\ Goes(h, "removing")
      /\ answered' = [answered EXCEPT ![h] = handRecord[h]]
      /\ UNCHANGED <<coordinatorVars, handed, boundTo, pageVars, restarted>>
  BY DEF HandEnded, Shows
<1>2. handRecord[h] \in Terminal
  BY <1>1, StartedFits DEF HandInv, HandTypeOK, HandRecords, Open
<1>3. "removing" \in Shows BY DEF Shows
<1> QED BY <1>1, <1>2, <1>3, StepKeeps

\* A command has removed its overlay.
LEMMA RemovedKeeps == HandInv /\ (\E h \in Handoffs : HandRemoved(h)) => HandInv'
<1> SUFFICES ASSUME HandInv, NEW h \in Handoffs, HandRemoved(h) PROVE HandInv'
  OBVIOUS
<1>1. /\ stage[h] = "removing" /\ stage[h] \in Shows /\ Goes(h, "done")
      /\ overlay' = (IF handed[h] /\ overlay.of = h THEN NoOverlay ELSE overlay)
      /\ UNCHANGED <<coordinatorVars, handed, boundTo, answered, said, frameGeneration, restarted>>
  BY DEF HandRemoved, Shows
<1>2. CoordinatorFits BY <1>1, UnchangedFits
<1>3. HandGoes(h, "done", answered[h]) BY <1>1 DEF HandGoes, Goes, HandInv, HandTypeOK
<1>4. overlay' \in Overlays BY <1>1, NoOverlayIs DEF HandInv, HandTypeOK
<1>5. ~restarted /\ overlay' # NoOverlay => overlay' = overlay /\ overlay.of # h
  BY <1>1 DEF HandInv, OverlayFits
<1>6. OverlayFits' BY <1>1, <1>5 DEF Goes, HandInv, HandTypeOK, OverlayFits
<1>7. answered[h] \in {"none", "failed"} \cup Terminal BY DEF HandInv, HandTypeOK
<1> QED BY <1>1, <1>2, <1>3, <1>4, <1>6, <1>7, CommandKeeps DEF HandInv, HandTypeOK

\* A handoff starts: its command has no overlay yet.
LEMMA StartKeeps == HandInv /\ (\E h \in Handoffs : HandStart(h)) => HandInv'
<1> SUFFICES ASSUME HandInv, NEW h \in Handoffs, HandStart(h) PROVE HandInv'
  OBVIOUS
<1>1. /\ stage[h] = "idle" /\ handRecord' = [handRecord EXCEPT ![h] = "started"]
      /\ told' = [told EXCEPT ![h] = <<"started">>] /\ boundTo' = [boundTo EXCEPT ![h] = frameGeneration]
      /\ stage' = [stage EXCEPT ![h] = "showing"]
      /\ UNCHANGED <<cut, handed, answered, overlay, said, frameGeneration, restarted>>
  BY DEF HandStart, Goes, pageVars
<1>2. HandTypeOK'
  <2>1. <<"started">> \in Seq(HandRecords) /\ "started" \in HandRecords BY DEF HandRecords
  <2> QED BY <1>1, <2>1 DEF HandInv, HandTypeOK
<1>3. OutcomeFits(h)'
  <2>1. /\ handRecord'[h] = "started" /\ told'[h] = <<"started">> /\ stage'[h] = "showing"
        /\ answered'[h] = answered[h] /\ cut' = cut
    BY <1>1 DEF HandInv, HandTypeOK
  <2>2. handRecord[h] = "none" /\ h \notin cut /\ answered[h] \notin Terminal
    <3>1. "none" \notin Terminal BY DEF Terminal
    <3> QED BY <1>1, <3>1 DEF HandInv, OutcomeFits
  <2>3. "started" \notin Terminal BY DEF Terminal
  <2> QED BY <2>1, <2>2, <2>3 DEF OutcomeFits, ToldFits
<1>4. \A g \in Handoffs \ {h} : OutcomeFits(g)'
  <2> SUFFICES ASSUME NEW g \in Handoffs \ {h} PROVE OutcomeFits(g)'
    OBVIOUS
  <2>1. handRecord'[g] = handRecord[g] /\ told'[g] = told[g] /\ stage'[g] = stage[g] BY <1>1 DEF HandInv, HandTypeOK
  <2> QED BY <1>1, <2>1 DEF HandInv, OutcomeFits
<1>5. OverlayFits'
  <2>1. ~restarted /\ overlay # NoOverlay => overlay.of # h BY <1>1 DEF HandInv, OverlayFits, Shows
  <2> QED BY <1>1, <2>1 DEF HandInv, HandTypeOK, OverlayFits
<1> QED BY <1>2, <1>3, <1>4, <1>5 DEF HandInv

\* The panel begins or cancels.
LEMMA HumanKeeps == HandInv /\ (HumanBegins \/ HumanCancels) => HandInv'
<1> SUFFICES ASSUME HandInv, HumanBegins \/ HumanCancels PROVE HandInv'
  OBVIOUS
<1>1. UNCHANGED <<handRecord, told, cut, stage, handed, answered, boundTo, frameGeneration, restarted>>
  BY DEF HumanBegins, HumanCancels, coordinatorVars, commandVars
<1>2. overlay # NoOverlay /\ overlay \in [of : Handoffs, acknowledged : BOOLEAN, enabled : BOOLEAN]
  <2>1. overlay # NoOverlay BY NoOverlayIs DEF HumanBegins, HumanCancels
  <2> QED BY <2>1 DEF HandInv, HandTypeOK, Overlays
<1>3. overlay'.of = overlay.of /\ overlay' \in Overlays
  BY <1>2 DEF HumanBegins, HumanCancels, Overlays
<1>4. said' \subseteq [by : Handoffs, state : {"acknowledged", "completed", "cancelled"}]
  BY <1>2 DEF HumanBegins, HumanCancels, HandInv, HandTypeOK
<1>5. CoordinatorFits BY <1>1, UnchangedFits DEF coordinatorVars
<1>6. OverlayFits' BY <1>1, <1>2, <1>3 DEF HandInv, OverlayFits
<1> QED BY <1>1, <1>3, <1>4, <1>5, <1>6, HandKept DEF HandInv, HandTypeOK

\* The page navigates: the overlay goes with the old document.
LEMMA NavigationKeeps == HandInv /\ FrameNavigates => HandInv'
<1> SUFFICES ASSUME HandInv, FrameNavigates PROVE HandInv'
  OBVIOUS
<1>1. UNCHANGED <<handRecord, told, cut, stage, handed, answered, boundTo, said, restarted>>
      /\ frameGeneration' = frameGeneration + 1 /\ overlay' = NoOverlay
  BY DEF FrameNavigates, coordinatorVars, commandVars
<1>2. CoordinatorFits BY <1>1, UnchangedFits DEF coordinatorVars
<1>3. OverlayFits' BY <1>1 DEF OverlayFits
<1> QED BY <1>1, <1>2, <1>3, NoOverlayIs, HandKept DEF HandInv, HandTypeOK

\* The worker restarts: a handoff that has not ended is lost, and its command with it.
LEMMA RestartKeeps == HandInv /\ WorkerRestarts => HandInv'
<1> SUFFICES ASSUME HandInv, WorkerRestarts PROVE HandInv'
  OBVIOUS
<1>1. /\ UNCHANGED <<told, cut, handed, answered, boundTo, overlay, said, frameGeneration>> /\ restarted' = TRUE
      /\ stage' = [h \in Handoffs |-> IF stage[h] = "idle" THEN "idle" ELSE "done"]
      /\ handRecord' = [h \in Handoffs |-> IF stage[h] = "idle" THEN "none" ELSE
                                            IF Open(h) THEN "lost" ELSE handRecord[h]]
  BY DEF WorkerRestarts, pageVars
<1>2. HandTypeOK'
  <2>1. \A h \in Handoffs : handRecord'[h] \in HandRecords BY <1>1 DEF HandInv, HandTypeOK, HandRecords
  <2>2. handRecord' \in [Handoffs -> HandRecords] BY <1>1, <2>1
  <2> QED BY <1>1, <2>2 DEF HandInv, HandTypeOK
<1>3. ASSUME NEW h \in Handoffs PROVE OutcomeFits(h)'
  <2>1. /\ stage'[h] = (IF stage[h] = "idle" THEN "idle" ELSE "done")
        /\ handRecord'[h] = (IF stage[h] = "idle" THEN "none" ELSE IF Open(h) THEN "lost" ELSE handRecord[h])
    BY <1>1
  <2>2. OutcomeFits(h) /\ {"none", "lost", "started", "acknowledged"} \cap Terminal = {} BY DEF HandInv, Terminal
  <2>3. CASE stage[h] = "idle" BY <1>1, <2>1, <2>2, <2>3 DEF OutcomeFits
  <2>4. CASE stage[h] # "idle" /\ Open(h) BY <1>1, <2>1, <2>2, <2>4 DEF OutcomeFits, Open, ToldFits
  <2>5. CASE stage[h] # "idle" /\ ~Open(h) BY <1>1, <2>1, <2>2, <2>5 DEF OutcomeFits
  <2> QED BY <2>3, <2>4, <2>5
<1>4. OverlayFits' BY <1>1 DEF OverlayFits
<1> QED BY <1>2, <1>3, <1>4 DEF HandInv

\* The invariant holds in every behaviour.
LEMMA HandInvariant == HandSpec => []HandInv
<1>1. HandInit => HandInv
  <2> SUFFICES ASSUME HandInit PROVE HandInv
    OBVIOUS
  <2>1. HandTypeOK
    <3>1. handRecord \in [Handoffs -> HandRecords] BY DEF HandInit, HandRecords
    <3>2. told \in [Handoffs -> Seq(HandRecords)] BY DEF HandInit
    <3>3. /\ stage \in [Handoffs -> {"idle", "showing", "done"} \cup Shows]
          /\ answered \in [Handoffs -> {"none", "failed"} \cup Terminal]
      BY DEF HandInit
    <3>4. handed \in [Handoffs -> BOOLEAN] /\ boundTo \in [Handoffs -> Nat] BY DEF HandInit
    <3>5. /\ cut \subseteq Handoffs /\ frameGeneration \in Nat /\ overlay \in Overlays /\ restarted \in BOOLEAN
          /\ said \subseteq [by : Handoffs, state : {"acknowledged", "completed", "cancelled"}]
      BY NoOverlayIs DEF HandInit
    <3> QED BY <3>1, <3>2, <3>3, <3>4, <3>5 DEF HandTypeOK
  <2>2. \A h \in Handoffs : OutcomeFits(h) BY DEF HandInit, OutcomeFits, ToldFits, Terminal
  <2>3. OverlayFits BY DEF HandInit, OverlayFits
  <2> QED BY <2>1, <2>2, <2>3 DEF HandInv
<1>2. HandInv /\ [HandNext]_handVars => HandInv'
  <2> SUFFICES ASSUME HandInv, [HandNext]_handVars PROVE HandInv'
    OBVIOUS
  <2>1. CASE HandNext
    <3>1. CASE \E h \in Handoffs : HandTimesOut(h) \/ HandAborted(h) BY <3>1, TimesOutKeeps
    <3>2. CASE \E h \in Handoffs : HandStep(h)
      BY <3>2, ShownKeeps, BeganKeeps, ClickedKeeps, PreparedKeeps, EndedKeeps, RemovedKeeps DEF HandStep
    <3>3. CASE \E h \in Handoffs : HandStart(h) BY <3>3, StartKeeps
    <3>4. CASE \E m \in said : AcceptPageEvent(m) BY <3>4, PageEventKeeps
    <3>5. CASE HumanBegins \/ HumanCancels \/ FrameNavigates \/ WorkerRestarts
      BY <3>5, HumanKeeps, NavigationKeeps, RestartKeeps
    <3> QED BY <2>1, <3>1, <3>2, <3>3, <3>4, <3>5 DEF HandNext, HandProgress
  <2>2. CASE UNCHANGED handVars
    BY <2>2 DEF handVars, HandInv, HandTypeOK, OutcomeFits, OverlayFits
  <2> QED BY <2>1, <2>2
<1> QED BY <1>1, <1>2, PTL DEF HandSpec

\* The command of a handoff returns the outcome its listeners were told last, and there is one
\* (OneOutcome): handoff-coordinator.ts's terminate and acceptPageEvent.
THEOREM HandoffEndsOnce == HandSpec => []OneOutcome
<1>1. HandInv => OneOutcome
  <2> SUFFICES ASSUME HandInv, NEW h \in Handoffs
               PROVE  /\ told[h] \in {<<>>, <<"started">>, <<"started", "acknowledged">>}
                           \cup {<<"started", t>> : t \in Terminal \ {"completed"}}
                           \cup {<<"started", "acknowledged", t>> : t \in Terminal}
                      /\ answered[h] \in Terminal => answered[h] = Last(told[h])
    BY DEF OneOutcome
  <2>1. ToldFits(handRecord[h], told[h]) /\ (answered[h] \in Terminal => answered[h] = handRecord[h])
    BY DEF HandInv, OutcomeFits
  <2>2. handRecord[h] \in Terminal => Last(told[h]) = handRecord[h]
    <3> SUFFICES ASSUME handRecord[h] \in Terminal PROVE Last(told[h]) = handRecord[h]
      OBVIOUS
    <3>1. \/ told[h] = <<"started", handRecord[h]>>
          \/ told[h] = <<"started", "acknowledged", handRecord[h]>>
      BY <2>1 DEF ToldFits, Terminal
    <3>2. \A t \in Terminal : /\ Len(<<"started", t>>) = 2 /\ <<"started", t>>[2] = t
                              /\ Len(<<"started", "acknowledged", t>>) = 3 /\ <<"started", "acknowledged", t>>[3] = t
      OBVIOUS
    <3>3. \A s : Last(s) = s[Len(s)] BY DEF Last
    <3> QED BY <3>1, <3>2, <3>3
  <2>3. told[h] \in {<<>>, <<"started">>, <<"started", "acknowledged">>}
                      \cup {<<"started", t>> : t \in Terminal \ {"completed"}}
                      \cup {<<"started", "acknowledged", t>> : t \in Terminal}
    <3>1. CASE handRecord[h] \notin Terminal BY <2>1, <3>1 DEF ToldFits
    <3>2. CASE handRecord[h] \in Terminal BY <2>1, <3>2 DEF ToldFits, Terminal
    <3> QED BY <3>1, <3>2
  <2> QED BY <2>1, <2>2, <2>3
<1> QED BY <1>1, HandInvariant, PTL

\* A command that is over leaves no overlay, unless the worker was restarted
\* (OverlayGoesWithCommand): the finally of browser-command-executor.ts's handoffStart.
THEOREM OverlayIsRemoved == HandSpec => []OverlayGoesWithCommand
<1>1. HandInv => OverlayGoesWithCommand
  BY DEF HandInv, OverlayFits, OverlayGoesWithCommand, Shows
<1> QED BY <1>1, HandInvariant, PTL
=============================================================================
