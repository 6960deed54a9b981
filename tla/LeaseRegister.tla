---------------------------- MODULE LeaseRegister ----------------------------
(***************************************************************************)
(* What the authority over sidepanel windows promises its users, the ports and  *)
(* the coordinator that fence their work with a lease: a window has one lease   *)
(* at a time, a lease is of one window and one document, and one that was        *)
(* withdrawn never counts again.                                             *)
(***************************************************************************)
EXTENDS Naturals

CONSTANTS RegisterWindows, RegisterDocuments, Leases, NoLease

VARIABLES
  holder,    \* of each window, its lease and the document that holds it
  granted    \* every lease that ever counted

NoHolder == [lease |-> NoLease, document |-> 0]

RegisterInit == holder = [w \in RegisterWindows |-> NoHolder] /\ granted = {}

Holders == [lease : Leases \ {NoLease}, document : RegisterDocuments]

Grant(w) ==
  LET new == holder'[w] IN
  /\ new \in Holders /\ new.lease \notin granted
  /\ granted' = granted \cup {new.lease}
  /\ holder' = [holder EXCEPT ![w] = new]

Withdraw(w) ==
  /\ holder[w] # NoHolder
  /\ holder' = [holder EXCEPT ![w] = NoHolder]
  /\ UNCHANGED granted

RegisterNext == \E w \in RegisterWindows : Grant(w) \/ Withdraw(w)

RegisterSpec == RegisterInit /\ [][RegisterNext]_<<holder, granted>>
==============================================================================
