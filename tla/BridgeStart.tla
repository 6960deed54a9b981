----------------------------- MODULE BridgeStart -----------------------------
(***************************************************************************)
(* Commands of the CLI that start the bridge when it is not there             *)
(* (cli/src/bridge-autostart.ts): one configuration, one endpoint that may be   *)
(* started, several processes.  They exclude one another by a lock file, meet   *)
(* in the configuration's token; a probe answers whether                        *)
(* some bridge listens.  A process may end at any await and leave its lock.      *)
(*                                                                         *)
(* A token is the number of the process that made it, a bridge the number of its *)
(* start.  A second bridge cannot listen on the port of the first.              *)
(***************************************************************************)
EXTENDS Naturals, FiniteSets

CONSTANTS
  MaxStarters,   \* bound: commands that look for the bridge
  MaxBridges,    \* bound: bridges started
  MaxMishaps     \* bound: commands that end early, bridges that end, bridges served by hand

ASSUME StartAssumption == {MaxStarters, MaxBridges, MaxMishaps} \subseteq Nat

Starters == 1..MaxStarters
Bridges == 1..MaxBridges
ByHand == MaxStarters + 1    \* the maker of the token of a bridge served by hand
NoOne == 0
NoToken == 0

VARIABLES
  starter,     \* of each command: where it is, the token of its connection
  startLock,   \* the lock file: the command that made it
  fileToken,   \* the token in the configuration
  bridge,      \* of each bridge: "none", "starting", "listening" or "ended"; its token, its starter
  mishaps,
  byHand       \* history: a bridge was served by hand

startVars == <<starter, startLock, fileToken, bridge, mishaps, byHand>>

StartInit ==
  /\ starter = [c \in Starters |-> [phase |-> "idle", token |-> NoToken]]
  /\ startLock = NoOne /\ fileToken = NoToken
  /\ bridge = [b \in Bridges |-> [phase |-> "none", token |-> NoToken]]
  /\ mishaps = 0 /\ byHand = FALSE

Healthy == \E b \in Bridges : bridge[b].phase = "listening"
Becomes(c, phase, token) == starter' = [starter EXCEPT ![c] = [phase |-> phase, token |-> token]]

\* A new bridge, with the next number.
NewBridge(token) ==
  \E b \in Bridges :
    /\ bridge[b].phase = "none" /\ \A k \in 1..(b - 1) : bridge[k].phase # "none"
    /\ bridge' = [bridge EXCEPT ![b] = [phase |-> "starting", token |-> token]]

-----------------------------------------------------------------------------
(* A command *)

\* ensureBridgeServer resolves the connection before the first probe.
Looks(c) ==
  /\ starter[c].phase = "idle"
  /\ Becomes(c, "probing", fileToken)
  /\ UNCHANGED <<startLock, fileToken, bridge, mishaps, byHand>>

\* Mutant: the lock file is opened for writing, there or not.
ProbesAndOverwrites(c) ==
  /\ starter[c].phase = "probing"
  /\ IF Healthy THEN Becomes(c, "returned", starter[c].token) /\ UNCHANGED startLock
     ELSE Becomes(c, "holding", starter[c].token) /\ startLock' = c
  /\ UNCHANGED <<fileToken, bridge, mishaps, byHand>>

\* The first probe, and acquireStartLock if it failed.
Probes(c) ==
  /\ starter[c].phase = "probing"
  /\ IF Healthy THEN Becomes(c, "returned", starter[c].token) /\ UNCHANGED startLock
     ELSE IF startLock = NoOne THEN Becomes(c, "holding", starter[c].token) /\ startLock' = c
     ELSE Becomes(c, "competing", starter[c].token) /\ UNCHANGED startLock
  /\ UNCHANGED <<fileToken, bridge, mishaps, byHand>>

\* waitForCompetingStart: it resolves again once a bridge is healthy, or gives up.
Competes(c) ==
  /\ starter[c].phase = "competing"
  /\ IF Healthy
     THEN Becomes(c, IF fileToken = NoToken THEN "failed" ELSE "returned", fileToken)
     ELSE Becomes(c, "failed", starter[c].token)
  /\ UNCHANGED <<startLock, fileToken, bridge, mishaps, byHand>>

\* The end of the part that holds the lock: the lock file goes.
Leaves(c, phase, token) == Becomes(c, phase, token) /\ startLock' = NoOne

\* It resolves again, then probes; without a token it makes one and saves it.
Resolves(c) ==
  /\ starter[c].phase = "holding"
  /\ Becomes(c, "checking", fileToken)
  /\ UNCHANGED <<startLock, fileToken, bridge, mishaps, byHand>>

\* Mutant: a bridge that is there already is returned past the release of the lock.
ChecksAndReturns(c) ==
  /\ starter[c].phase = "checking"
  /\ IF Healthy THEN Becomes(c, "returned", starter[c].token) /\ UNCHANGED fileToken
     ELSE /\ fileToken' = IF starter[c].token = NoToken THEN c ELSE fileToken
          /\ Becomes(c, "rechecking", IF starter[c].token = NoToken THEN c ELSE starter[c].token)
  /\ UNCHANGED <<startLock, bridge, mishaps, byHand>>

Checks(c) ==
  /\ starter[c].phase = "checking"
  /\ IF Healthy THEN Leaves(c, "returned", starter[c].token) /\ UNCHANGED fileToken
     ELSE /\ fileToken' = IF starter[c].token = NoToken THEN c ELSE fileToken
          /\ Becomes(c, "rechecking", IF starter[c].token = NoToken THEN c ELSE starter[c].token)
          /\ UNCHANGED startLock
  /\ UNCHANGED <<bridge, mishaps, byHand>>

\* It probes once more and starts the bridge; a spawn may fail.
Spawns(c) ==
  /\ starter[c].phase = "rechecking"
  /\ IF Healthy THEN Leaves(c, "returned", starter[c].token) /\ UNCHANGED bridge
     ELSE \/ /\ NewBridge(starter[c].token)
             /\ Becomes(c, "starting", starter[c].token)
             /\ UNCHANGED startLock
          \/ Leaves(c, "failed", starter[c].token) /\ UNCHANGED bridge
  /\ UNCHANGED <<fileToken, mishaps, byHand>>

\* It waits for the bridge to be healthy, or gives up.
Waits(c) ==
  /\ starter[c].phase = "starting"
  /\ Leaves(c, IF Healthy THEN "returned" ELSE "failed", starter[c].token)
  /\ UNCHANGED <<fileToken, bridge, mishaps, byHand>>

-----------------------------------------------------------------------------
(* Bridges, and what befalls them *)

\* A bridge listens, or finds its port taken and ends.
Listens(b) ==
  /\ bridge[b].phase = "starting"
  /\ bridge' = [bridge EXCEPT ![b].phase = IF Healthy THEN "ended" ELSE "listening"]
  /\ UNCHANGED <<starter, startLock, fileToken, mishaps, byHand>>

Mishap == mishaps < MaxMishaps /\ mishaps' = mishaps + 1

BridgeEnds(b) ==
  /\ bridge[b].phase = "listening" /\ Mishap
  /\ bridge' = [bridge EXCEPT ![b].phase = "ended"]
  /\ UNCHANGED <<starter, startLock, fileToken, byHand>>

\* serve, by hand: no lock.
ServesByHand ==
  /\ Mishap
  /\ fileToken' = IF fileToken = NoToken THEN ByHand ELSE fileToken
  /\ NewBridge(fileToken')
  /\ byHand' = TRUE
  /\ UNCHANGED <<starter, startLock>>

\* The command is killed.
StarterKilled(c) ==
  /\ starter[c].phase \in {"holding", "checking", "rechecking", "starting"} /\ Mishap
  /\ Becomes(c, "ended", NoToken)
  /\ UNCHANGED <<startLock, fileToken, bridge, byHand>>

\* The user removes the lock of a command that is gone.
LockRemoved ==
  /\ startLock # NoOne /\ starter[startLock].phase = "ended"
  /\ startLock' = NoOne
  /\ UNCHANGED <<starter, fileToken, bridge, mishaps, byHand>>

-----------------------------------------------------------------------------

StarterSteps(c) == Probes(c) \/ Competes(c) \/ Resolves(c) \/ Checks(c) \/ Spawns(c) \/ Waits(c)

StartProgress == \E c \in Starters : StarterSteps(c)

StartNext ==
  \/ StartProgress
  \/ \E c \in Starters : Looks(c) \/ StarterKilled(c)
  \/ \E b \in Bridges : Listens(b) \/ BridgeEnds(b)
  \/ ServesByHand \/ LockRemoved

StartSpec == StartInit /\ [][StartNext]_startVars
\* Commands go on: their probes have a timeout, their waits an end.
StartFairness == WF_startVars(StartProgress)

-----------------------------------------------------------------------------
(* Properties *)

\* Commands that were told a token agree with the bridge that listens, as long as no bridge
\* was served by hand: the token is made once, under the lock, and everybody else reads it.
ConnectionFits ==
  \A c \in Starters, b \in Bridges :
    /\ starter[c].phase = "returned" /\ starter[c].token # NoToken
    /\ bridge[b].phase = "listening" /\ ~byHand
    => starter[c].token = bridge[b].token

\* The lock is let go, but for the one that a command left when it ended.
StartLockFreed ==
  (startLock # NoOne) ~> (startLock = NoOne \/ starter[startLock].phase = "ended")

\* The lock file names the command that starts the bridge, or one that was killed at it;
\* and there is no command at it without the lock.
LockHasHolder ==
  /\ startLock # NoOne =>
       startLock \in Starters /\ starter[startLock].phase \in {"holding", "checking", "rechecking", "starting", "ended"}
  /\ \A c \in Starters : starter[c].phase \in {"holding", "checking", "rechecking", "starting"} => startLock = c
=============================================================================
